--------------------------- MODULE VariableAnalyzer ---------------------------
(***************************************************************************)
(* The first two passes of src/src/Compiler.hpp: FunctionScanner, which    *)
(* numbers the functions, and VariableAnalyzer, which finds the category   *)
(* and the slot of every variable.                                         *)
(***************************************************************************)
EXTENDS SyntaxTree, Integers

LOCAL INSTANCE SequencesExt
LOCAL INSTANCE TLC

(* FunctionScanner: declarations and literals in the order of the source.   *)
RECURSIVE Scan(_)
Scan(nodes) ==
  Reduce(LAMBDA table, n :
      table \o (IF n.kind = "function" THEN <<n>> ELSE <<>>) \o Scan(Children(n)),
    <<>>, nodes)

(* function_indices and node_functions                                      *)
IndexOfFunction(table, id) == SelectInSeq(table, LAMBDA f : f.tag.id = id) - 1

Declared(declarations) == {declarations[i].tag.id : i \in DOMAIN declarations}

(* native_function_table and native_function_indices                        *)
NativeTable == <<"new_thread", "new_chan", "chan_send", "chan_recv",
                 "sprint", "iprint", "fprint", "new_slice">>
NativeIndices == [make |-> 1, sprint |-> 4, iprint |-> 5, fprint |-> 6, new |-> 7]

-----------------------------------------------------------------------------
(* VariableAnalyzer.  A frame has the category of every variable of a       *)
(* function, "free", "bound" or "escaped", and three lists of them.         *)
NewFrame == [category |-> <<>>, captures |-> <<>>, parameters |-> <<>>, locals |-> <<>>]

Known(frame, name) == name \in DOMAIN frame.category

Emplace(frame, name, category) ==
  IF Known(frame, name) THEN frame
  ELSE [frame EXCEPT !.category = @ @@ (name :> category)]

Capture(frame, name) ==
  [Emplace(frame, name, "free") EXCEPT !.captures = Append(@, name)]

(* Faulty variant: native functions are taken for variables.                *)
ReferToNatives(frame, name, functions) ==
  IF Known(frame, name) \/ name \in functions THEN frame ELSE Capture(frame, name)

(* analyze_reference: names of functions are never variables.               *)
Refer(frame, name, functions) ==
  IF Known(frame, name) \/ name \in functions \cup DOMAIN NativeIndices THEN frame
  ELSE Capture(frame, name)

DeclareParameter(frame, parameter) ==
  IF parameter.name = "" THEN frame
  ELSE [Emplace(frame, parameter.name, "bound") EXCEPT !.parameters = Append(@, parameter.name)]

(* visitChildren of a var reaches the parameters of a function type, and    *)
(* takes them for parameters of the function the var is in.                 *)
RECURSIVE ParametersIn(_)
ParametersIn(type) ==
  CASE type.kind = "func" -> type.parameters
    [] type.kind \in {"chan", "slice", "pointer"} -> ParametersIn(type.element)
    [] OTHER -> <<>>

DeclareLocal(frame, name, type) ==
  Reduce(DeclareParameter,
         [Emplace(frame, name, "bound") EXCEPT !.locals = Append(@, name)],
         ParametersIn(type))

(* Faulty variant: captured variables stay on the call stack.               *)
EncloseByValue(frame, nested) ==
  Reduce(LAMBDA f, name : IF Known(f, name) THEN f ELSE Capture(f, name), frame, nested.captures)

(* What the end of a nested function does to the one around it: variables   *)
(* it has are moved to the heap, the others are captured from further out.  *)
(* The order is that of an unordered_map; any will do, here the captures'.  *)
Enclose(frame, nested) ==
  Reduce(LAMBDA f, name :
      IF ~ Known(f, name) THEN Capture(f, name)
      ELSE IF f.category[name] = "bound" THEN [f EXCEPT !.category[name] = "escaped"]
      ELSE f,
    frame, nested.captures)

NewFunctionFrame(function) == Reduce(DeclareParameter, NewFrame, function.tag.parameters)

(* Faulty variant: assignments are not visited.                             *)
ReferenceInExpression(n) == n.kind \in {"name", "send"}

(* The nodes with an analyze_reference.                                     *)
Reference(n) == n.kind \in {"name", "send", "assign"}

RECURSIVE Analyze(_, _, _)
Analyze(n, frame, functions) ==
  LET here == CASE Reference(n) -> Refer(frame, n.tag, functions)
                [] n.kind = "var" -> DeclareLocal(frame, n.tag.name, n.tag.type)
                [] n.kind = "function" -> NewFunctionFrame(n)
                [] OTHER -> frame
      after == Reduce(LAMBDA f, child : Analyze(child, f, functions), here, Children(n))
  IN  IF n.kind = "function" THEN Enclose(frame, after) ELSE after

FrameOf(function, functions) ==
  Reduce(LAMBDA f, child : Analyze(child, f, functions),
         NewFunctionFrame(function), Children(function))

(* Captures, parameters, locals, in this order; a name declared twice has   *)
(* the last of its positions.  SlotFromOne is a faulty variant of Slot.     *)
Positions(frame) == frame.captures \o frame.parameters \o frame.locals
SlotFromOne(frame, name) == SelectLastInSeq(Positions(frame), LAMBDA other : other = name)
Slot(frame, name) == SelectLastInSeq(Positions(frame), LAMBDA other : other = name) - 1
=============================================================================
