------------------------------ MODULE Compiler ------------------------------
(***************************************************************************)
(* src/src/Compiler.hpp: the passes that turn a syntax tree into the       *)
(* function table of the virtual machine.                                  *)
(*   Scan                FunctionScanner, numbers the functions            *)
(*   FrameOf             VariableAnalyzer, finds the slots and captures    *)
(*   AnnotateSourceFile  TypeAnnotator, the types of the nodes             *)
(*   Visit...            the Compiler visitor, emits the instructions      *)
(* Where the visitor throws or crashes it emits Refuse here, and a program *)
(* with a Refuse in its code is not accepted.  Numbers are integers, and   *)
(* the operand of & has no function literals: these would get no code.     *)
(***************************************************************************)
EXTENDS TypeAnnotator

LOCAL INSTANCE SequencesExt
LOCAL INSTANCE TLC
LOCAL INSTANCE FiniteSets

-----------------------------------------------------------------------------
(* The Compiler visitor.  env has the frame of the function, the table of   *)
(* all functions and the names of the declared ones.  Until the function is *)
(* complete, labels are in the code, the index of a goto statement is the   *)
(* label, and that of every other jump is relative.                         *)
Emit(opcode, index) == <<[opcode |-> opcode, index |-> index]>>
Refuse == Emit("refuse", 0)
EmitNative(name) == Emit("invoke_native", SelectInSeq(NativeTable, LAMBDA n : n = name) - 1)

Box(words) == Emit("new", words) \o Emit("dup", 0)
Object(words, value) == Box(words) \o Emit("push", value) \o Emit("wstore", 0)

IsBound(env, name) == env.frame.category[name] = "bound"
LoadSlot(env, name) == Emit("load", Slot(env.frame, name))
StoreSlot(env, name) == Emit("store", Slot(env.frame, name))
LoadVariable(env, name) ==
  IF ~ Known(env.frame, name) THEN Refuse
  ELSE IF IsBound(env, name) THEN LoadSlot(env, name)
  ELSE LoadSlot(env, name) \o Emit("wload", 0)

(* Faulty variant: the functions of closures are counted from one.          *)
VisitOperandNameFromOne(n, env) ==
  IF n.type.kind # "function" THEN LoadVariable(env, n.tag)
  ELSE Object(WordsOf(ClosureType(n.type, 0)), IndexOfFunction(env.table, n.tag) + 1)

(* A function becomes a closure without captures.                           *)
VisitOperandName(n, env) ==
  IF n.type.kind # "function" THEN LoadVariable(env, n.tag)
  ELSE IF n.tag \notin env.functions THEN Refuse
  ELSE Object(WordsOf(ClosureType(n.type, 0)), IndexOfFunction(env.table, n.tag))

(* The captured variables of the literal are copied from the variables of   *)
(* the function around it, as addresses, into slots 1, 2, ...               *)
VisitFunctionLit(n, env) ==
  LET captures == FrameOf(n, env.functions).captures
      CopySlot(i) == Emit("dup", 0) \o LoadSlot(env, captures[i]) \o Emit("wstore", i)
  IN  Object(WordsOf(n.type), IndexOfFunction(env.table, n.tag.id))
        \o FlattenSeq([i \in DOMAIN captures |-> CopySlot(i)])

(* Integers have instructions of their own, everything else is a double.    *)
TypedOpcode(opcode, type) == (IF type = IntType THEN "i" ELSE "f") \o opcode

VisitUnary(n, code) ==
  CASE n.tag = "&" -> <<>>
    [] n.tag = "<-" -> code[1] \o EmitNative("chan_recv") \o Emit("wload", 0)
    [] n.tag = "*" -> code[1] \o Emit("wload", 0)
    [] n.tag = "+" -> code[1]
    [] n.tag = "-" -> code[1] \o Emit(TypedOpcode("neg", n.parts[1][1].type), 0)
    [] n.tag = "!" -> code[1] \o Emit("lnot", 0)
    [] n.tag = "^" -> code[1] \o Emit("inot", 0)

TypedBinary ==
  ("+" :> "add") @@ ("-" :> "sub") @@ ("*" :> "mul") @@ ("/" :> "div")
  @@ ("==" :> "eq") @@ ("!=" :> "ne") @@ ("<" :> "lt") @@ ("<=" :> "le")
  @@ (">" :> "gt") @@ (">=" :> "ge")

IntegerBinary ==
  ("%" :> "irem") @@ ("|" :> "ior") @@ ("^" :> "ixor") @@ ("&" :> "iand")
  @@ ("<<" :> "ishl") @@ (">>" :> "ishr")

BinaryOpcode(n) ==
  IF n.tag \in DOMAIN IntegerBinary THEN IntegerBinary[n.tag]
  ELSE TypedOpcode(TypedBinary[n.tag], n.parts[1][1].type)

(* || and && keep the left value if it decides, and drop it if not.         *)
VisitBinary(n, code) ==
  LET jump == IF n.tag = "||" THEN "if_t" ELSE "if_f"
  IN  IF n.tag \in {"||", "&&"}
        THEN code[1] \o Emit("dup", 0) \o Emit(jump, 2 + Len(code[2])) \o Emit("pop", 0) \o code[2]
      ELSE code[1] \o code[2] \o Emit(BinaryOpcode(n), 0)

(* FunctionResolver decides between a static, a native and a dynamic call.  *)
CallsAny(n, names) == n.parts[1][1].kind = "name" /\ n.parts[1][1].tag \in names

VisitCall(n, code, env) ==
  LET callee == n.parts[1][1].tag
  IN  code[2] \o (IF CallsAny(n, env.functions)
                    THEN Emit("invoke_static", IndexOfFunction(env.table, callee))
                  ELSE IF CallsAny(n, DOMAIN NativeIndices)
                    THEN Emit("invoke_native", NativeIndices[callee])
                  ELSE code[1] \o Emit("invoke_dynamic", 0))

VisitGo(code) == code[2] \o code[1] \o EmitNative("new_thread")

(* type->index of a null type is refused.                                   *)
VisitVarSpec(n, code, env) ==
  CASE n.parts[1] = <<>> -> <<>>
    [] n.parts[1] # <<>> /\ IsBound(env, n.tag.name) -> code[1] \o StoreSlot(env, n.tag.name)
    [] n.parts[1] # <<>> /\ ~ IsBound(env, n.tag.name) ->
         (IF n.type = Void THEN Refuse ELSE Box(WordsOf(n.type)))
           \o code[1] \o Emit("wstore", 0) \o StoreSlot(env, n.tag.name)

(* The value is popped; the type of a call without result is null.  The     *)
(* first operator is a faulty variant that leaves the value.                *)
VisitExpressionStmtKeeps(n, code) == IF n.parts[1][1].type = NoEntry THEN Refuse ELSE code[1]
VisitExpressionStmt(n, code) ==
  CASE n.parts[1][1].type = NoEntry -> Refuse
    [] n.parts[1][1].type = Void -> code[1]
    [] OTHER -> code[1] \o Emit("pop", 0)

VisitSend(n, code, env) ==
  LoadVariable(env, n.tag) \o Box(1) \o code[1] \o Emit("wstore", 0) \o EmitNative("chan_send")

VisitAssignment(n, code, env) ==
  IF ~ Known(env.frame, n.tag) THEN Refuse
  ELSE IF IsBound(env, n.tag) THEN code[1] \o StoreSlot(env, n.tag)
  ELSE LoadSlot(env, n.tag) \o code[1] \o Emit("wstore", 0)

VisitReturn(n, code) == IF n.parts[1] = <<>> THEN Refuse ELSE code[1] \o Emit("ret", 0)

(* Faulty variant: a false condition jumps to the goto in front of else.    *)
VisitIfShort(code) ==
  code[1] \o Emit("if_f", 1 + Len(code[2])) \o code[2]
    \o (IF Len(code) = 2 THEN <<>> ELSE Emit("goto", 1 + Len(code[3])) \o code[3])

VisitIf(code) ==
  IF Len(code) = 2 THEN code[1] \o Emit("if_f", 1 + Len(code[2])) \o code[2]
  ELSE code[1] \o Emit("if_f", 2 + Len(code[2])) \o code[2]
         \o Emit("goto", 1 + Len(code[3])) \o code[3]

VisitFor(n, code) ==
  LET test == IF n.parts[1] = <<>> THEN <<>> ELSE code[1] \o Emit("if_f", 2 + Len(code[2]))
  IN  test \o code[2] \o Emit("goto", -(Len(test) + Len(code[2])))

(* A literal is compiled in a frame of its own, and a callee that is known  *)
(* is not evaluated.                                                        *)
VisitedParts(n, env) ==
  CASE n.kind = "function" -> <<>>
    [] n.kind = "call" /\ CallsAny(n, env.functions \cup DOMAIN NativeIndices) ->
         << <<>>, n.parts[2] >>
    [] n.kind = "unary" /\ n.tag = "&" -> <<>>
    [] OTHER -> n.parts

(* code is the code of the visited parts.                                   *)
VisitNode(n, code, env) ==
  CASE n.kind = "number" -> Emit("push", n.tag)
    [] n.kind = "float" -> Emit("push", n.tag)
    [] n.kind = "string" -> Object(WordsOf(StringType), n.tag)
    [] n.kind = "name" -> VisitOperandName(n, env)
    [] n.kind = "function" -> VisitFunctionLit(n, env)
    [] n.kind = "unary" -> VisitUnary(n, code)
    [] n.kind = "binary" -> VisitBinary(n, code)
    [] n.kind = "call" -> VisitCall(n, code, env)
    [] n.kind = "go" -> VisitGo(code)
    [] n.kind = "var" -> VisitVarSpec(n, code, env)
    [] n.kind = "expression" -> VisitExpressionStmt(n, code)
    [] n.kind \in {"defer", "block"} -> code[1]
    [] n.kind = "send" -> VisitSend(n, code, env)
    [] n.kind = "assign" -> VisitAssignment(n, code, env)
    [] n.kind = "return" -> VisitReturn(n, code)
    [] n.kind = "if" -> VisitIf(code)
    [] n.kind = "for" -> VisitFor(n, code)
    [] n.kind = "goto" -> Emit("goto label", n.tag)
    [] n.kind = "label" -> Emit("label", n.tag)

RECURSIVE Visit(_, _)
VisitAll(nodes, env) == Reduce(LAMBDA code, n : code \o Visit(n, env), <<>>, nodes)
VisitParts(parts, env) == Reduce(LAMBDA code, part : Append(code, VisitAll(part, env)), <<>>, parts)
Visit(n, env) == VisitNode(n, VisitParts(VisitedParts(n, env), env), env)

(* Parameters are stored in reverse order, the last is on top of the stack. *)
(* Here, too, type->index of a null type is refused.                        *)
VisitParameterDecl(env, parameter) ==
  LET name == parameter.name
      type == WrapCallable(DeclaredType(parameter).type)
  IN  CASE name = "" -> Emit("pop", 0)
        [] name # "" /\ IsBound(env, name) -> StoreSlot(env, name)
        [] name # "" /\ ~ IsBound(env, name) ->
             (IF type = Void THEN Refuse ELSE Box(WordsOf(type)))
               \o StoreSlot(env, name) \o Emit("swap", 0) \o Emit("wstore", 0)

(* A label is the number of instructions before its first occurrence.       *)
Resolve(code) ==
  LET IsLabel(i) == code[i].opcode = "label"
      Location(i) == Cardinality({j \in 1 .. (i - 1) : ~ IsLabel(j)})
      LabelOf(i) == SelectInSeq(code, LAMBDA c : c.opcode = "label" /\ c.index = code[i].index)
      Absolute(i) ==
        CASE code[i].opcode = "goto label" ->
               (IF LabelOf(i) = 0 THEN Refuse ELSE Emit("goto", Location(LabelOf(i))))
          [] code[i].opcode \in {"goto", "if_t", "if_f"} ->
               Emit(code[i].opcode, Location(i + code[i].index))
          [] IsLabel(i) -> <<>>
          [] OTHER -> <<code[i]>>
  IN  FlattenSeq([i \in DOMAIN code |-> Absolute(i)])

(* visitFunction: prologue, body, a ret if no statement returns, gotos.     *)
VisitParameters(function, env) ==
  FlattenSeq([i \in DOMAIN function.tag.parameters |->
    VisitParameterDecl(env, Reverse(function.tag.parameters)[i])])

Close(body) ==
  body \o IF \E i \in DOMAIN body : body[i].opcode = "ret" THEN <<>> ELSE Emit("ret", 0)

VisitFunction(function, env) ==
  Resolve(VisitParameters(function, env) \o Close(VisitAll(Children(function), env)))

CompileFunction(function, functions, table) ==
  LET frame == FrameOf(function, functions)
      env == [frame |-> frame, functions |-> functions, table |-> table]
  IN  [capc |-> Len(frame.captures), argc |-> Len(frame.parameters),
       varc |-> Cardinality(DOMAIN frame.category), code |-> VisitFunction(function, env)]

(* visitSourceFile and the choice of main in main.cpp.                      *)
CompileTable(table, functions) ==
  [functions |-> [i \in DOMAIN table |-> CompileFunction(table[i], functions, table)],
   main |-> IndexOfFunction(table, "main"),
   natives |-> NativeTable]

Compile(declarations) == CompileTable(Scan(declarations), Declared(declarations))

(* A program that is not accepted has no meaning for the virtual machine.   *)
Generated(program) ==
  \A i \in DOMAIN program.functions : \A j \in DOMAIN program.functions[i].code :
    program.functions[i].code[j].opcode # "refuse"

Rejected == [accepted |-> FALSE]
Finish(program) == IF Generated(program) THEN program @@ [accepted |-> TRUE] ELSE Rejected
CompileAnnotated(a) == IF a.accepted THEN Finish(Compile(a.nodes)) ELSE Rejected

(* Variables at top level are in the grammar; the analyzer has no frame for *)
(* them, and crashes.                                                       *)
OnlyFunctions(declarations) == \A i \in DOMAIN declarations : declarations[i].kind = "function"

CompileSource(declarations) ==
  IF OnlyFunctions(declarations) THEN CompileAnnotated(AnnotateSourceFile(declarations)) ELSE Rejected
=============================================================================
