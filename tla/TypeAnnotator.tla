---------------------------- MODULE TypeAnnotator ----------------------------
(***************************************************************************)
(* TypeAnnotator of src/src/Compiler.hpp: gives the nodes of a tree their  *)
(* types, and rejects a tree by throwing an exception, or by crashing on a *)
(* null type.  A type is a value here.  In the code it is an object found  *)
(* by its name in type_names; TypeName says what these names are.          *)
(***************************************************************************)
EXTENDS VariableAnalyzer

LOCAL INSTANCE SequencesExt
LOCAL INSTANCE TLC

(* The classes of Code.hpp; Void is nullptr.                                *)
Void == [kind |-> "void"]
IntType == [kind |-> "int"]
FloatType == [kind |-> "float"]
BoolType == [kind |-> "bool"]
StringType == [kind |-> "string"]
FunctionType(arg_types, return_type) ==
  [kind |-> "function", arg_types |-> arg_types, return_type |-> return_type]
ClosureType(function_type, capc) ==
  [kind |-> "closure", function_type |-> function_type, capc |-> capc]
CallableType(function_type) == [kind |-> "callable", function_type |-> function_type]
ChannelType(element_type) == [kind |-> "channel", element_type |-> element_type]
SliceType(element_type) == [kind |-> "slice", element_type |-> element_type]

(* size, in words.                                                          *)
WordsOf(type) ==
  CASE type.kind = "function" -> 0
    [] type.kind = "closure" -> 1 + type.capc
    [] OTHER -> 1

(* Faulty variant: the captures of a closure are not part of its name.      *)
ClosureNameWithoutCaptures(type) == <<"closure", "->">>

(* get_name, as a sequence of tokens; an absent element or result is left   *)
(* out, an absent argument is dereferenced.                                 *)
ClosureName(type) == <<"closure", ToString(type.capc), "->">>

RECURSIVE TypeName(_)
TypeName(type) ==
  CASE type.kind = "void" -> <<>>
    [] type.kind = "channel" -> <<"chan">> \o TypeName(type.element_type)
    [] type.kind = "slice" -> <<"[]">> \o TypeName(type.element_type)
    [] type.kind = "callable" -> <<"callable ->">> \o TypeName(type.function_type)
    [] type.kind = "closure" ->
         ClosureName(type) \o TypeName(type.function_type)
    [] type.kind = "function" ->
         <<"func(">> \o FlattenSeq([i \in DOMAIN type.arg_types |->
              (IF i = 1 THEN <<>> ELSE <<",">>) \o TypeName(type.arg_types[i])])
           \o <<")">> \o TypeName(type.return_type)
    [] OTHER -> <<type.kind>>

WrapCallable(type) == IF type.kind = "function" THEN CallableType(type) ELSE type

-----------------------------------------------------------------------------
(* Types in the source.  arg_types and in_function_type are members of the  *)
(* annotator, shared by the signatures inside a signature; scope has the    *)
(* parameters that were declared, and type the type of the last node.       *)
NewSignature ==
  [arg_types |-> <<>>, in_function_type |-> FALSE, scope |-> <<>>, type |-> Void, accepted |-> TRUE]

RECURSIVE VisitGoType(_, _)

VisitParameter(s, parameter) ==
  LET after == VisitGoType(parameter.type, s)
      type == WrapCallable(after.type)
      declares == ~ after.in_function_type /\ parameter.name # ""
  IN  [after EXCEPT !.type = type,
                    !.arg_types = Append(@, type),
                    !.scope = IF declares THEN @ @@ (parameter.name :> type) ELSE @]

(* Faulty variant: a function type stays a function type.                   *)
VisitResultUnwrapped(result, s) ==
  IF result = NoResult THEN [s EXCEPT !.type = Void] ELSE VisitGoType(result, s)

VisitResult(result, s) ==
  IF result = NoResult THEN [s EXCEPT !.type = Void]
  ELSE LET after == VisitGoType(result, s) IN [after EXCEPT !.type = WrapCallable(@)]

(* get_name dereferences the types of the arguments.                        *)
Register(s) ==
  [s EXCEPT !.type = FunctionType(s.arg_types, s.type),
            !.accepted = @ /\ \A i \in DOMAIN s.arg_types : s.arg_types[i] # Void]

VisitSignature(signature, s) ==
  Register(VisitResult(signature.result,
    Reduce(VisitParameter, [s EXCEPT !.arg_types = <<>>], signature.parameters)))

VisitGoType(type, s) ==
  CASE type \in {IntType, FloatType, BoolType, StringType} -> [s EXCEPT !.type = type]
    [] type.kind = "func" ->
         [VisitSignature(type, [s EXCEPT !.in_function_type = TRUE]) EXCEPT !.in_function_type = FALSE]
    [] type.kind = "chan" ->
         LET after == VisitGoType(type.element, s)
         IN  [after EXCEPT !.type = ChannelType(@)]
    [] type.kind \in {"slice", "pointer"} -> [s EXCEPT !.type = Void]
    [] OTHER -> [s EXCEPT !.accepted = FALSE]

(* The type of a variable or a parameter.                                   *)
DeclaredType(declaration) == VisitGoType(declaration.type, NewSignature)
SignatureOf(function) == VisitSignature(function.tag, NewSignature)

-----------------------------------------------------------------------------
(* Expressions: the type of a node from those of its operands, and whether  *)
(* its visit comes to an end.  An operand without entry, &x, ends it.       *)
UnaryType(op, operand) ==
  CASE operand = NoEntry -> NoEntry
    [] op = "<-" /\ operand.kind = "channel" -> operand.element_type
    [] op \in {"+", "-"} -> operand
    [] op = "!" -> BoolType
    [] op = "^" -> IntType
    [] op = "*" -> Void
    [] OTHER -> NoEntry

BinaryType(op, left) ==
  CASE op \in {"||", "&&", "==", "!=", "<", "<=", ">", ">="} -> BoolType
    [] op \in {"%", "<<", ">>"} -> IntType
    [] op \in {"|", "^", "&", "+", "-", "*", "/"} -> left

FunctionTypeOf(type) ==
  CASE type.kind \in {"closure", "callable"} -> type.function_type
    [] type.kind = "function" -> type
    [] OTHER -> Void

(* The annotator: the stack of scopes, and the annotated nodes and parts of *)
(* the node it is in.                                                       *)
NewAnnotator(functions) ==
  [functions |-> functions, accepted |-> TRUE, nodes |-> <<>>, parts |-> <<>>,
   scopes |-> << [make |-> FunctionType(<<IntType>>, ChannelType(Void)),
                  sprint |-> FunctionType(<<StringType>>, Void),
                  iprint |-> FunctionType(<<IntType>>, Void),
                  fprint |-> FunctionType(<<FloatType>>, Void)] >>]

Lookup(a, name) ==
  LET depth == SelectLastInSeq(a.scopes, LAMBDA scope : name \in DOMAIN scope)
  IN  IF depth = 0 THEN NoEntry ELSE a.scopes[depth][name]

(* try_emplace: the first declaration of a name in a function stays.        *)
Declare(a, scope) == [a EXCEPT !.scopes[Len(a.scopes)] = @ @@ scope]
Require(a, condition) == [a EXCEPT !.accepted = @ /\ condition]

TypeOf(n, a) ==
  CASE n.kind = "number" -> IntType
    [] n.kind = "float" -> FloatType
    [] n.kind = "string" -> StringType
    [] n.kind = "name" -> Lookup(a, n.tag)
    [] n.kind = "function" ->
         ClosureType(SignatureOf(n).type, Len(FrameOf(n, a.functions).captures))
    [] n.kind = "unary" -> IF n.tag = "&" THEN NoEntry ELSE UnaryType(n.tag, n.parts[1][1].type)
    [] n.kind = "binary" -> BinaryType(n.tag, n.parts[1][1].type)
    [] n.kind = "index" -> IF n.parts[1][1].type.kind = "slice"
                           THEN n.parts[1][1].type.element_type ELSE NoEntry
    [] n.kind = "call" -> IF FunctionTypeOf(n.parts[1][1].type) = Void THEN NoEntry
                          ELSE FunctionTypeOf(n.parts[1][1].type).return_type
    [] n.kind = "var" -> WrapCallable(DeclaredType(n.tag).type)
    [] OTHER -> NoEntry

Accepts(n, a) ==
  CASE n.kind = "name" -> Lookup(a, n.tag) # NoEntry
    [] n.kind = "unary" -> n.tag = "&" \/ TypeOf(n, a) # NoEntry
    [] n.kind = "binary" -> n.parts[1][1].type # NoEntry /\ n.parts[1][1].type = n.parts[2][1].type
    [] n.kind = "index" -> TypeOf(n, a) # NoEntry /\ n.parts[2][1].type = IntType
    [] n.kind \in {"call", "go"} -> FunctionTypeOf(n.parts[1][1].type) # Void
    [] OTHER -> TRUE

(* What a visit does before it visits the parts, and after.                 *)
OpenScope(a, signature) ==
  Require([a EXCEPT !.scopes = Append(@, signature.scope)], signature.accepted)

BeginNode(n, a) ==
  CASE n.kind = "function" -> OpenScope(a, SignatureOf(n))
    [] n.kind = "var" ->
         Require(Declare(Declare(a, DeclaredType(n.tag).scope),
                         n.tag.name :> WrapCallable(DeclaredType(n.tag).type)),
                 DeclaredType(n.tag).accepted)
    [] OTHER -> a

CloseScope(n, a) == IF n.kind = "function" THEN [a EXCEPT !.scopes = Front(@)] ELSE a

AddNode(n, before, after) ==
  Require([after EXCEPT !.nodes = Append(before.nodes, [n EXCEPT !.type = TypeOf(n, after)])],
          Accepts(n, after))

RECURSIVE Annotate(_, _)
AnnotateAll(nodes, a) ==
  Reduce(LAMBDA b, n : Annotate(n, b), [a EXCEPT !.nodes = <<>>], nodes)

AddPart(part, before) ==
  LET after == AnnotateAll(part, before)
  IN  [after EXCEPT !.parts = Append(before.parts, after.nodes)]

AnnotateParts(parts, a) == Reduce(LAMBDA b, part : AddPart(part, b), [a EXCEPT !.parts = <<>>], parts)

EndNode(n, before, after) == AddNode([n EXCEPT !.parts = after.parts], before, CloseScope(n, after))

(* The operand of & is not visited.                                         *)
Annotate(n, a) ==
  IF n.kind = "unary" /\ n.tag = "&" THEN [a EXCEPT !.nodes = Append(@, n)]
  ELSE EndNode(n, a, AnnotateParts(n.parts, BeginNode(n, a)))

(* visitFunctionDecl: a function is known from its own body on.             *)
AnnotateDeclaration(a, n) == Annotate(n, Declare(a, n.tag.id :> SignatureOf(n).type))

AnnotateSourceFile(declarations) ==
  Reduce(AnnotateDeclaration, NewAnnotator(Declared(declarations)), declarations)
=============================================================================
