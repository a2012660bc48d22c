------------------------------ MODULE SyntaxTree ------------------------------
(***************************************************************************)
(* The parse trees of src/GOatLANG.g4 that the passes of the compiler      *)
(* visit.  A node has a kind, a tag (its operator, literal or identifier)  *)
(* and parts, its children in blocks and in the order of the source.       *)
(* type is the entry of the node in node_types, NoEntry if there is none.  *)
(***************************************************************************)
EXTENDS Naturals, Sequences

LOCAL INSTANCE SequencesExt

NoEntry == [kind |-> "no entry"]

Node(kind, tag, parts) == [kind |-> kind, tag |-> tag, parts |-> parts, type |-> NoEntry]
Children(n) == FlattenSeq(n.parts)

-----------------------------------------------------------------------------
(* goType.  NoResult stands for a result that is not there.                 *)
Type(name) == [kind |-> name]
ChanOf(element) == [kind |-> "chan", element |-> element]
SliceOf(element) == [kind |-> "slice", element |-> element]
PointerTo(element) == [kind |-> "pointer", element |-> element]
FuncType(parameters, result) == [kind |-> "func", parameters |-> parameters, result |-> result]
NoResult == [kind |-> "no result"]

(* parameterDecl.  The empty name is a parameter without identifier.        *)
Parameter(name, type) == [name |-> name, type |-> type]

-----------------------------------------------------------------------------
(* expression and primaryExpr.                                              *)
Number(value) == Node("number", value, <<>>)
Decimal(text) == Node("float", text, <<>>)
Text(string_index) == Node("string", string_index, <<>>)
Name(name) == Node("name", name, <<>>)
Prefix(op, e) == Node("unary", op, << <<e>> >>)
Infix(left, op, right) == Node("binary", op, << <<left>>, <<right>> >>)
Subscript(e, index) == Node("index", "", << <<e>>, <<index>> >>)
Call(callee, arguments) == Node("call", "", << <<callee>>, arguments >>)

(* A function declaration or literal; id tells the functions apart, and is  *)
(* the name of a declared one.                                              *)
Func(id, parameters, result, body) ==
  Node("function", [id |-> id, parameters |-> parameters, result |-> result], <<body>>)

-----------------------------------------------------------------------------
(* statement.                                                               *)
Var(name, type, e) == Node("var", [name |-> name, type |-> type], << <<e>> >>)
VarNoInit(name, type) == Node("var", [name |-> name, type |-> type], << <<>> >>)
Do(e) == Node("expression", "", << <<e>> >>)
Defer(e) == Node("defer", "", << <<e>> >>)
Put(channel, e) == Node("send", channel, << <<e>> >>)
Let(name, e) == Node("assign", name, << <<e>> >>)
Return(e) == Node("return", "", << <<e>> >>)
BareReturn == Node("return", "", << <<>> >>)
Block(statements) == Node("block", "", <<statements>>)
If(e, block) == Node("if", "", << <<e>>, block >>)
IfElse(e, block, other) == Node("if", "", << <<e>>, block, other >>)
For(e, block) == Node("for", "", << <<e>>, block >>)
Forever(block) == Node("for", "", << <<>>, block >>)
Goto(label) == Node("goto", label, <<>>)
Label(label) == Node("label", label, <<>>)
Go(callee, arguments) == Node("go", "", << <<callee>>, arguments >>)

-----------------------------------------------------------------------------
(* A loop over a sequence.  FoldLeft of the community modules says the same,  *)
(* but enumerates the subsets of the positions.  The set has one element;   *)
(* TLC evaluates what a bound variable stands for before the body.          *)
Reduce(step(_, _), base, items) ==
  LET after[i \in Nat] ==
        IF i = 0 THEN base
        ELSE CHOOSE result \in {step(before, items[i]) : before \in {after[i - 1]}} : TRUE
  IN  after[Len(items)]
=============================================================================
