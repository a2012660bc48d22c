------------------------------ MODULE Evaluator ------------------------------
(***************************************************************************)
(* What a sequential program means, read off its tree with the rules of Go *)
(* and nothing of the compiler: a variable is a cell of its own from its   *)
(* declaration to the end of its block, function literals share the cells  *)
(* they mention, arguments are copied, operands and arguments are          *)
(* evaluated from left to right.  Truth values are 1 and 0, and a channel  *)
(* is a cell with its items, which this one program sends and receives.    *)
(***************************************************************************)
EXTENDS SyntaxTree, Integers

LOCAL INSTANCE SequencesExt
LOCAL INSTANCE TLC

CONSTANT IntBits  \* the width of an int, which wraps around

Wrap(v) == ((v + 2^(IntBits - 1)) % 2^IntBits) - 2^(IntBits - 1)

(* todo has the nodes to evaluate next, and the nodes that wait until their *)
(* operands are evaluated, with the scope they are in; values has the       *)
(* operands, the last on the right; scope has the cell of every variable.   *)
Start == [todo |-> <<Call(Name("main"), <<>>)>>,
          values |-> <<>>, scope |-> <<>>, store |-> <<>>, output |-> <<>>]

Plan(s, nodes) == [s EXCEPT !.todo = nodes \o Tail(@)]
Drop(s, count) == [s EXCEPT !.values = SubSeq(@, 1, Len(@) - count)]
Result(s, value) == [Plan(s, <<>>) EXCEPT !.values = Append(@, value)]
Bind(s, name, value) ==
  [s EXCEPT !.store = Append(@, value), !.scope = (name :> Len(s.store) + 1) @@ @]

(* Functions: the value of a literal remembers its scope, the node that     *)
(* waits for the end of the body that of the caller.                        *)
Closure(function, scope) == [function |-> function, scope |-> scope]
Waiting(n, scope) == [kind |-> "waiting", node |-> n, scope |-> scope]

EnterFunction(s, closure, arguments) ==
  Reduce(LAMBDA t, i : Bind(t, closure.function.tag.parameters[i].name, arguments[i]),
    [Plan(s, closure.function.parts[1] \o <<Waiting(closure.function, s.scope)>>)
       EXCEPT !.scope = closure.scope],
    [i \in DOMAIN arguments |-> i])

LeaveFunction(s, value) ==
  LET call == SelectInSeq(s.todo, LAMBDA n : n.kind = "waiting" /\ n.node.kind = "function")
  IN  [s EXCEPT !.todo = SubSeq(@, call + 1, Len(@)), !.scope = s.todo[call].scope,
                !.values = Append(@, value)]

Holds(b) == IF b THEN 1 ELSE 0

(* The bits two natural numbers have in common.                             *)
RECURSIVE Common(_, _)
Common(x, y) ==
  IF x = 0 \/ y = 0 THEN 0 ELSE 2 * Common(x \div 2, y \div 2) + (x % 2) * (y % 2)

UnaryMeaning(op, x) ==
  CASE op = "+" -> x
    [] op = "^" -> - x - 1
    [] op = "-" -> Wrap(- x)
    [] op = "!" -> 1 - x

(* Divisors are positive, shifts small, bits are those of naturals.         *)
BinaryMeaning(x, op, y) ==
  CASE op = "+" -> Wrap(x + y)
    [] op = "-" -> Wrap(x - y)
    [] op = "*" -> Wrap(x * y)
    [] op = "/" -> IF x >= 0 THEN x \div y ELSE - ((- x) \div y)
    [] op = "%" -> IF x >= 0 THEN x % y ELSE - ((- x) % y)
    [] op = "<<" -> x * 2^y
    [] op = ">>" -> x \div 2^y
    [] op = "&" -> Common(x, y)
    [] op = "|" -> x + y - Common(x, y)
    [] op = "^" -> x + y - 2 * Common(x, y)
    [] op = "==" -> Holds(x = y)
    [] op = "!=" -> Holds(x # y)
    [] op = "<" -> Holds(x < y)
    [] op = "<=" -> Holds(x <= y)
    [] op = ">" -> Holds(x > y)
    [] op = ">=" -> Holds(x >= y)

Decides(op, value) == (op = "||") = (value = 1)

(* What a node evaluates first; a variable without a value starts at zero.  *)
OrElse(part, value) == IF part = <<>> THEN <<Number(value)>> ELSE part
Calls(n, names) == n.kind = "call" /\ n.parts[1][1].kind = "name" /\ n.parts[1][1].tag \in names
Shows(n) == Calls(n, {"iprint", "sprint", "fprint"})
Makes(n) == Calls(n, {"make"})
Conditional(n) == n.kind \in {"if", "for"} \/ (n.kind = "binary" /\ n.tag \in {"||", "&&"})

First(n) ==
  CASE n.kind = "call" -> IF Shows(n) \/ Makes(n) THEN n.parts[2] ELSE n.parts[2] \o n.parts[1]
    [] Conditional(n) -> OrElse(n.parts[1], 1)
    [] n.kind \in {"var", "return"} -> OrElse(n.parts[1], 0)
    [] OTHER -> Children(n)

(* What it does next, with the last value, or the last two.                 *)
Chosen(n, value) ==
  CASE n.kind = "binary" -> IF Decides(n.tag, value) THEN <<Number(value)>> ELSE n.parts[2]
    [] n.kind = "for" -> IF value = 1 THEN <<Block(n.parts[2]), n>> ELSE <<>>
    [] n.kind = "if" /\ value = 1 -> <<Block(n.parts[2])>>
    [] n.kind = "if" /\ value = 0 -> IF Len(n.parts) = 3 THEN <<Block(n.parts[3])>> ELSE <<>>

Complete(s, n, scope) ==
  LET count == Len(s.values)
      last == Last(s.values)
      argc == Len(n.parts[2])
      arguments == [i \in 1 .. argc |-> s.values[count - 1 - argc + i]]
  IN  CASE Conditional(n) -> Plan(Drop(s, 1), Chosen(n, last))
        [] n.kind = "unary" /\ n.tag = "<-" ->
             [Result(Drop(s, 1), Head(s.store[last])) EXCEPT !.store[last] = Tail(@)]
        [] n.kind = "unary" /\ n.tag # "<-" -> Result(Drop(s, 1), UnaryMeaning(n.tag, last))
        [] n.kind = "binary" /\ ~ Conditional(n) ->
             Result(Drop(s, 2), BinaryMeaning(s.values[count - 1], n.tag, last))
        [] Shows(n) -> [Result(Drop(s, 1), 0) EXCEPT !.output = Append(@, last)]
        [] Makes(n) -> [Result(Drop(s, 1), Len(s.store) + 1) EXCEPT !.store = Append(@, <<>>)]
        [] n.kind = "call" /\ ~ Shows(n) /\ ~ Makes(n) ->
             EnterFunction(Drop(s, argc + 1), last, arguments)
        [] n.kind = "function" -> LeaveFunction(s, 0)
        [] n.kind = "return" -> LeaveFunction(Drop(s, 1), last)
        [] n.kind = "var" -> Bind(Plan(Drop(s, 1), <<>>), n.tag.name, last)
        [] n.kind = "assign" -> [Plan(Drop(s, 1), <<>>) EXCEPT !.store[scope[n.tag]] = last]
        [] n.kind = "send" ->
             [Plan(Drop(s, 1), <<>>) EXCEPT !.store[s.store[scope[n.tag]]] = Append(@, last)]
        [] n.kind = "expression" -> Plan(Drop(s, 1), <<>>)
        [] n.kind = "block" -> [Plan(s, <<>>) EXCEPT !.scope = scope]

ValueOf(n, s, functions) ==
  CASE n.kind = "function" -> Closure(n, s.scope)
    [] n.kind = "name" -> IF n.tag \in DOMAIN s.scope THEN s.store[s.scope[n.tag]]
                          ELSE Closure(functions[n.tag], <<>>)
    [] OTHER -> n.tag

Evaluate(s, n, functions) ==
  CASE n.kind = "waiting" -> Complete(s, n.node, n.scope)
    [] n.kind \in {"number", "float", "string", "name", "function"} -> Result(s, ValueOf(n, s, functions))
    [] OTHER -> Plan(s, First(n) \o <<Waiting(n, s.scope)>>)

(* What the program prints, if it ends within rounds of 30 steps.           *)
Meaning(declarations, rounds) ==
  LET functions == [id \in {declarations[i].tag.id : i \in DOMAIN declarations} |->
                      SelectSeq(declarations, LAMBDA f : f.tag.id = id)[1]]
      Step(s, i) == IF s.todo = <<>> THEN s ELSE Evaluate(s, Head(s.todo), functions)
      Round(s, i) == Reduce(Step, s, [j \in 1 .. 30 |-> j])
      final == Reduce(Round, Start, [i \in 1 .. rounds |-> i])
  IN  [how |-> IF final.todo = <<>> THEN "finished" ELSE "running", output |-> final.output]
=============================================================================
