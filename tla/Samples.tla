------------------------------- MODULE Samples -------------------------------
(***************************************************************************)
(* Shorthands for syntax trees, and a family of sequential programs.  All  *)
(* have the same functions, and behind them, as a function is known from   *)
(* its own body on, a main that works on a variable x with fragments, one  *)
(* after the other.                                                        *)
(***************************************************************************)
EXTENDS TypeAnnotator

LOCAL INSTANCE SequencesExt

Ints(names) == [i \in DOMAIN names |-> Parameter(names[i], IntType)]
Takes(types) == [i \in DOMAIN types |-> Parameter("", types[i])]
Procedure(name, parameters, body) == Func(name, parameters, NoResult, body)
IntFunction(name, names, body) == Func(name, Ints(names), IntType, body)
MainFunction(body) == Procedure("main", <<>>, body)

IntVar(name, e) == Var(name, IntType, e)
ChanVar(name, capacity) ==
  Var(name, ChanOf(IntType), Call(Name("make"), <<Number(capacity)>>))
Apply(f, arguments) == Call(Name(f), arguments)
Recv(name) == Prefix("<-", Name(name))
Print1(e) == Do(Apply("iprint", <<e>>))
Say(string_index) == Do(Apply("sprint", <<Text(string_index)>>))
Plus(left, right) == Infix(left, "+", right)
Increment(name) == Let(name, Plus(Name(name), Number(1)))

-----------------------------------------------------------------------------
IntFunc(arity) == FuncType([i \in 1 .. arity |-> Parameter("", IntType)], IntType)
IntLiteral(id, names, body) == IntFunction(id, names, body)
X == Name("x")
SetX(e) == Let("x", e)
AddToX(n) == SetX(Plus(X, Number(n)))

(* func sub(a int, b int) int: both parameters are captured.                *)
(* func counter(n int) func() int: the parameter outlives the call.         *)
(* func fact(i int) int, func twice(f func(int) int, x int) int             *)
Helpers == <<
  IntFunction("sub", <<"a", "b">>, <<
    Var("h", IntFunc(0), IntLiteral("sub literal", <<>>, <<Return(Infix(Name("b"), "-", Name("a")))>>)),
    Return(Prefix("-", Apply("h", <<>>)))>>),
  Func("counter", Ints(<<"n">>), IntFunc(0), <<
    Return(IntLiteral("counter literal", <<>>, <<Increment("n"), Return(Name("n"))>>))>>),
  IntFunction("fact", <<"i">>, <<
    If(Infix(Name("i"), "<=", Number(1)), <<Return(Number(1))>>),
    Return(Infix(Apply("fact", <<Infix(Name("i"), "-", Number(1))>>), "*", Name("i")))>>),
  Func("twice", <<Parameter("f", IntFunc(1)), Parameter("x", IntType)>>, IntType, <<
    Return(Apply("f", <<Apply("f", <<X>>)>>))>>)>>

Fragments == <<
  (* x = -(x - 4)                                                           *)
  <<SetX(Prefix("-", Infix(X, "-", Number(4))))>>,
  (* a local beside x, and a block                                          *)
  <<IntVar("y", Plus(X, Number(1))), Block(<<SetX(Infix(Name("y"), "*", X))>>), Print1(Name("y"))>>,
  (* a literal that changes x                                               *)
  <<Var("bump", IntFunc(0), IntLiteral("bump literal", <<>>, <<AddToX(1), Return(X)>>)),
    Print1(Apply("sub", <<Apply("bump", <<>>), Infix(Apply("bump", <<>>), "*", X)>>))>>,
  (* a literal in a literal, which captures from two functions out          *)
  <<Var("outer", IntFunc(1), IntLiteral("outer literal", <<"k">>, <<
      Var("inner", IntFunc(1), IntLiteral("inner literal", <<"j">>,
        <<SetX(Plus(Infix(X, "*", Name("k")), Name("j"))), Return(X)>>)),
      Return(Apply("inner", <<Number(5)>>))>>)),
    Do(Apply("outer", <<Number(3)>>))>>,
  (* two counters with cells of their own                                   *)
  <<Var("c", IntFunc(0), Apply("counter", <<X>>)), Var("d", IntFunc(0), Apply("counter", <<Number(40)>>)),
    Do(Apply("c", <<>>)), Do(Apply("d", <<>>)),
    Print1(Infix(Apply("c", <<>>), "-", Apply("d", <<>>)))>>,
  (* a cell for each round of a loop                                        *)
  <<IntVar("i", Number(0)),
    Var("g", IntFunc(0), IntLiteral("first literal", <<>>, <<Return(Number(0))>>)),
    For(Infix(Name("i"), "<", Number(2)), <<
      IntVar("k", Name("i")),
      If(Infix(Name("i"), "==", Number(0)),
         <<Let("g", IntLiteral("round literal", <<>>, <<Increment("k"), Return(Name("k"))>>))>>),
      Increment("i")>>),
    AddToX(1), Print1(Apply("g", <<>>))>>,
  (* recursion                                                              *)
  <<SetX(Infix(X, "-", Apply("fact", <<Number(3)>>)))>>,
  (* a named function and a literal as arguments                            *)
  <<Print1(Apply("twice", <<Name("fact"), Number(3)>>)),
    SetX(Apply("twice", <<IntLiteral("step literal", <<"v">>, <<Return(Plus(Name("v"), X))>>), X>>))>>,
  (* operands that must not be evaluated, and two ways through an if        *)
  <<Var("seen", IntFunc(1), IntLiteral("seen literal", <<"v">>, <<Print1(Name("v")), Return(Name("v"))>>)),
    IfElse(Infix(Infix(X, ">", Number(2)), "||", Infix(Apply("seen", <<Number(8)>>), "==", X)),
           <<AddToX(1)>>,
           <<If(Infix(Infix(X, "!=", Number(0)), "&&", Infix(Apply("seen", <<X>>), "<", Number(2))),
                <<AddToX(2)>>)>>),
    Do(Apply("seen", <<X>>))>>,
  (* a channel that main and a literal share                                *)
  <<ChanVar("q", 3), Put("q", X), Put("q", Number(30)),
    Var("put", IntFunc(1), IntLiteral("put literal", <<"v">>, <<Put("q", Name("v")), Return(Recv("q"))>>)),
    SetX(Plus(Apply("put", <<Number(500)>>), Infix(Recv("q"), "-", Recv("q"))))>>,
  (* the operators on bits, and the remainder of a negative number          *)
  <<IntVar("m", Infix(Infix(X, "*", X), "&", Number(61))),
    Print1(Infix(Infix(Number(3), "-", Infix(Name("m"), "<<", Number(2))), "%", Number(7))),
    SetX(Infix(Infix(Infix(Name("m"), "|", Number(18)), "^", Number(10)), ">>", Number(1))),
    Print1(Prefix("^", Infix(X, "/", Number(3))))>>,
  (* floating point, and truth values that are compared                     *)
  <<Var("z", FloatType, Infix(Infix(Decimal(3), "*", Decimal(4)), "-", Decimal(5))),
    Var("b", BoolType, Infix(Name("z"), ">", Decimal(2))),
    IfElse(Infix(Name("b"), "==", Infix(X, "<", Number(9))),
           <<Do(Apply("fprint", <<Prefix("-", Name("z"))>>))>>,
           <<Do(Apply("fprint", <<Infix(Name("z"), "+", Name("z"))>>)), SetX(Number(2))>>)>>>>

Sequential(fragments) ==
  Append(Helpers,
    MainFunction(<<IntVar("x", Number(1))>> \o FlattenSeq(fragments) \o <<Print1(X)>>))
=============================================================================
