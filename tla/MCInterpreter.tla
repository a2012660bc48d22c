--------------------------- MODULE MCInterpreter ---------------------------
(***************************************************************************)
(* Programs for the interpreter, given as syntax trees and compiled by     *)
(* Compiler.tla.  Most are those of examples/ with smaller constants.      *)
(***************************************************************************)
EXTENDS Planner, Samples

LOCAL INSTANCE TLC

(* The declarations of a program, how it ends, and what it may have printed.*)
Program(how, outputs, declarations) ==
  [source |-> declarations, outcomes |-> {[how |-> how, output |-> out] : out \in outputs}]

Compiled(sources) == {CompileWithPlan(p.source) @@ [outcomes |-> p.outcomes] : p \in sources}

-----------------------------------------------------------------------------
(* Goroutines. *)

(* more_send_than_buffer_size.goat *)
Pipeline == Program("finished", {<<111>>}, <<
  Func("foo", <<Parameter("c", ChanOf(IntType))>>, IntType,
    <<Put("c", Number(1)), Put("c", Number(10)), Put("c", Number(100)), Return(Number(0))>>),
  MainFunction(<<
    ChanVar("c", 2), Go(Name("foo"), <<Name("c")>>),
    IntVar("x", Plus(Plus(Recv("c"), Recv("c")), Recv("c"))),
    Print1(Name("x"))>>)>>)

(* interleaving.goat, two goroutines: the numbers of each are in order.     *)
Interleaving == Program("finished", {<<0, 1, 10>>, <<0, 10, 1>>, <<10, 0, 1>>}, <<
  Procedure("count", Ints(<<"start", "end">>) \o <<Parameter("done", ChanOf(IntType))>>, <<
    IntVar("i", Name("start")),
    For(Infix(Name("i"), "<=", Name("end")), <<Print1(Name("i")), Increment("i")>>),
    Put("done", Number(1))>>),
  MainFunction(<<
    ChanVar("done", 1),
    Go(Name("count"), <<Number(0), Number(1), Name("done")>>),
    Go(Name("count"), <<Number(10), Number(10), Name("done")>>),
    Do(Recv("done")), Do(Recv("done"))>>)>>)

(* Two goroutines add one to a captured variable; a channel of capacity one *)
(* is their lock, or nothing is.                                            *)
Counter(enter, leave, results) == Program("finished", {<<n>> : n \in results}, <<
  MainFunction(<<
    ChanVar("lock", 1), IntVar("n", Number(0)), ChanVar("done", 2),
    Var("inc", FuncType(<<>>, NoResult),
        Procedure("inc literal", <<>>,
                  enter \o <<Increment("n")>> \o leave \o <<Put("done", Number(1))>>)),
    Go(Name("inc"), <<>>), Go(Name("inc"), <<>>),
    Do(Recv("done")), Do(Recv("done")),
    Print1(Name("n"))>>)>>)

LockedCounter == Counter(<<Put("lock", Number(1))>>, <<Do(Recv("lock"))>>, {2})
RacyCounter == Counter(<<>>, <<>>, {1, 2})

(* make(chan int, 0): there is no rendezvous, the first send never returns. *)
Unbuffered == Program("blocked", {<<>>}, <<
  Procedure("foo", <<Parameter("c", ChanOf(IntType))>>, <<Put("c", Number(1))>>),
  MainFunction(<<ChanVar("c", 0), Go(Name("foo"), <<Name("c")>>), Print1(Recv("c"))>>)>>)

(* func f(int) {}: a parameter without a name is popped by the function,    *)
(* but new_thread does not count it, and leaves its argument behind.        *)
UnnamedParameter == Program("operand stack underflow!", {<<>>}, <<
  Procedure("f", Takes(<<IntType>>), <<>>),
  MainFunction(<<Go(Name("f"), <<Number(3)>>)>>)>>)

GoroutinePrograms == Compiled(
  {Pipeline, Interleaving, LockedCounter, RacyCounter, Unbuffered, UnnamedParameter})

-----------------------------------------------------------------------------
(* Functions, closures and limits. *)

(* lambda.goat with appN(2) *)
Successor == FuncType(Takes(<<IntType>>), IntType)
Applier == FuncType(Takes(<<Successor, IntType>>), IntType)
Lambda == Program("finished", {<<2>>}, <<
  Func("appN", Ints(<<"n">>), Applier, <<
    Return(Func("loop literal", <<Parameter("f", Successor), Parameter("x", IntType)>>, IntType, <<
      IntVar("i", Number(0)),
      For(Infix(Name("i"), "<", Name("n")),
          <<Let("x", Apply("f", <<Name("x")>>)), Increment("i")>>),
      Return(Name("x"))>>))>>),
  IntFunction("succ", <<"x">>, <<Return(Plus(Name("x"), Number(1)))>>),
  MainFunction(<<
    Var("app", Applier, Apply("appN", <<Number(2)>>)),
    IntVar("v", Apply("app", <<Name("succ"), Number(0)>>)),
    Print1(Name("v"))>>)>>)

(* pair.goat *)
Selector == FuncType(Takes(<<IntType, IntType>>), IntType)
Selecting == FuncType(Takes(<<Selector>>), IntType)
Pair == Program("finished", {<<5, 6>>}, <<
  Func("pair", Ints(<<"x", "y">>), Selecting, <<
    Return(Func("pair literal", <<Parameter("selector", Selector)>>, IntType,
                <<Return(Apply("selector", <<Name("x"), Name("y")>>))>>))>>),
  IntFunction("fst", <<"x", "y">>, <<Return(Name("x"))>>),
  IntFunction("snd", <<"x", "y">>, <<Return(Name("y"))>>),
  MainFunction(<<
    Var("p", Selecting, Apply("pair", <<Number(5), Number(6)>>)),
    Print1(Apply("p", <<Name("fst")>>)), Print1(Apply("p", <<Name("snd")>>))>>)>>)

(* nested_level_variable_capture.goat *)
NestedCapture == Program("finished", {<<9>>}, <<
  MainFunction(<<
    IntVar("a", Prefix("-", Number(1))),
    Var("foo", FuncType(<<>>, IntType), IntFunction("outer literal", <<>>, <<
      IntVar("b", Number(10)),
      Return(Call(IntFunction("inner literal", <<>>, <<Return(Plus(Name("a"), Name("b")))>>), <<>>))>>)),
    Print1(Apply("foo", <<>>))>>)>>)

(* factorial.goat with fact(3) *)
Factorial == Program("finished", {<<6>>}, <<
  IntFunction("fact", <<"i">>, <<
    IfElse(Infix(Name("i"), "<=", Number(1)), <<Return(Number(1))>>,
      <<Return(Infix(Name("i"), "*", Apply("fact", <<Infix(Name("i"), "-", Number(1))>>)))>>)>>),
  MainFunction(<<IntVar("y", Apply("fact", <<Number(3)>>)), Print1(Name("y"))>>)>>)

(* short-circuit.goat: the receive is never reached.                        *)
ShortCircuit == Program("finished", {<<7>>}, <<
  MainFunction(<<
    Var("danger", ChanOf(BoolType), Apply("make", <<Number(1)>>)),
    Var("shouldNotBlock", BoolType,
        Infix(Infix(Number(1), "==", Number(1)), "||", Recv("danger"))),
    If(Infix(Name("shouldNotBlock"), "&&", Prefix("!", Infix(Number(1), "<", Number(0)))),
       <<Say(7)>>)>>)>>)

(* goto-as-break.goat with limit 2 *)
GotoAsBreak == Program("finished", {<<1>>}, <<
  MainFunction(<<
    IntVar("limit", Number(2)), IntVar("i", Number(0)),
    Forever(<<Increment("i"),
              If(Infix(Name("i"), "==", Name("limit")), <<Goto("end_for")>>),
              Print1(Name("i"))>>),
    Label("end_for")>>)>>)

(* func f(x int) int { if x > 0 { return 1 } }: no ret is emitted for the   *)
(* other path, and f(0) silently ends the whole thread before iprint(7).    *)
MissingReturn == Program("finished", {<<>>}, <<
  IntFunction("f", <<"x">>, <<If(Infix(Name("x"), ">", Number(0)), <<Return(Number(1))>>)>>),
  MainFunction(<<Do(Apply("f", <<Number(0)>>)), Print1(Number(7))>>)>>)

(* -7 / 2, then 1 / 0 *)
Division == Program("undefined", {<<-3>>}, <<
  MainFunction(<<Print1(Infix(Prefix("-", Number(7)), "/", Number(2))),
                 Print1(Infix(Number(1), "/", Number(0)))>>)>>)

(* The least integer has no negative; divided by -1, it traps.  With counts *)
(* of WordBits and above, shifts start again.                               *)
Limits == Program("undefined", {<<Least, Least, 3, 6>>}, <<
  MainFunction(<<
    IntVar("x", Infix(Number(1), "<<", Number(WordBits - 1))), Print1(Name("x")),
    Print1(Prefix("-", Name("x"))),
    Print1(Infix(Number(3), "<<", Number(WordBits))),
    Print1(Infix(Number(3), "<<", Number(WordBits + 1))),
    Print1(Infix(Name("x"), "/", Prefix("-", Number(1))))>>)>>)

(* Equal strings are different objects, and only these are compared.        *)
EqualStrings == Program("finished", {<<0>>}, <<
  MainFunction(<<
    Var("s", StringType, Text(4)), Var("b", BoolType, Infix(Name("s"), "==", Text(4))),
    Print1(Name("b"))>>)>>)

Recursion(how, result) == Program(how, {<<>>}, <<
  IntFunction("f", <<"n">>, <<Return(result)>>),
  MainFunction(<<Do(Apply("f", <<Number(1)>>))>>)>>)

(* return f(n): nothing tests the call stack.  return n + f(n): the operand *)
(* stack overflows first, and it is tested.                                 *)
TailCalls == Recursion("undefined", Apply("f", <<Name("n")>>))
PendingAdditions ==
  Recursion("operand stack overflow!", Plus(Name("n"), Apply("f", <<Name("n")>>)))

(* for { sprint("x") }: every evaluation of a literal allocates.            *)
Exhausting == Program("out of memory!", {[i \in 1 .. HeapSize \div 4 |-> 0]},
  <<MainFunction(<<Forever(<<Say(0)>>)>>)>>)

(* make(chan int, -1): the size is unsigned, and the first send has room.   *)
EndlessChannel == Program("finished", {<<8>>}, <<
  MainFunction(<<
    Var("c", ChanOf(IntType), Apply("make", <<Prefix("-", Number(1))>>)),
    Put("c", Number(8)), Print1(Recv("c"))>>)>>)

(* make(chan int), without a size *)
SizelessChannel == Program("operand stack underflow!", {<<>>},
  <<MainFunction(<<Var("c", ChanOf(IntType), Apply("make", <<>>))>>)>>)

-----------------------------------------------------------------------------
(* Programs that the compiler accepts and that do not do what Go says: each *)
(* one shows a rule the programs of MCSources keep to.                      *)

Seven == IntFunction("seven", <<>>, <<IntVar("a", Number(7)), Return(Name("a"))>>)

(* var b int: a slot keeps what the last call left in it, 7 instead of 0.   *)
Uninitialised == Program("finished", {<<7, 7>>}, <<
  Seven,
  IntFunction("zero", <<>>, <<VarNoInit("b", IntType), Return(Name("b"))>>),
  MainFunction(<<Print1(Apply("seven", <<>>)), Print1(Apply("zero", <<>>))>>)>>)

(* var x twice: the slot of x is the first word of the next frame, so that  *)
(* a call puts the index of the called function into x.                     *)
DeclaredTwice == Program("finished", {<<5, 0>>}, <<
  Seven,
  MainFunction(<<IntVar("x", Number(4)), IntVar("x", Number(5)), Print1(Name("x")),
                 Do(Apply("seven", <<>>)), Print1(Name("x"))>>)>>)

(* var f = func(n) { ... f(n - 1) }: the literal is built before the cell   *)
(* of f is stored, captures address 0 instead, and calls function 0, which  *)
(* leaves the argument for the multiplication to take.                      *)
CapturesItself == Program("finished", {<<0>>}, <<
  Seven,
  MainFunction(<<
    Var("f", Successor, IntFunction("f literal", <<"n">>, <<
      If(Infix(Name("n"), "==", Number(0)), <<Return(Number(1))>>),
      Return(Infix(Name("n"), "*", Apply("f", <<Infix(Name("n"), "-", Number(1))>>)))>>)),
    Print1(Apply("f", <<Number(1)>>))>>)>>)

(* defer iprint(1): evaluated where it is written.                          *)
Deferred == Program("finished", {<<1, 2>>},
  <<MainFunction(<<Defer(Apply("iprint", <<Number(1)>>)), Print1(Number(2))>>)>>)

(* for { defer seven() }: nobody takes the results.                         *)
DeferredResults == Program("operand stack overflow!", {<<>>},
  <<Seven, MainFunction(<<Forever(<<Defer(Apply("seven", <<>>))>>)>>)>>)

(* A local function with the name of a function: the name calls the other.  *)
Shadowing == Program("finished", {<<7>>}, <<
  Seven,
  MainFunction(<<
    Var("seven", FuncType(<<>>, IntType), IntFunction("local literal", <<>>, <<Return(Number(8))>>)),
    Print1(Apply("seven", <<>>))>>)>>)

(* var a func(n int) int, var b func(n int) int: the analyzer takes n for a *)
(* parameter of main, twice, and b gets the slot behind the frame.  Calling *)
(* a puts 0 into b, the index of succ: b is succ from then on, not twice.   *)
TakesN == FuncType(<<Parameter("n", IntType)>>, IntType)
ParameterNames == Program("finished", {<<4, 4>>}, <<
  IntFunction("succ", <<"x">>, <<Return(Plus(Name("x"), Number(1)))>>),
  IntFunction("twice", <<"x">>, <<Return(Plus(Name("x"), Name("x")))>>),
  MainFunction(<<
    Var("a", TakesN, Name("succ")), Var("b", TakesN, Name("twice")),
    Print1(Apply("a", <<Number(3)>>)), Print1(Apply("b", <<Number(3)>>))>>)>>)

(* A local function new: the name calls new_slice.  The addresses of the    *)
(* slices are printed, in words.                                            *)
LocalNew == Var("new", Successor, IntFunction("local literal", <<"n">>, <<Return(Name("n"))>>))
NewSliceOf(length) == Print1(Apply("new", <<length>>))

(* A length of -1 makes a block of two words, smaller than its header.      *)
NativeName == Program("finished", {<<7, 9>>}, <<
  MainFunction(<<LocalNew, NewSliceOf(Prefix("-", Number(1))), NewSliceOf(Number(2))>>)>>)

(* A length of 2^61 is 2^64 bytes: the block is a header.                   *)
HugeSlice == Program("finished", {<<7, 10>>}, <<
  MainFunction(<<LocalNew, NewSliceOf(Infix(Number(1), "<<", Number(WordBits - 3))),
                 NewSliceOf(Number(0))>>)>>)

(* A length of -11 moves top back, from 13 to 5: the header of the next     *)
(* slice takes the words 5 to 7, where x is, and x becomes its count.       *)
RewoundHeap == Program("finished", {<<16, 8, 1>>}, <<
  MainFunction(<<
    LocalNew, IntVar("x", Number(4)),
    Var("get", FuncType(<<>>, IntType), IntFunction("get literal", <<>>, <<Return(Name("x"))>>)),
    NewSliceOf(Prefix("-", Number(11))), NewSliceOf(Number(1)),
    Print1(Name("x"))>>)>>)

(* The number of arguments is not compared with that of the parameters.     *)
MissingArgument == Program("operand stack underflow!", {<<>>}, <<
  IntFunction("f", <<"x">>, <<Return(Name("x"))>>), MainFunction(<<Do(Apply("f", <<>>))>>)>>)

(* var p int = &x: no code is emitted for the operator and its operand.     *)
AddressOf == Program("operand stack underflow!", {<<>>},
  <<MainFunction(<<IntVar("x", Number(1)), IntVar("p", Prefix("&", Name("x")))>>)>>)

FunctionPrograms == Compiled(
  {Lambda, Pair, NestedCapture, Factorial, ShortCircuit, GotoAsBreak, MissingReturn, Division, Limits, EqualStrings,
   TailCalls, PendingAdditions, Exhausting, EndlessChannel, SizelessChannel, Uninitialised, DeclaredTwice,
   CapturesItself, Deferred, DeferredResults, Shadowing, ParameterNames, NativeName, HugeSlice, RewoundHeap,
   MissingArgument, AddressOf})
=============================================================================
