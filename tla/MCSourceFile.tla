----------------------------- MODULE MCSourceFile -----------------------------
(***************************************************************************)
(* Source files for the compiler.                                          *)
(***************************************************************************)
EXTENDS SourceFile, Samples

LOCAL INSTANCE SequencesExt

(* The sequential programs of Samples.tla.                                  *)
SequentialSources ==
  {Sequential([i \in 1 .. 2 |-> Fragments[choice[i]]]) :
     choice \in {f \in [1 .. 2 -> DOMAIN Fragments] : f[1] # f[2]}}

(* Every way to put two statements into a function, from statements with at *)
(* most one statement in each of their blocks, with a label behind or not.  *)
Simple == {Return(Number(1)), Print1(Number(2)), Goto("end")}
Bodies == {<<>>} \cup {<<n>> : n \in Simple}
Condition == Infix(Name("p"), "<", Number(3))
Compound ==
  {If(Condition, b) : b \in Bodies} \cup {For(Condition, b) : b \in Bodies}
    \cup {Forever(b) : b \in Bodies} \cup {Block(b) : b \in Bodies}
    \cup {IfElse(Condition, b[1], b[2]) : b \in Bodies \X Bodies}
Statements == Simple \cup Compound

Control(body) == <<IntFunction("f", <<"p">>, body)>>
ControlSources ==
  {Control(<<a, b>>) : a \in Statements, b \in Statements}
    \cup {Control(<<a, b, Label("end"), Return(Number(0))>>) : a \in Statements, b \in Statements}
    \cup {Control(<<Label("end"), a, b>>) : a \in Statements, b \in Statements}

(* Declarations and uses of a name x in a function, and in literals in it,  *)
(* where x is a parameter, or nothing before its declaration; also as a     *)
(* parameter in the type of a variable.                                     *)
LiteralOf(id, body) ==
  Var(id, IntFunc(0), IntLiteral(id, <<>>, body \o <<Return(Number(0))>>))
TakesX == FuncType(<<Parameter("x", IntType)>>, IntType)
Uses == {Print1(X), SetX(Number(1)), IntVar("x", Number(2)),
         VarNoInit("g", TakesX), VarNoInit("h", TakesX),
         LiteralOf("l1", <<Print1(X)>>), LiteralOf("l2", <<SetX(Number(3))>>),
         LiteralOf("l3", <<IntVar("x", Number(4)), Print1(X)>>),
         LiteralOf("l4", <<SetX(Number(5)), IntVar("x", Number(6))>>),
         LiteralOf("l5", <<LiteralOf("l6", <<SetX(Number(7))>>), Do(Apply("l6", <<>>))>>)}
ScopeSources ==
  {<<IntFunction("f", parameters, uses)>> :
     parameters \in {<<>>, <<"x">>, <<"x", "x">>, <<"y", "x">>}, uses \in [1 .. 3 -> Uses]}

(* func f(g func(h func(), k int)) { iprint(k) }, and the same without h.   *)
Leak(inner) ==
  <<Procedure("f", <<Parameter("g", FuncType(inner \o <<Parameter("k", IntType)>>, NoResult))>>,
              <<Print1(Name("k"))>>)>>
LeakSources == {Leak(<<Parameter("h", FuncType(<<>>, NoResult))>>), Leak(<<>>)}

(* Functions over some types, and literals that capture some of these.      *)
SomeTypes ==
  {IntType, BoolType, ChanOf(IntType), IntFunc(0), IntFunc(2), ChanOf(IntFunc(0)),
   FuncType(Takes(<<IntFunc(1), IntType>>), IntType), FuncType(Takes(<<IntType>>), ChanOf(BoolType)),
   FuncType(Takes(<<ChanOf(IntType)>>), NoResult), FuncType(<<>>, IntFunc(1)),
   SliceOf(IntType), Type("nothing")}
TypeSources ==
  {<<Func("f", <<Parameter("p", t[1]), Parameter("q", t[2])>>, t[1], <<
       LiteralOf("l1", <<>>), LiteralOf("l2", <<Do(Name("p"))>>), LiteralOf("l3", <<Do(Name("p")), Do(Name("q"))>>),
       Return(Number(0))>>)>> : t \in SomeTypes \X SomeTypes}

(* What the annotator and the generator treat differently, in a function    *)
(* and behind its end.                                                      *)
Odd == {Do(Prefix("&", X)), Do(Name("iprint")), Do(Name("f")), Do(Name("y")), BareReturn, Goto("end"),
        Label("end"), Return(X), Var("y", SliceOf(IntType), X), Let("y", Name("f")),
        LiteralOf("l1", <<Print1(X), SetX(Number(1))>>), LiteralOf("l2", <<Do(Name("y"))>>),
        LiteralOf("l3", <<Let("y", X)>>), LiteralOf("l4", <<Goto("end")>>), LiteralOf("l5", <<Label("end")>>),
        Do(Prefix("!", Prefix("&", X))), IntVar("z", Prefix("&", X)), IntVar("f", X), Let("f", X), Put("f", X),
        LiteralOf("l6", <<Do(Name("f"))>>), Go(Name("iprint"), <<X>>), Go(Name("f"), <<X>>)}
OddSources ==
  {<<IntFunction("f", <<"x">>, nodes)>> : nodes \in Odd \X Odd}
    \cup {<<IntVar("x", Number(1))>>}

(* lambda.goat                                                              *)
AppN ==
  Func("appN", Ints(<<"n">>), FuncType(Takes(<<IntFunc(1), IntType>>), IntType), <<
    Return(Func("appN literal", <<Parameter("f", IntFunc(1)), Parameter("x", IntType)>>, IntType, <<
      IntVar("i", Number(0)),
      For(Infix(Name("i"), "<", Name("n")), <<SetX(Apply("f", <<X>>)), Increment("i")>>),
      Return(X)>>))>>)
Succ == IntFunction("succ", <<"x">>, <<Return(Plus(X, Number(1)))>>)
LambdaSources ==
  {<<AppN, Succ, MainFunction(<<
      Var("app10", FuncType(Takes(<<IntFunc(1), IntType>>), IntType), Apply("appN", <<Number(10)>>)),
      IntVar("v10", Apply("app10", <<Name("succ"), Number(0)>>)),
      Print1(Name("v10"))>>)>>}

AllSources ==
  SequentialSources \cup ControlSources \cup ScopeSources \cup LeakSources \cup TypeSources
    \cup OddSources \cup LambdaSources

(* A function that returns no value.                                       *)
ReturnSources == {<<Procedure("f", <<>>, <<BareReturn>>), MainFunction(<<Do(Apply("f", <<>>))>>)>>}
=============================================================================
