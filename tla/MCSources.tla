------------------------------ MODULE MCSources ------------------------------
(***************************************************************************)
(* The sequential programs of Samples.tla for the interpreter.  Their      *)
(* outcomes are not written by hand but found by Evaluator.tla.            *)
(***************************************************************************)
EXTENDS Planner, Samples, Evaluator

LOCAL INSTANCE TLC

(* Evaluation ends long before the bound on its steps.                      *)
Source(declarations) ==
  CompileWithPlan(declarations) @@ [outcomes |-> {Meaning(declarations, 20)}]

SequentialPrograms ==
  {Source(Sequential([i \in 1 .. 2 |-> Fragments[choice[i]]])) :
     choice \in {f \in [1 .. 2 -> DOMAIN Fragments] : f[1] # f[2]}}
=============================================================================
