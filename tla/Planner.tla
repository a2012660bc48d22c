------------------------------- MODULE Planner -------------------------------
(***************************************************************************)
(* A plan for the operand stack of a compiled program (OperandPlan.tla),   *)
(* from its code, and from the types its tree gives the closures that are  *)
(* called.  Whether the plan is kept is not taken from here.               *)
(***************************************************************************)
EXTENDS OperandPlan, Compiler

LOCAL INSTANCE SequencesExt
LOCAL INSTANCE TLC

Results(type) == IF type = Void THEN 0 ELSE 1

(* The net effect of the calls of closures in a tree, in the order of the   *)
(* code: arguments are compiled before the callee.                          *)
OwnEffect(n, functions) ==
  LET type == FunctionTypeOf(n.parts[1][1].type)
  IN  CASE n.kind = "go" -> <<- 1 - Len(type.arg_types)>>
        [] n.kind = "call" /\ ~ CallsAny(n, functions \cup DOMAIN NativeIndices) ->
             <<Results(type.return_type) - 1 - Len(type.arg_types)>>
        [] OTHER -> <<>>

RECURSIVE Effects(_, _)
Effects(nodes, functions) ==
  FlattenSeq([i \in DOMAIN nodes |->
    LET n == nodes[i]
        parts == VisitedParts(n, [functions |-> functions])
        ordered == IF n.kind \in {"call", "go"} THEN Reverse(parts) ELSE parts
    IN  Effects(FlattenSeq(ordered), functions) \o OwnEffect(n, functions)])

(* The instructions in order: each hands its height on to its successors.   *)
(* Only a goto leads back, to a place that was reached before.  results is  *)
(* the plan without heights, effects what the calls of closures amount to.  *)
HeightsOf(p, code, effects, results, takes) ==
  LET OperationAt(pc) == OperationOf(p, code[pc + 1])
      IsDynamic(pc) == OperationAt(pc) \in {"invoke_dynamic", "new_thread"}
      Change(pc) ==
        CASE OperationAt(pc) = "invoke_static" ->
               results[code[pc + 1].index + 1].gives - results[code[pc + 1].index + 1].takes
          [] IsDynamic(pc) -> effects[Cardinality({j \in 0 .. pc : IsDynamic(j)})]
          [] OperationAt(pc) = "chan_recv" -> 0
          [] OTHER -> Given(OperationAt(pc)) - Taken(OperationAt(pc))
      Successors(pc) ==
        CASE OperationAt(pc) = "ret" -> {}
          [] OperationAt(pc) = "goto" -> {code[pc + 1].index}
          [] OperationAt(pc) \in {"if_t", "if_f"} -> {pc + 1, code[pc + 1].index}
          [] OTHER -> {pc + 1}
      HandOn(heights, pc) ==
        IF pc \notin DOMAIN heights THEN heights
        ELSE heights @@ [next \in Successors(pc) |-> heights[pc] + Change(pc)]
  IN  Reduce(HandOn, 0 :> takes, [i \in DOMAIN code |-> i - 1])

ResultsOf(function) ==
  [takes |-> Len(function.tag.parameters),
   gives |-> IF function.tag.result = NoResult THEN 0 ELSE 1]

PlanOfFunction(p, i, function, functions, results) ==
  results[i] @@ [heights |->
    CHOOSE heights \in {HeightsOf(p, p.functions[i].code, effects, results, results[i].takes) :
                          effects \in {Effects(Children(function), functions)}} : TRUE]

PlanOfProgram(p, table, functions) ==
  [i \in DOMAIN table |->
    PlanOfFunction(p, i, table[i], functions, [j \in DOMAIN table |-> ResultsOf(table[j])])]

(* A compiled source with its plan.  The sets have one element, see Reduce, *)
(* and appending nothing to the functions makes TLC evaluate them once.     *)
WithPlan(nodes) ==
  CHOOSE result \in
    {p @@ [plan |-> PlanOfProgram(p, Scan(nodes), Declared(nodes))] :
       p \in {[Finish(Compile(nodes)) EXCEPT !.functions = @ \o <<>>]}} : TRUE

CompileWithPlan(declarations) ==
  CHOOSE result \in {WithPlan(a.nodes) : a \in {AnnotateSourceFile(declarations)}} : TRUE
=============================================================================
