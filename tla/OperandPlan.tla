----------------------------- MODULE OperandPlan -----------------------------
(***************************************************************************)
(* The operand stack of src/src/OperandStack.hpp is one for all the frames *)
(* of a thread: nothing but the code that Compiler.hpp emits keeps the     *)
(* operands of a function apart from those of its callers.  A plan says    *)
(* how high the stack stands at each instruction: program.plan has, for    *)
(* each function, the operands it takes from its caller, those it gives    *)
(* back, and heights, the operands of its own in front of the instruction  *)
(* at a program counter, for every program counter that is reached.        *)
(***************************************************************************)
EXTENDS Interpreter

PlanOf(p, f) == p.plan[f + 1]
Reached(p, f) == DOMAIN PlanOf(p, f).heights
Height(p, f, pc) == PlanOf(p, f).heights[pc]
Continues(p, f, pc, height) == pc \in Reached(p, f) /\ Height(p, f, pc) = height

(* An instruction finds what it takes, and what it leaves is what the next  *)
(* one starts from, whichever that is.  A call of a closure depends on the  *)
(* closure, see CallsFit.  chan_recv gives its item later, as Receive.      *)
BalancedAt(p, f, pc) ==
  LET instruction == p.functions[f + 1].code[pc + 1]
      operation == OperationOf(p, instruction)
      callee == PlanOf(p, instruction.index)
      height == Height(p, f, pc)
      rest == height - Taken(operation)
  IN  /\ rest >= 0
      /\ CASE operation = "ret" -> height = PlanOf(p, f).gives
           [] operation = "goto" -> Continues(p, f, instruction.index, rest)
           [] operation \in {"if_t", "if_f"} ->
                Continues(p, f, instruction.index, rest) /\ Continues(p, f, pc + 1, rest)
           [] operation = "invoke_static" ->
                callee.takes <= rest /\ Continues(p, f, pc + 1, rest - callee.takes + callee.gives)
           [] operation \in {"invoke_dynamic", "new_thread"} -> pc + 1 \in Reached(p, f)
           [] operation = "chan_recv" -> Continues(p, f, pc + 1, rest + 1)
           [] OTHER -> Continues(p, f, pc + 1, rest + Given(operation))

(* The parameters of a function are those new_thread counts; one without a  *)
(* name is not among them.  No place behind the code is reached.            *)
BalancedFunction(p, f) ==
  /\ PlanOf(p, f).takes = p.functions[f + 1].argc
  /\ PlanOf(p, f).gives \in Nat
  /\ PlanOf(p, f).heights \in [Reached(p, f) -> Nat]
  /\ Reached(p, f) \subseteq 0 .. (Len(p.functions[f + 1].code) - 1)
  /\ Continues(p, f, 0, PlanOf(p, f).takes)
  /\ \A pc \in Reached(p, f) : BalancedAt(p, f, pc)

Balanced(p) ==
  /\ DOMAIN p.plan = DOMAIN p.functions
  /\ PlanOf(p, p.main).takes = 0 /\ PlanOf(p, p.main).gives = 0
  /\ \A f \in Indices(p) : BalancedFunction(p, f)

(* The visitors emit code that keeps a plan, and locals inside the frame:   *)
(* however expressions, statements and jumps are nested, every way to an    *)
(* instruction leaves as many operands in front of it.                      *)
BalancedCode == Balanced(program) /\ SlotsFit(program)

(* A closure that is called is one of the function type its caller saw: it  *)
(* takes arguments that are the caller's own, and gives as many results as  *)
(* the caller goes on with.  A goroutine gives nothing back.                *)
Agrees(p, f, pc, callee, results) ==
  /\ callee.takes < Height(p, f, pc)
  /\ Continues(p, f, pc + 1, Height(p, f, pc) - 1 - callee.takes + results)

CallsFit ==
  Balanced(program) => \A t \in Threads :
    LET f == stream[t].function
        pc == stream[t].program_counter
        callee == PlanOf(program, ClosureIndex(Operand(t, 1)))
    IN  (Ready(t) /\ pc \in Reached(program, f) /\ Depth(t) > 0 /\ HoldsClosure(Operand(t, 1))) =>
          /\ Operation(t) = "invoke_dynamic" => Agrees(program, f, pc, callee, callee.gives)
          /\ Operation(t) = "new_thread" => Agrees(program, f, pc, callee, 0)

(* What the callers of the newest frame left on the operand stack, and go   *)
(* on with when it returns, frame by frame: when a frame was pushed its     *)
(* caller had its operands but for the arguments of the call.               *)
CallersOperands(p, cs) ==
  LET below[frame \in Frames(cs)] ==
        LET caller == SavedFramePointer(cs, frame)
        IN  IF frame = 0 THEN 0
            ELSE below[caller]
                   + Height(p, FunctionIndex(cs, caller), SavedProgramCounter(cs, frame))
                   - PlanOf(p, FunctionIndex(cs, frame)).gives
  IN  below[cs.frame_pointer]

(* A thread inside chan_recv has popped the channel, and owes the item.     *)
Owed(t) == IF status[t] = "receiving" THEN 1 ELSE 0

(* The operand stack of every thread is that of its callers, as the frames  *)
(* in its call stack say, and on top of it what the plan says of the place  *)
(* it is at: no function ever takes an operand of its caller, and no        *)
(* instruction finds too few.                                               *)
OperandsAsPlanned ==
  BalancedCode =>
    /\ fault # "operand stack underflow!"
    /\ \A t \in Threads : status[t] \notin {"absent", "ended"} =>
         /\ stream[t].program_counter \in Reached(program, stream[t].function)
         /\ Depth(t) + Owed(t) = CallersOperands(program, call_stack[t])
              + Height(program, stream[t].function, stream[t].program_counter)
=============================================================================
