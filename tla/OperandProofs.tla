---------------------------- MODULE OperandProofs ----------------------------
(***************************************************************************)
(* The operand stacks of the interpreter keep the plan of the program, if  *)
(* it is balanced and the closures that are called fit where they are      *)
(* called, for any number of threads and any sizes.                        *)
(***************************************************************************)
EXTENDS OperandPlan, InterpreterProofs

(* base says of each frame how many operands are below its own: what its    *)
(* callers left when they called, less the arguments.                       *)
Kept(p, cs, frames, base) ==
  /\ base[0] = 0
  /\ \A f \in frames \ {0} :
       LET below == SavedFramePointer(cs, f)
           caller == FunctionIndex(cs, below)
           pc == SavedProgramCounter(cs, f)
       IN  /\ pc \in Reached(p, caller)
           /\ base[f] + PlanOf(p, FunctionIndex(cs, f)).gives
                = base[below] + Height(p, caller, pc)

(* A thread with these stacks is where the plan has it, and the function it *)
(* started with is the first.                                               *)
Planned(p, cs, s, depth, first) ==
  \E frames \in SUBSET Nat, base \in [Nat -> Nat] :
    /\ Chain(p, cs, s, frames)
    /\ FunctionIndex(cs, 0) = first
    /\ Kept(p, cs, frames, base)
    /\ s.program_counter \in Reached(p, s.function)
    /\ depth = base[cs.frame_pointer] + Height(p, s.function, s.program_counter)

ThreadPlanned(t) ==
  \E first : /\ Planned(program, call_stack[t], stream[t], Depth(t) + Owed(t), first)
             /\ t = Main => first = program.main

OperandsInv ==
  BalancedCode =>
    /\ fault # "operand stack underflow!"
    /\ status[Main] # "absent"
    /\ \A t \in Threads : Live(status[t]) => ThreadPlanned(t)
    /\ LeavesNothing

-----------------------------------------------------------------------------
(* Facts about plans.                                                       *)

LEMMA PlanTypes ==
  ASSUME NEW p, WellFormed(p), Balanced(p), NEW f \in Indices(p)
  PROVE  /\ BalancedFunction(p, f)
         /\ PlanOf(p, f).takes \in Nat /\ PlanOf(p, f).gives \in Nat
         /\ PlanOf(p, f).takes = p.functions[f + 1].argc
         /\ \A pc \in Reached(p, f) : /\ Height(p, f, pc) \in Nat
                                      /\ pc \in Nat
                                      /\ pc < Len(CodeOf(p, f))
         /\ Continues(p, f, 0, PlanOf(p, f).takes)
<1>1. BalancedFunction(p, f)  BY DEF Balanced
<1>2. f + 1 \in DOMAIN p.functions /\ p.functions \in Seq(FunctionRecords)
      /\ Len(CodeOf(p, f)) \in Nat
  BY FunctionTypes DEF WellFormed
<1>3. p.functions[f + 1] \in FunctionRecords  BY <1>2
<1>4. p.functions[f + 1].argc \in Nat  BY <1>3 DEF FunctionRecords
<1>5. ASSUME NEW pc \in Reached(p, f)
      PROVE  Height(p, f, pc) \in Nat /\ pc \in Nat /\ pc < Len(CodeOf(p, f))
  <2>1. Height(p, f, pc) \in Nat  BY <1>1 DEF BalancedFunction, Height
  <2>2. pc \in 0 .. (Len(CodeOf(p, f)) - 1)  BY <1>1 DEF BalancedFunction, CodeOf
  <2> QED  BY <1>2, <2>1, <2>2
<1> QED  BY <1>1, <1>4, <1>5 DEF BalancedFunction

LEMMA PlanAt ==
  ASSUME NEW p, WellFormed(p), Balanced(p), NEW f \in Indices(p), NEW pc \in Reached(p, f),
         NEW instruction, instruction = CodeOf(p, f)[pc + 1],
         NEW operation, operation = OperationOf(p, instruction)
  PROVE  LET index == instruction.index
             callee == PlanOf(p, index)
             rest == Height(p, f, pc) - Taken(operation)
         IN  /\ rest \in Nat
             /\ operation = "ret" => Height(p, f, pc) = PlanOf(p, f).gives
             /\ operation = "goto" => Continues(p, f, index, rest)
             /\ operation \in {"if_t", "if_f"} =>
                  Continues(p, f, index, rest) /\ Continues(p, f, pc + 1, rest)
             /\ operation = "invoke_static" =>
                  callee.takes <= rest /\ Continues(p, f, pc + 1, rest - callee.takes + callee.gives)
             /\ operation = "chan_recv" => Continues(p, f, pc + 1, rest + 1)
             /\ operation \notin {"ret", "goto", "if_t", "if_f", "invoke_static",
                                  "invoke_dynamic", "new_thread", "chan_recv"} =>
                  Continues(p, f, pc + 1, rest + Given(operation))
<1>1. BalancedAt(p, f, pc)  BY PlanTypes DEF BalancedFunction
<1>2. Height(p, f, pc) \in Nat  BY PlanTypes
<1>3. Taken(operation) \in Nat  BY DEF Taken
<1> DEFINE index == instruction.index
           callee == PlanOf(p, index)
           rest == Height(p, f, pc) - Taken(operation)
<1>4. /\ rest >= 0
      /\ CASE operation = "ret" -> Height(p, f, pc) = PlanOf(p, f).gives
           [] operation = "goto" -> Continues(p, f, index, rest)
           [] operation \in {"if_t", "if_f"} ->
                Continues(p, f, index, rest) /\ Continues(p, f, pc + 1, rest)
           [] operation = "invoke_static" ->
                callee.takes <= rest /\ Continues(p, f, pc + 1, rest - callee.takes + callee.gives)
           [] operation \in {"invoke_dynamic", "new_thread"} -> pc + 1 \in Reached(p, f)
           [] operation = "chan_recv" -> Continues(p, f, pc + 1, rest + 1)
           [] OTHER -> Continues(p, f, pc + 1, rest + Given(operation))
  BY <1>1 DEF BalancedAt, CodeOf
<1>5. rest \in Nat  BY <1>2, <1>3, <1>4
<1> HIDE DEF rest, callee, index
<1>6. /\ operation = "ret" => Height(p, f, pc) = PlanOf(p, f).gives
      /\ operation = "goto" => Continues(p, f, index, rest)
      /\ operation \in {"if_t", "if_f"} =>
           Continues(p, f, index, rest) /\ Continues(p, f, pc + 1, rest)
      /\ operation = "invoke_static" =>
           callee.takes <= rest /\ Continues(p, f, pc + 1, rest - callee.takes + callee.gives)
      /\ operation = "chan_recv" => Continues(p, f, pc + 1, rest + 1)
      /\ operation \notin {"ret", "goto", "if_t", "if_f", "invoke_static",
                           "invoke_dynamic", "new_thread", "chan_recv"} =>
           Continues(p, f, pc + 1, rest + Given(operation))
  BY <1>4
<1> QED  BY <1>5, <1>6 DEF rest, callee, index

-----------------------------------------------------------------------------
(* What the operations on a call stack keep of the plan.                    *)

LEMMA PlannedTypes ==
  ASSUME NEW p, WellFormed(p), Balanced(p), NEW cs, NEW s, NEW depth, NEW first,
         Planned(p, cs, s, depth, first)
  PROVE  /\ s.function \in Indices(p)
         /\ s.program_counter \in Reached(p, s.function)
         /\ Height(p, s.function, s.program_counter) \in Nat
         /\ s.program_counter \in Nat
         /\ s.program_counter < Len(CodeOf(p, s.function))
         /\ depth \in Nat /\ depth >= Height(p, s.function, s.program_counter)
<1>1. PICK frames \in SUBSET Nat, base \in [Nat -> Nat] :
        /\ Chain(p, cs, s, frames)
        /\ s.program_counter \in Reached(p, s.function)
        /\ depth = base[cs.frame_pointer] + Height(p, s.function, s.program_counter)
  BY DEF Planned
<1>2. s.function \in Indices(p) /\ cs.frame_pointer \in Nat  BY <1>1 DEF Chain, Newest
<1>3. base[cs.frame_pointer] \in Nat  BY <1>1, <1>2
<1>4. /\ Height(p, s.function, s.program_counter) \in Nat
      /\ s.program_counter \in Nat /\ s.program_counter < Len(CodeOf(p, s.function))
  BY <1>1, <1>2, PlanTypes
<1> DEFINE mine == Height(p, s.function, s.program_counter)
           theirs == base[cs.frame_pointer]
<1>5. mine \in Nat /\ theirs \in Nat /\ depth = theirs + mine  BY <1>1, <1>3, <1>4
<1> HIDE DEF mine, theirs
<1>6. depth \in Nat /\ depth >= mine  BY <1>5
<1> QED  BY <1>1, <1>2, <1>4, <1>6 DEF mine

(* A step to another instruction of the same function.                      *)
LEMMA PlannedAdvance ==
  ASSUME NEW p, WellFormed(p), Balanced(p), NEW cs, NEW s, NEW depth, NEW first,
         Planned(p, cs, s, depth, first),
         NEW after, after.function = s.function,
         NEW height, Continues(p, s.function, after.program_counter, height),
         NEW now, now = depth - Height(p, s.function, s.program_counter) + height
  PROVE  Planned(p, cs, after, now, first)
<1>1. PICK frames \in SUBSET Nat, base \in [Nat -> Nat] :
        /\ Chain(p, cs, s, frames)
        /\ FunctionIndex(cs, 0) = first
        /\ Kept(p, cs, frames, base)
        /\ s.program_counter \in Reached(p, s.function)
        /\ depth = base[cs.frame_pointer] + Height(p, s.function, s.program_counter)
  BY DEF Planned
<1>2. s.function \in Indices(p) /\ cs.frame_pointer \in Nat  BY <1>1 DEF Chain, Newest
<1>3. /\ base[cs.frame_pointer] \in Nat
      /\ Height(p, s.function, s.program_counter) \in Nat
      /\ after.program_counter \in Reached(p, after.function)
      /\ Height(p, after.function, after.program_counter) = height
      /\ height \in Nat /\ after.program_counter \in Nat
  BY <1>1, <1>2, PlanTypes DEF Continues
<1>4. Chain(p, cs, after, frames)  BY <1>1, <1>3 DEF Chain, Newest
<1>5. now = base[cs.frame_pointer] + Height(p, after.function, after.program_counter)
  BY <1>1, <1>3
<1> QED  BY <1>1, <1>3, <1>4, <1>5 DEF Planned

(* What is written in the locals.                                           *)
LEMMA PlannedWrite ==
  ASSUME NEW p, NEW cs, NEW after, NEW s, NEW depth, NEW first,
         NEW frames \in SUBSET Nat, NEW base \in [Nat -> Nat],
         Chain(p, cs, s, frames), FunctionIndex(cs, 0) = first, Kept(p, cs, frames, base),
         s.program_counter \in Reached(p, s.function),
         depth = base[cs.frame_pointer] + Height(p, s.function, s.program_counter),
         Chain(p, after, s, frames), SameFrames(cs, after, frames),
         after.frame_pointer = cs.frame_pointer
  PROVE  Planned(p, after, s, depth, first)
<1>1. ASSUME NEW f \in frames \ {0}
      PROVE  /\ SavedFramePointer(after, f) = SavedFramePointer(cs, f)
             /\ SavedProgramCounter(after, f) = SavedProgramCounter(cs, f)
             /\ FunctionIndex(after, f) = FunctionIndex(cs, f)
             /\ FunctionIndex(after, SavedFramePointer(cs, f))
                  = FunctionIndex(cs, SavedFramePointer(cs, f))
  <2>1. SavedFramePointer(cs, f) \in frames  BY DEF Chain, Linked
  <2> QED  BY <2>1 DEF SameFrames
<1>2. Kept(p, after, frames, base)  BY <1>1 DEF Kept
<1>3. FunctionIndex(after, 0) = first  BY DEF SameFrames
<1> QED  BY <1>2, <1>3 DEF Planned

LEMMA PlannedStoreLocal ==
  ASSUME NEW p, WellFormed(p), NEW cs, Shaped(cs), NEW s, NEW depth, NEW first,
         Planned(p, cs, s, depth, first), NEW index \in Nat, NEW word
  PROVE  Planned(p, StoreLocal(cs, index, word), s, depth, first)
<1> DEFINE after == StoreLocal(cs, index, word)
<1>1. PICK frames \in SUBSET Nat, base \in [Nat -> Nat] :
        /\ Chain(p, cs, s, frames)
        /\ FunctionIndex(cs, 0) = first
        /\ Kept(p, cs, frames, base)
        /\ s.program_counter \in Reached(p, s.function)
        /\ depth = base[cs.frame_pointer] + Height(p, s.function, s.program_counter)
  BY DEF Planned
<1>2. /\ Chain(p, after, s, frames) /\ SameFrames(cs, after, frames)
      /\ after.frame_pointer = cs.frame_pointer
  BY <1>1, ChainStoreLocal
<1> HIDE DEF after
<1>3. Planned(p, after, s, depth, first)  BY <1>1, <1>2, PlannedWrite
<1> QED  BY <1>3 DEF after

LEMMA PlannedStoreLocals ==
  ASSUME NEW p, WellFormed(p), NEW cs, Shaped(cs), NEW s, NEW depth, NEW first,
         Planned(p, cs, s, depth, first),
         NEW count \in Nat, NEW words, DOMAIN words = 1 .. count
  PROVE  Planned(p, StoreLocals(cs, words), s, depth, first)
<1> DEFINE after == StoreLocals(cs, words)
<1>1. PICK frames \in SUBSET Nat, base \in [Nat -> Nat] :
        /\ Chain(p, cs, s, frames)
        /\ FunctionIndex(cs, 0) = first
        /\ Kept(p, cs, frames, base)
        /\ s.program_counter \in Reached(p, s.function)
        /\ depth = base[cs.frame_pointer] + Height(p, s.function, s.program_counter)
  BY DEF Planned
<1>2. /\ Chain(p, after, s, frames) /\ SameFrames(cs, after, frames)
      /\ after.frame_pointer = cs.frame_pointer
  BY <1>1, ChainStoreLocals
<1> HIDE DEF after
<1>3. Planned(p, after, s, depth, first)  BY <1>1, <1>2, PlannedWrite
<1> QED  BY <1>3 DEF after

(* A call leaves operands to the caller, left of its own, and gives the     *)
(* called function those it takes.                                          *)
LEMMA PlannedPush ==
  ASSUME NEW p, WellFormed(p), Balanced(p), NEW cs, Shaped(cs), NEW s, NEW depth, NEW first,
         Planned(p, cs, s, depth, first),
         NEW index \in Indices(p), FrameFits(cs, 0),
         Calls(CodeOf(p, s.function)[s.program_counter + 1], index),
         NEW left \in Nat,
         Continues(p, s.function, s.program_counter + 1, left + PlanOf(p, index).gives),
         NEW now, now = depth - Height(p, s.function, s.program_counter)
                          + left + PlanOf(p, index).takes
  PROVE  Planned(p, PushFrame(cs, index, VarcOf(p, index), s.program_counter + 1),
                 [function |-> index, program_counter |-> 0], now, first)
<1> DEFINE after == PushFrame(cs, index, VarcOf(p, index), s.program_counter + 1)
           new == cs.top
           start == [function |-> index, program_counter |-> 0]
<1>1. PICK frames \in SUBSET Nat, base \in [Nat -> Nat] :
        /\ Chain(p, cs, s, frames)
        /\ FunctionIndex(cs, 0) = first
        /\ Kept(p, cs, frames, base)
        /\ s.program_counter \in Reached(p, s.function)
        /\ depth = base[cs.frame_pointer] + Height(p, s.function, s.program_counter)
  BY DEF Planned
<1> DEFINE old == cs.frame_pointer
           below == base[old] + left
           all == frames \cup {new}
           raised == [f \in Nat |-> IF f = new THEN below ELSE base[f]]
           height == Height(p, s.function, s.program_counter)
           takes == PlanOf(p, index).takes
           gives == PlanOf(p, index).gives
           theirs == base[old]
<1>2. /\ s.function \in Indices(p) /\ old \in Nat /\ old \in frames
      /\ s.function = FunctionIndex(cs, old)
  BY <1>1 DEF Chain, Newest
<1>3. /\ base[old] \in Nat
      /\ Height(p, s.function, s.program_counter) \in Nat
      /\ s.program_counter < Len(CodeOf(p, s.function))
      /\ PlanOf(p, index).takes \in Nat /\ PlanOf(p, index).gives \in Nat
  BY <1>1, <1>2, PlanTypes
<1>4. /\ Chain(p, after, start, all)
      /\ new \in Nat /\ new # 0 /\ new \notin frames /\ after.frame_pointer = new
      /\ SameFrames(cs, after, frames)
      /\ FunctionIndex(after, new) = index
      /\ SavedFramePointer(after, new) = old
      /\ SavedProgramCounter(after, new) = s.program_counter + 1
  BY <1>1, <1>3, ChainPush
<1> HIDE DEF after, new, old
<1>5. /\ below \in Nat /\ below + gives = theirs + (left + gives)
      /\ now = below + takes
  <2>1. /\ theirs \in Nat /\ height \in Nat /\ takes \in Nat /\ gives \in Nat
        /\ depth = theirs + height /\ now = depth - height + left + takes
        /\ below = theirs + left
    BY <1>1, <1>3 DEF old
  <2> HIDE DEF theirs, height, takes, gives, below
  <2> QED  BY <2>1
<1> HIDE DEF below
<1>6. /\ raised \in [Nat -> Nat] /\ raised[new] = below
      /\ \A f \in Nat : f # new => raised[f] = base[f]
  BY <1>4, <1>5
<1> HIDE DEF raised
<1>7. \A f \in frames : /\ f \in Nat /\ f # new
                        /\ FunctionIndex(after, f) = FunctionIndex(cs, f)
                        /\ SavedFramePointer(after, f) = SavedFramePointer(cs, f)
                        /\ SavedProgramCounter(after, f) = SavedProgramCounter(cs, f)
  BY <1>4 DEF SameFrames
<1>8. raised[old] = base[old] /\ FunctionIndex(after, old) = s.function
  BY <1>2, <1>6, <1>7
<1>9. Kept(p, after, all, raised)
  <2>1. raised[0] = 0  BY <1>1, <1>4, <1>6 DEF Kept
  <2> SUFFICES ASSUME NEW f \in all \ {0}
               PROVE  LET saved == SavedFramePointer(after, f)
                          caller == FunctionIndex(after, saved)
                          pc == SavedProgramCounter(after, f)
                      IN  /\ pc \in Reached(p, caller)
                          /\ raised[f] + PlanOf(p, FunctionIndex(after, f)).gives
                               = raised[saved] + Height(p, caller, pc)
    BY <2>1 DEF Kept
  <2>2. CASE f = new
    <3>1. /\ s.program_counter + 1 \in Reached(p, s.function)
          /\ Height(p, s.function, s.program_counter + 1) = left + PlanOf(p, index).gives
      BY DEF Continues
    <3> QED  BY <2>2, <3>1, <1>4, <1>5, <1>6, <1>8
  <2>3. CASE f \in frames
    <3> DEFINE saved == SavedFramePointer(cs, f)
    <3>1. saved \in frames  BY <2>3, <1>1 DEF Chain, Linked
    <3>2. /\ SavedFramePointer(after, f) = saved
          /\ FunctionIndex(after, saved) = FunctionIndex(cs, saved)
          /\ FunctionIndex(after, f) = FunctionIndex(cs, f)
          /\ SavedProgramCounter(after, f) = SavedProgramCounter(cs, f)
          /\ raised[f] = base[f] /\ raised[saved] = base[saved]
      BY <2>3, <3>1, <1>6, <1>7
    <3> QED  BY <2>3, <3>2, <1>1 DEF Kept
  <2> QED  BY <2>2, <2>3
<1>10. /\ start.function = index /\ start.program_counter = 0
       /\ 0 \in Reached(p, index) /\ Height(p, index, 0) = PlanOf(p, index).takes
  BY PlanTypes DEF Continues
<1> HIDE DEF start
<1>11. now = raised[after.frame_pointer] + Height(p, start.function, start.program_counter)
  BY <1>4, <1>5, <1>6, <1>10
<1>12. FunctionIndex(after, 0) = first  BY <1>1, <1>4 DEF SameFrames
<1>13. all \in SUBSET Nat  BY <1>1, <1>4
<1> HIDE DEF all
<1>14. Planned(p, after, start, now, first)
  BY <1>4, <1>6, <1>9, <1>10, <1>11, <1>12, <1>13 DEF Planned
<1> QED  BY <1>14 DEF after, start

(* The first frame of a thread.                                             *)
LEMMA PlannedFirst ==
  ASSUME NEW p, WellFormed(p), Balanced(p), NEW index \in Indices(p)
  PROVE  Planned(p, PushFrame(NewCallStack(CallStackSize), index, VarcOf(p, index), 0),
                 [function |-> index, program_counter |-> 0], PlanOf(p, index).takes, index)
<1> DEFINE fresh == PushFrame(NewCallStack(CallStackSize), index, VarcOf(p, index), 0)
           start == [function |-> index, program_counter |-> 0]
           base == [f \in Nat |-> 0]
           frames == {0}
<1>1. /\ Chain(p, fresh, start, frames) /\ fresh.frame_pointer = 0
      /\ FunctionIndex(fresh, 0) = index
  BY ChainFirst
<1>2. frames \in SUBSET Nat /\ base \in [Nat -> Nat] /\ base[0] = 0  OBVIOUS
<1>3. Kept(p, fresh, frames, base)  BY <1>2 DEF Kept
<1>4. /\ start.function = index /\ start.program_counter = 0
      /\ 0 \in Reached(p, index) /\ Height(p, index, 0) = PlanOf(p, index).takes
      /\ PlanOf(p, index).takes \in Nat
  BY PlanTypes DEF Continues
<1> HIDE DEF fresh, start, base, frames
<1>5. PlanOf(p, index).takes
        = base[fresh.frame_pointer] + Height(p, start.function, start.program_counter)
  BY <1>1, <1>2, <1>4
<1>6. Planned(p, fresh, start, PlanOf(p, index).takes, index)
  BY <1>1, <1>2, <1>3, <1>4, <1>5 DEF Planned
<1> QED  BY <1>6 DEF fresh, start

(* A function that returns leaves what it gives, and its caller goes on     *)
(* with it.                                                                 *)
LEMMA PlannedPop ==
  ASSUME NEW p, WellFormed(p), Balanced(p), NEW cs, Shaped(cs), NEW s, NEW depth, NEW first,
         Planned(p, cs, s, depth, first), PopFrame(cs).top # 0,
         Height(p, s.function, s.program_counter) = PlanOf(p, s.function).gives
  PROVE  Planned(p, PopFrame(cs),
           [function |-> FunctionIndex(PopFrame(cs), PopFrame(cs).frame_pointer),
            program_counter |-> SavedProgramCounter(cs, cs.frame_pointer)], depth, first)
<1> DEFINE after == PopFrame(cs)
           fp == cs.frame_pointer
           below == SavedFramePointer(cs, fp)
           caller == FunctionIndex(cs, below)
           pc == SavedProgramCounter(cs, fp)
           back == [function |-> FunctionIndex(after, after.frame_pointer), program_counter |-> pc]
<1>1. PICK frames \in SUBSET Nat, base \in [Nat -> Nat] :
        /\ Chain(p, cs, s, frames)
        /\ FunctionIndex(cs, 0) = first
        /\ Kept(p, cs, frames, base)
        /\ s.program_counter \in Reached(p, s.function)
        /\ depth = base[cs.frame_pointer] + Height(p, s.function, s.program_counter)
  BY DEF Planned
<1> DEFINE rest == frames \ {fp}
<1>2. after.memory = cs.memory /\ after.frame_pointer = below /\ after.top = fp
  BY DEF PopFrame
<1>3. Chain(p, after, back, rest)  BY <1>1, ChainPop
<1> HIDE DEF after
<1>4. \A f : /\ FunctionIndex(after, f) = FunctionIndex(cs, f)
             /\ SavedFramePointer(after, f) = SavedFramePointer(cs, f)
             /\ SavedProgramCounter(after, f) = SavedProgramCounter(cs, f)
  BY <1>2 DEF FunctionIndex, SavedFramePointer, SavedProgramCounter
<1>5. fp \in frames \ {0} /\ s.function = FunctionIndex(cs, fp)
  BY <1>1, <1>2 DEF Chain, Newest, after
<1>6. /\ pc \in Reached(p, caller)
      /\ base[fp] + PlanOf(p, s.function).gives = base[below] + Height(p, caller, pc)
  BY <1>1, <1>5 DEF Kept
<1>7. back.function = caller /\ back.program_counter = pc  BY <1>2, <1>4
<1>8. depth = base[after.frame_pointer] + Height(p, back.function, back.program_counter)
  BY <1>1, <1>2, <1>6, <1>7
<1>9. Kept(p, after, rest, base)  BY <1>1, <1>4 DEF Kept
<1>10. FunctionIndex(after, 0) = first  BY <1>1, <1>4
<1>11. rest \in SUBSET Nat  BY <1>1
<1> HIDE DEF rest, back, pc, caller
<1>12. Planned(p, after, back, depth, first)
  BY <1>1, <1>3, <1>6, <1>7, <1>8, <1>9, <1>10, <1>11 DEF Planned
<1> QED  BY <1>12 DEF after, back, pc

(* The function a thread started with leaves what it gives, and no more.    *)
LEMMA PlannedLast ==
  ASSUME NEW p, WellFormed(p), Balanced(p), NEW cs, NEW s, NEW depth, NEW first,
         Planned(p, cs, s, depth, first), PopFrame(cs).top = 0,
         Height(p, s.function, s.program_counter) = PlanOf(p, s.function).gives
  PROVE  depth = PlanOf(p, first).gives
<1>1. PICK frames \in SUBSET Nat, base \in [Nat -> Nat] :
        /\ Chain(p, cs, s, frames)
        /\ FunctionIndex(cs, 0) = first
        /\ Kept(p, cs, frames, base)
        /\ depth = base[cs.frame_pointer] + Height(p, s.function, s.program_counter)
  BY DEF Planned
<1>2. cs.frame_pointer = 0  BY DEF PopFrame
<1>3. s.function = first /\ s.function \in Indices(p)  BY <1>1, <1>2 DEF Chain, Newest
<1>4. base[0] = 0 /\ PlanOf(p, first).gives \in Nat  BY <1>1, <1>3, PlanTypes DEF Kept
<1> QED  BY <1>1, <1>2, <1>3, <1>4
-----------------------------------------------------------------------------
(* A thread that has a plan to keep.                                        *)

Elsewhere(t) ==
  \A u \in Threads \ {t} : /\ status'[u] = status[u] /\ stream'[u] = stream[u]
                           /\ call_stack'[u] = call_stack[u] /\ operands'[u] = operands[u]

KeepsPlan(t) ==
  \A s, depth, first : Planned(program, call_stack[t], s, depth, first)
                         => Planned(program, call_stack'[t], s, depth, first)

ReadyInv == TypeInv /\ BalancedCode /\ OperandsInv

LEMMA ReadyFacts ==
  ASSUME ReadyInv
  PROVE  /\ Balanced(program) /\ SlotsFit(program) /\ WellFormed(program)
         /\ IInv /\ Typed
         /\ DOMAIN status = Threads /\ DOMAIN stream = Threads
         /\ DOMAIN call_stack = Threads /\ DOMAIN operands = Threads
         /\ \A t \in Threads : Depth(t) \in Nat
         /\ \A t \in Threads : Shaped(call_stack[t])
BY DEF ReadyInv, TypeInv, BalancedCode, IInv, Shapes, Typed, ThreadsTyped, OperandsTyped, Depth

(* What the plan says of the instruction t is at.                           *)
LEMMA InstructionPlan ==
  ASSUME ReadyInv, NEW t \in Threads, status[t] = "running",
         NEW first, Planned(program, call_stack[t], stream[t], Depth(t) + Owed(t), first)
  PROVE  LET f == stream[t].function
             pc == stream[t].program_counter
             height == Height(program, f, pc)
             rest == height - Taken(Operation(t))
             callee == PlanOf(program, Index(t))
         IN  /\ ~ AtEnd(t)
             /\ f \in Indices(program) /\ pc \in Reached(program, f) /\ pc \in Nat
             /\ Owed(t) = 0
             /\ height \in Nat /\ rest \in Nat /\ Depth(t) >= height
             /\ Operation(t) = "ret" => height = PlanOf(program, f).gives
             /\ Operation(t) = "goto" => Continues(program, f, Index(t), rest)
             /\ Operation(t) \in {"if_t", "if_f"} =>
                  Continues(program, f, Index(t), rest) /\ Continues(program, f, pc + 1, rest)
             /\ Operation(t) = "invoke_static" =>
                  /\ callee.takes <= rest
                  /\ Continues(program, f, pc + 1, rest - callee.takes + callee.gives)
             /\ Operation(t) = "chan_recv" => Continues(program, f, pc + 1, rest + 1)
             /\ Operation(t) \notin {"ret", "goto", "if_t", "if_f", "invoke_static",
                                     "invoke_dynamic", "new_thread", "chan_recv"} =>
                  Continues(program, f, pc + 1, rest + Given(Operation(t)))
<1> DEFINE f == stream[t].function
           pc == stream[t].program_counter
           height == Height(program, f, pc)
           depth == Depth(t) + Owed(t)
           operation == Operation(t)
           instruction == Current(t)
<1>1. /\ Balanced(program) /\ WellFormed(program) /\ SlotsFit(program) /\ IInv
      /\ Depth(t) \in Nat
  BY ReadyFacts
<1>2. Owed(t) = 0  BY DEF Owed
<1>3. /\ f \in Indices(program) /\ pc \in Reached(program, f) /\ pc \in Nat
      /\ height \in Nat /\ pc < Len(CodeOf(program, f))
  BY <1>1, PlannedTypes
<1>4. depth >= height  BY <1>1, PlannedTypes
<1>5. Len(CodeOf(program, f)) \in Nat  BY <1>1, <1>3, FunctionTypes
<1>6. ~ AtEnd(t)  BY <1>3, <1>5 DEF AtEnd, Code, Function, CodeOf
<1>7. Depth(t) >= height  BY <1>1, <1>2, <1>4
<1>8. instruction = CodeOf(program, f)[pc + 1]  BY DEF Current, Code, Function, CodeOf
<1>9. operation = OperationOf(program, instruction)  BY DEF Operation
<1>10. Index(t) = instruction.index  BY DEF Index
<1> HIDE DEF f, pc, operation, instruction
<1>11. LET index == instruction.index
           callee == PlanOf(program, index)
           rest == Height(program, f, pc) - Taken(operation)
       IN  /\ rest \in Nat
           /\ operation = "ret" => Height(program, f, pc) = PlanOf(program, f).gives
           /\ operation = "goto" => Continues(program, f, index, rest)
           /\ operation \in {"if_t", "if_f"} =>
                Continues(program, f, index, rest) /\ Continues(program, f, pc + 1, rest)
           /\ operation = "invoke_static" =>
                /\ callee.takes <= rest
                /\ Continues(program, f, pc + 1, rest - callee.takes + callee.gives)
           /\ operation = "chan_recv" => Continues(program, f, pc + 1, rest + 1)
           /\ operation \notin {"ret", "goto", "if_t", "if_f", "invoke_static",
                                "invoke_dynamic", "new_thread", "chan_recv"} =>
                Continues(program, f, pc + 1, rest + Given(operation))
  BY <1>1, <1>3, <1>8, <1>9, PlanAt
<1> QED
  BY <1>2, <1>3, <1>6, <1>7, <1>10, <1>11, Zenon DEF f, pc, operation

LEMMA TakenAndGiven ==
  ASSUME NEW t, Operation(t) # "new_thread"
  PROVE  /\ Taken(Operation(t)) = Pops(t) /\ Given(Operation(t)) = Pushes(t)
         /\ Pops(t) \in Nat /\ Pushes(t) \in Nat
<1>1. Taken(Operation(t)) \in Nat  BY DEF Taken
<1>2. Given(Operation(t)) \in Nat  BY DEF Given
<1> QED  BY <1>1, <1>2 DEF Pops, Pushes

LEMMA PopPushLength ==
  ASSUME OperandsTyped, NEW t \in Threads, NEW n \in Nat, ~ (Depth(t) < n),
         NEW S, NEW words \in Seq(S), PopPush(t, n, words)
  PROVE  /\ Len(operands'[t]) = Depth(t) - n + Len(words)
         /\ \A u \in Threads \ {t} : operands'[u] = operands[u]
<1> DEFINE U == Word \cup S
           m == Depth(t) - n
           rest == SubSeq(operands[t], 1, m)
           now == rest \o words
<1>1. DOMAIN operands = Threads /\ operands[t] \in Seq(Word)  BY DEF OperandsTyped
<1>2. Depth(t) \in Nat /\ Depth(t) = Len(operands[t])  BY <1>1 DEF Depth
<1>3. m \in Nat /\ m <= Len(operands[t])  BY <1>2
<1>4. operands' = [operands EXCEPT ![t] = now]  BY DEF PopPush, Rest
<1> HIDE DEF m
<1>5. rest \in Seq(Word) /\ Len(rest) = m  BY <1>1, <1>3
<1> HIDE DEF rest
<1>6. rest \in Seq(U) /\ words \in Seq(U)
  <2>1. Word \subseteq U /\ S \subseteq U  OBVIOUS
  <2> HIDE DEF U
  <2>2. rest \in [1 .. Len(rest) -> Word] /\ words \in [1 .. Len(words) -> S]
        /\ Len(rest) \in Nat /\ Len(words) \in Nat
    BY <1>5
  <2>3. rest \in [1 .. Len(rest) -> U] /\ words \in [1 .. Len(words) -> U]
    BY <2>1, <2>2
  <2> QED  BY <2>2, <2>3
<1> HIDE DEF U
<1>7. Len(now) = m + Len(words)  BY <1>5, <1>6
<1> HIDE DEF now
<1> QED  BY <1>1, <1>4, <1>7 DEF m

LEMMA PopLength ==
  ASSUME OperandsTyped, NEW t \in Threads, NEW n \in Nat, ~ (Depth(t) < n), PopPush(t, n, <<>>)
  PROVE  /\ Len(operands'[t]) = Depth(t) - n
         /\ \A u \in Threads \ {t} : operands'[u] = operands[u]
<1> DEFINE words == <<>>
<1>1. words \in Seq(Word) /\ Len(words) = 0 /\ PopPush(t, n, words)  BY NoWord
<1>2. Depth(t) \in Nat  BY DEF OperandsTyped, Depth
<1> HIDE DEF words
<1>3. /\ Len(operands'[t]) = Depth(t) - n + Len(words)
      /\ \A u \in Threads \ {t} : operands'[u] = operands[u]
  BY <1>1, PopPushLength
<1> QED  BY <1>1, <1>2, <1>3

-----------------------------------------------------------------------------
(* The steps.                                                               *)

(* A step of one thread, which is not its last.                             *)
LEMMA ThreadMoves ==
  ASSUME ReadyInv, NEW t \in Threads, Live(status[t]), Live(status'[t]),
         program' = program, fault' = fault, Elsewhere(t),
         \A first : Planned(program, call_stack[t], stream[t], Depth(t) + Owed(t), first)
                      => Planned(program, call_stack'[t], stream'[t],
                                 Len(operands'[t]) + Owed(t)', first)
  PROVE  OperandsInv'
<1>1. BalancedCode /\ OperandsInv  BY DEF ReadyInv
<1>2. /\ fault # "operand stack underflow!" /\ status[Main] # "absent"
      /\ \A u \in Threads : Live(status[u]) => ThreadPlanned(u)
      /\ LeavesNothing
  BY <1>1 DEF OperandsInv
<1>3. ASSUME NEW u \in Threads, Live(status'[u])  PROVE ThreadPlanned(u)'
  <2>1. CASE u = t
    <3>1. PICK first : /\ Planned(program, call_stack[t], stream[t], Depth(t) + Owed(t), first)
                       /\ t = Main => first = program.main
      BY <1>2 DEF ThreadPlanned
    <3>2. Planned(program, call_stack'[t], stream'[t], Len(operands'[t]) + Owed(t)', first)
      BY <3>1
    <3> QED  BY <2>1, <3>1, <3>2 DEF ThreadPlanned, Depth
  <2>2. CASE u # t
    <3>1. /\ status'[u] = status[u] /\ stream'[u] = stream[u]
          /\ call_stack'[u] = call_stack[u] /\ operands'[u] = operands[u]
      BY <2>2 DEF Elsewhere
    <3>2. ThreadPlanned(u)  BY <1>2, <1>3, <3>1
    <3>3. Depth(u)' = Depth(u) /\ Owed(u)' = Owed(u)  BY <3>1 DEF Depth, Owed
    <3> QED  BY <3>1, <3>2, <3>3 DEF ThreadPlanned
  <2> QED  BY <2>1, <2>2
<1>4. status'[Main] # "absent"
  BY <1>2, MainAssumption DEF Elsewhere, Live
<1>5. LeavesNothing'
  BY <1>2, MainAssumption DEF LeavesNothing, Elsewhere, Live
<1> QED  BY <1>2, <1>3, <1>4, <1>5 DEF OperandsInv

(* A step to another instruction of the same function.                      *)
LEMMA ThreadAdvances ==
  ASSUME ReadyInv, NEW t \in Threads, status[t] = "running", Live(status'[t]),
         program' = program, fault' = fault, Elsewhere(t), KeepsPlan(t),
         stream'[t].function = stream[t].function,
         NEW height,
         Continues(program, stream[t].function, stream'[t].program_counter, height),
         Len(operands'[t]) + Owed(t)'
           = Depth(t) - Height(program, stream[t].function, stream[t].program_counter) + height
  PROVE  OperandsInv'
<1>1. Balanced(program) /\ WellFormed(program) /\ Depth(t) \in Nat  BY ReadyFacts
<1>2. Owed(t) = 0  BY DEF Owed
<1>3. Depth(t) + Owed(t) = Depth(t)  BY <1>1, <1>2
<1>4. ASSUME NEW first, Planned(program, call_stack[t], stream[t], Depth(t) + Owed(t), first)
      PROVE  Planned(program, call_stack'[t], stream'[t], Len(operands'[t]) + Owed(t)', first)
  <2> DEFINE after == stream'[t]
             now == Len(operands'[t]) + Owed(t)'
             depth == Depth(t)
             s == stream[t]
  <2>1. Planned(program, call_stack'[t], s, depth, first)  BY <1>3, <1>4 DEF KeepsPlan
  <2>2. /\ after.function = s.function
        /\ Continues(program, s.function, after.program_counter, height)
        /\ now = depth - Height(program, s.function, s.program_counter) + height
    OBVIOUS
  <2> HIDE DEF after, now, depth, s
  <2> DEFINE cs == call_stack'[t]
  <2> HIDE DEF cs
  <2>3. Planned(program, cs, s, depth, first)  BY <2>1 DEF cs
  <2>4. Planned(program, cs, after, now, first)  BY <1>1, <2>2, <2>3, PlannedAdvance
  <2> QED  BY <2>4 DEF cs, after, now
<1> QED  BY <1>4, ThreadMoves DEF Live

LEMMA SameShift ==
  ASSUME NEW a \in Nat, NEW n \in Nat, NEW m \in Nat, NEW b \in Nat, NEW q \in Nat, NEW r \in Nat,
         m - n = r - q, NEW x, x = a - n + m, NEW y, y = b - q + r
  PROVE  x + 0 = a - b + y
OBVIOUS

(* The common case: a step to the next instruction that pops and pushes.    *)
LEMMA ThreadMovesOn ==
  ASSUME ReadyInv, NEW t \in Threads, NEW operations, Executes(t, operations),
         Operation(t) \notin {"ret", "goto", "if_t", "if_f", "invoke_static",
                              "invoke_dynamic", "new_thread", "chan_recv"},
         program' = program, fault' = fault, NextInstruction(t),
         NEW place \in {"running", "sending"}, status' = [status EXCEPT ![t] = place],
         KeepsPlan(t), \A u \in Threads \ {t} : call_stack'[u] = call_stack[u],
         NEW n \in Nat, ~ (Depth(t) < n), NEW S, NEW words \in Seq(S), PopPush(t, n, words),
         Len(words) - n = Pushes(t) - Pops(t)
  PROVE  OperandsInv'
<1> DEFINE f == stream[t].function
           pc == stream[t].program_counter
           height == Height(program, f, pc)
           next == height - Taken(Operation(t)) + Given(Operation(t))
<1>1. /\ Typed /\ Depth(t) \in Nat /\ OperandsTyped
      /\ DOMAIN status = Threads /\ DOMAIN stream = Threads
  BY ReadyFacts DEF Typed
<1>2. status[t] = "running"  BY Succeeds
<1>3. PICK first : Planned(program, call_stack[t], stream[t], Depth(t) + Owed(t), first)
  BY <1>2 DEF ReadyInv, OperandsInv, Live, ThreadPlanned
<1>4. height \in Nat /\ Continues(program, f, pc + 1, next)
  BY <1>2, <1>3, InstructionPlan
<1>5. /\ Taken(Operation(t)) = Pops(t) /\ Given(Operation(t)) = Pushes(t)
      /\ Pops(t) \in Nat /\ Pushes(t) \in Nat
  BY TakenAndGiven
<1>6. /\ Len(operands'[t]) = Depth(t) - n + Len(words)
      /\ \A u \in Threads \ {t} : operands'[u] = operands[u]
  BY <1>1, PopPushLength
<1>7. /\ stream'[t].function = f /\ stream'[t].program_counter = pc + 1
      /\ \A u \in Threads \ {t} : stream'[u] = stream[u] /\ status'[u] = status[u]
      /\ status'[t] = place
  <2>1. stream[t] \in StreamType  BY <1>1 DEF Typed, ThreadsTyped
  <2> QED  BY <1>1, <2>1 DEF NextInstruction, StreamType
<1>8. Elsewhere(t) /\ Live(status'[t])  BY <1>6, <1>7 DEF Elsewhere, Live
<1>9. Len(operands'[t]) + Owed(t)' = Depth(t) - height + next
  <2>1. Owed(t)' = 0  BY <1>7 DEF Owed
  <2>2. Len(words) \in Nat  OBVIOUS
  <2> DEFINE length == Len(operands'[t])
             pops == Pops(t)
             pushes == Pushes(t)
             depth == Depth(t)
             more == Len(words)
  <2>3. /\ height \in Nat /\ pops \in Nat /\ pushes \in Nat /\ depth \in Nat /\ more \in Nat
        /\ length = depth - n + more /\ more - n = pushes - pops
        /\ next = height - pops + pushes
    BY <1>1, <1>4, <1>5, <1>6, <2>2
  <2> HIDE DEF length, pops, pushes, depth, more, next, height
  <2>4. length + 0 = depth - height + next  BY <2>3, SameShift
  <2> QED  BY <2>1, <2>4 DEF length, depth
<1> HIDE DEF next
<1> QED  BY <1>2, <1>4, <1>7, <1>8, <1>9, ThreadAdvances

LEMMA SameStackKeepsPlan == ASSUME NEW t, call_stack' = call_stack  PROVE KeepsPlan(t)
BY DEF KeepsPlan

LEMMA PlainStep ==
  ASSUME ReadyInv, NEW t \in Threads, NEW operations, Executes(t, operations),
         Operation(t) \notin {"ret", "goto", "if_t", "if_f", "invoke_static",
                              "invoke_dynamic", "new_thread", "chan_recv"},
         UNCHANGED <<program, status, call_stack, fault>>, NextInstruction(t),
         NEW n \in Nat, ~ (Depth(t) < n), NEW S, NEW words \in Seq(S), PopPush(t, n, words),
         Len(words) - n = Pushes(t) - Pops(t)
  PROVE  OperandsInv'
<1>1. status[t] = "running"  BY Succeeds
<1>2. status' = [status EXCEPT ![t] = "running"]  BY <1>1, ReadyFacts, SameStatus DEF Typed
<1>3. KeepsPlan(t)  BY SameStackKeepsPlan
<1> QED  BY <1>2, <1>3, ThreadMovesOn

LEMMA OneWord == ASSUME NEW w  PROVE <<w>> \in Seq({w}) /\ Len(<<w>>) = 1
OBVIOUS

LEMMA TwoWords == ASSUME NEW v, NEW w  PROVE <<v, w>> \in Seq({v, w}) /\ Len(<<v, w>>) = 2
OBVIOUS

(* It pushes a word, or pops one and pushes two.                            *)
LEMMA PushStep ==
  ASSUME ReadyInv, NEW t \in Threads, NEW operations, Executes(t, operations),
         Operation(t) \notin {"ret", "goto", "if_t", "if_f", "invoke_static",
                              "invoke_dynamic", "new_thread", "chan_recv"},
         UNCHANGED <<program, status, call_stack, fault>>, NextInstruction(t),
         NEW w, PopPush(t, 0, <<w>>), Pushes(t) - Pops(t) = 1
  PROVE  OperandsInv'
<1> DEFINE words == <<w>>
           n == 0
<1>1. n \in Nat /\ words \in Seq({w}) /\ Len(words) - n = 1  BY OneWord
<1>2. ~ (Depth(t) < n)  BY ReadyFacts
<1>3. PopPush(t, n, words)  OBVIOUS
<1> HIDE DEF n, words
<1> QED  BY <1>1, <1>2, <1>3, PlainStep

LEMMA LoadOperands == ASSUME ReadyInv, NEW t \in Threads, Load(t)  PROVE OperandsInv'
<1> DEFINE w == LoadLocal(call_stack[t], Index(t))
<1>1. /\ Executes(t, {"load"}) /\ PopPush(t, 0, <<w>>) /\ NextInstruction(t)
      /\ UNCHANGED <<program, status, call_stack, fault>>
  BY DEF Load
<1>2. Operation(t) = "load" /\ Pops(t) = 0 /\ Pushes(t) = 1
  BY <1>1, Succeeds, Counts
<1> HIDE DEF w
<1> QED  BY <1>1, <1>2, PushStep

LEMMA StoreOperands == ASSUME ReadyInv, NEW t \in Threads, Store(t)  PROVE OperandsInv'
<1> DEFINE cs == StoreLocal(call_stack[t], Index(t), Operand(t, 1))
<1>1. /\ Executes(t, {"store"}) /\ PopPush(t, 1, <<>>) /\ NextInstruction(t)
      /\ call_stack' = [call_stack EXCEPT ![t] = cs]
      /\ UNCHANGED <<program, status, fault>>
  BY DEF Store
<1>2. /\ status[t] = "running" /\ ~ AtEnd(t) /\ Operation(t) = "store"
      /\ ~ (Depth(t) < 1) /\ Pops(t) = 1 /\ Pushes(t) = 0
  BY <1>1, Succeeds, Counts
<1>3. /\ WellFormed(program) /\ SlotsFit(program) /\ IInv /\ Typed
      /\ DOMAIN call_stack = Threads /\ Shaped(call_stack[t])
  BY ReadyFacts
<1>4. Index(t) \in Nat
  <2> DEFINE f == stream[t].function
             j == stream[t].program_counter + 1
  <2>1. /\ f \in Indices(program) /\ j \in DOMAIN CodeOf(program, f)
        /\ Current(t) = CodeOf(program, f)[j]
    BY <1>2, <1>3, AtInstruction
  <2>2. Current(t).opcode = "store"  BY <1>2, <1>3, OpcodeOf DEF Natives
  <2> HIDE DEF f, j
  <2> QED  BY <1>3, <2>1, <2>2, LocalsFit DEF Index
<1>5. KeepsPlan(t) /\ \A u \in Threads \ {t} : call_stack'[u] = call_stack[u]
  <2>1. call_stack'[t] = cs /\ \A u \in Threads \ {t} : call_stack'[u] = call_stack[u]
    BY <1>1, <1>3
  <2>2. \A s, depth, first : Planned(program, call_stack[t], s, depth, first)
                               => Planned(program, cs, s, depth, first)
    BY <1>3, <1>4, PlannedStoreLocal
  <2> QED  BY <2>1, <2>2 DEF KeepsPlan
<1>6. status' = [status EXCEPT ![t] = "running"]  BY <1>1, <1>2, <1>3, SameStatus DEF Typed
<1> HIDE DEF cs
<1> QED  BY <1>1, <1>2, <1>5, <1>6, NoWord, ThreadMovesOn

LEMMA ShuffleOperands == ASSUME ReadyInv, NEW t \in Threads, Shuffle(t)  PROVE OperandsInv'
<1>1. NextInstruction(t) /\ UNCHANGED <<program, status, call_stack, fault>>
  BY DEF Shuffle
<1>2. CASE Executes(t, {"push"}) /\ PopPush(t, 0, <<Index(t)>>)
  <2>1. Operation(t) = "push" /\ Pops(t) = 0 /\ Pushes(t) = 1
    BY <1>2, Succeeds, Counts
  <2> QED  BY <1>1, <1>2, <2>1, PushStep
<1>3. CASE Executes(t, {"pop"}) /\ PopPush(t, 1, <<>>)
  <2>1. Operation(t) = "pop" /\ ~ (Depth(t) < 1) /\ Pops(t) = 1 /\ Pushes(t) = 0
    BY <1>3, Succeeds, Counts
  <2> QED  BY <1>1, <1>3, <2>1, NoWord, PlainStep
<1>4. CASE Executes(t, {"dup"}) /\ PopPush(t, 0, <<Operand(t, 1)>>)
  <2>1. Operation(t) = "dup" /\ ~ (Depth(t) < 1) /\ Pops(t) = 1 /\ Pushes(t) = 2
    BY <1>4, Succeeds, Counts
  <2> QED  BY <1>1, <1>4, <2>1, PushStep
<1>5. CASE Executes(t, {"swap"}) /\ PopPush(t, 2, <<Operand(t, 1), Operand(t, 2)>>)
  <2>1. Operation(t) = "swap" /\ ~ (Depth(t) < 2) /\ Pops(t) = 2 /\ Pushes(t) = 2
    BY <1>5, Succeeds, Counts
  <2> QED  BY <1>1, <1>5, <2>1, TwoWords, PlainStep
<1> QED  BY <1>2, <1>3, <1>4, <1>5 DEF Shuffle

LEMMA NoJump ==
  {"ret", "goto", "if_t", "if_f", "invoke_static", "invoke_dynamic", "new_thread", "chan_recv"}
    \cap (Binary \cup Unary) = {}
BY DEF Binary, Unary

LEMMA CalculateOperands == ASSUME ReadyInv, NEW t \in Threads, Calculate(t)  PROVE OperandsInv'
<1>1. NextInstruction(t) /\ UNCHANGED <<program, status, call_stack, fault>>
  BY DEF Calculate
<1>2. CASE /\ Executes(t, Binary)
           /\ PopPush(t, 2, <<BinaryResult(Operation(t), Operand(t, 2), Operand(t, 1))>>)
  <2> DEFINE w == BinaryResult(Operation(t), Operand(t, 2), Operand(t, 1))
  <2>1. Operation(t) \in Binary /\ ~ (Depth(t) < 2) /\ Pops(t) = 2 /\ Pushes(t) = 1
    BY <1>2, Succeeds, Counts
  <2>2. PopPush(t, 2, <<w>>)  BY <1>2
  <2> HIDE DEF w
  <2> QED  BY <1>1, <1>2, <2>1, <2>2, NoJump, OneWord, PlainStep
<1>3. CASE /\ Executes(t, Unary)
           /\ PopPush(t, 1, <<UnaryResult(Operation(t), Operand(t, 1))>>)
  <2> DEFINE w == UnaryResult(Operation(t), Operand(t, 1))
  <2>1. Operation(t) \in Unary /\ ~ (Depth(t) < 1) /\ Pops(t) = 1 /\ Pushes(t) = 1
    BY <1>3, Succeeds, Counts
  <2>2. PopPush(t, 1, <<w>>)  BY <1>3
  <2> HIDE DEF w
  <2> QED  BY <1>1, <1>3, <2>1, <2>2, NoJump, OneWord, PlainStep
<1> QED  BY <1>2, <1>3 DEF Calculate

LEMMA WLoadOperands == ASSUME ReadyInv, NEW t \in Threads, WLoad(t)  PROVE OperandsInv'
<1> DEFINE w == heap[Operand(t, 1) + Index(t)]
<1>1. /\ Executes(t, {"wload"}) /\ PopPush(t, 1, <<w>>) /\ NextInstruction(t)
      /\ UNCHANGED <<program, status, call_stack, fault>>
  BY DEF WLoad
<1>2. Operation(t) = "wload" /\ ~ (Depth(t) < 1) /\ Pops(t) = 1 /\ Pushes(t) = 1
  BY <1>1, Succeeds, Counts
<1> HIDE DEF w
<1> QED  BY <1>1, <1>2, OneWord, PlainStep

LEMMA WStoreOperands == ASSUME ReadyInv, NEW t \in Threads, WStore(t)  PROVE OperandsInv'
<1>1. /\ Executes(t, {"wstore"}) /\ PopPush(t, 2, <<>>) /\ NextInstruction(t)
      /\ UNCHANGED <<program, status, call_stack, fault>>
  BY DEF WStore
<1>2. Operation(t) = "wstore" /\ ~ (Depth(t) < 2) /\ Pops(t) = 2 /\ Pushes(t) = 0
  BY <1>1, Succeeds, Counts
<1> QED  BY <1>1, <1>2, NoWord, PlainStep

LEMMA NewOperands == ASSUME ReadyInv, NEW t \in Threads, New(t)  PROVE OperandsInv'
<1>1. /\ Executes(t, {"new"}) /\ PopPush(t, 0, <<NewAddress>>) /\ NextInstruction(t)
      /\ UNCHANGED <<program, status, call_stack, fault>>
  BY DEF New
<1>2. Operation(t) = "new" /\ Pops(t) = 0 /\ Pushes(t) = 1
  BY <1>1, Succeeds, Counts
<1> QED  BY <1>1, <1>2, PushStep

LEMMA NewChanOperands == ASSUME ReadyInv, NEW t \in Threads, NewChan(t)  PROVE OperandsInv'
<1>1. /\ Executes(t, {"new_chan"}) /\ PopPush(t, 1, <<NewAddress>>) /\ NextInstruction(t)
      /\ UNCHANGED <<program, status, call_stack, fault>>
  BY DEF NewChan
<1>2. Operation(t) = "new_chan" /\ ~ (Depth(t) < 1) /\ Pops(t) = 1 /\ Pushes(t) = 1
  BY <1>1, Succeeds, Counts
<1> QED  BY <1>1, <1>2, OneWord, PlainStep

LEMMA NewSliceOperands == ASSUME ReadyInv, NEW t \in Threads, NewSlice(t)  PROVE OperandsInv'
<1>1. /\ Executes(t, {"new_slice"}) /\ PopPush(t, 1, <<NewAddress>>) /\ NextInstruction(t)
      /\ UNCHANGED <<program, status, call_stack, fault>>
  BY DEF NewSlice
<1>2. Operation(t) = "new_slice" /\ ~ (Depth(t) < 1) /\ Pops(t) = 1 /\ Pushes(t) = 1
  BY <1>1, Succeeds, Counts
<1> QED  BY <1>1, <1>2, OneWord, PlainStep

LEMMA PrintValueOperands == ASSUME ReadyInv, NEW t \in Threads, PrintValue(t)  PROVE OperandsInv'
<1>1. /\ PopPush(t, 1, <<>>) /\ NextInstruction(t)
      /\ UNCHANGED <<program, status, call_stack, fault>>
  BY DEF PrintValue
<1>2. PICK operation \in {"iprint", "fprint", "sprint"} :
        Executes(t, {operation}) \/ Executes(t, {"iprint", "fprint"})
  BY DEF PrintValue
<1>3. Executes(t, {"iprint", "fprint", "sprint"})  BY <1>2 DEF Executes
<1>4. /\ Operation(t) \in {"iprint", "fprint", "sprint"}
      /\ ~ (Depth(t) < 1) /\ Pops(t) = 1 /\ Pushes(t) = 0
  BY <1>3, Succeeds, Counts
<1> QED  BY <1>1, <1>3, <1>4, NoWord, PlainStep

LEMMA ChanSendOperands == ASSUME ReadyInv, NEW t \in Threads, ChanSend(t)  PROVE OperandsInv'
<1>1. Executes(t, {"chan_send"}) /\ Enter(t, "sending", Unsigned(heap[Operand(t, 2)]), Operand(t, 1))
  BY DEF ChanSend
<1>2. /\ status[t] = "running" /\ Operation(t) = "chan_send"
      /\ ~ (Depth(t) < 2) /\ Pops(t) = 2 /\ Pushes(t) = 0
  BY <1>1, Succeeds, Counts
<1>3. /\ PopPush(t, 2, <<>>) /\ NextInstruction(t) /\ status' = [status EXCEPT ![t] = "sending"]
      /\ UNCHANGED <<program, call_stack, fault>>
  BY <1>1, <1>2 DEF Enter
<1>4. KeepsPlan(t)  BY <1>3, SameStackKeepsPlan
<1> QED  BY <1>1, <1>2, <1>3, <1>4, NoWord, ThreadMovesOn

LEMMA HasPlan ==
  ASSUME ReadyInv, NEW t \in Threads, Live(status[t])
  PROVE  \E first : /\ Planned(program, call_stack[t], stream[t], Depth(t) + Owed(t), first)
                    /\ t = Main => first = program.main
BY DEF ReadyInv, OperandsInv, ThreadPlanned

(* Where a thread goes on, and what stays as it was.                        *)
LEMMA Jumps ==
  ASSUME ReadyInv, NEW t \in Threads, NEW f, NEW pc, JumpTo(t, f, pc)
  PROVE  /\ stream'[t] = [function |-> f, program_counter |-> pc]
         /\ stream'[t].function = f /\ stream'[t].program_counter = pc
         /\ \A u \in Threads \ {t} : stream'[u] = stream[u]
BY ReadyFacts DEF JumpTo

LEMMA NextJumps ==
  ASSUME ReadyInv, NEW t \in Threads, NextInstruction(t)
  PROVE  /\ stream'[t].function = stream[t].function
         /\ stream'[t].program_counter = stream[t].program_counter + 1
         /\ \A u \in Threads \ {t} : stream'[u] = stream[u]
<1>1. stream[t] \in StreamType /\ DOMAIN stream = Threads
  BY ReadyFacts DEF Typed, ThreadsTyped
<1> QED  BY <1>1 DEF NextInstruction, StreamType

LEMMA BranchOperands == ASSUME ReadyInv, NEW t \in Threads, Branch(t)  PROVE OperandsInv'
<1> DEFINE f == stream[t].function
           pc == stream[t].program_counter
           rest == Height(program, f, pc) - Taken(Operation(t))
<1>1. UNCHANGED <<program, status, call_stack, fault>>  BY DEF Branch
<1>2. status[t] = "running" /\ Operation(t) \in {"goto", "if_t", "if_f"}
  BY Succeeds DEF Branch
<1>3. PICK first : Planned(program, call_stack[t], stream[t], Depth(t) + Owed(t), first)
  BY <1>2, HasPlan DEF Live
<1>4. /\ rest \in Nat /\ Height(program, f, pc) \in Nat
      /\ Operation(t) = "goto" => Continues(program, f, Index(t), rest)
      /\ Operation(t) \in {"if_t", "if_f"} =>
           Continues(program, f, Index(t), rest) /\ Continues(program, f, pc + 1, rest)
  BY <1>2, <1>3, InstructionPlan
<1>5. /\ stream'[t].function = f
      /\ Continues(program, f, stream'[t].program_counter, rest)
      /\ \A u \in Threads \ {t} : stream'[u] = stream[u]
  <2>1. CASE JumpTo(t, f, Index(t))
    <3>1. Continues(program, f, Index(t), rest)  BY <1>2, <1>4
    <3> QED  BY <2>1, <3>1, Jumps
  <2>2. CASE NextInstruction(t) /\ Operation(t) \in {"if_t", "if_f"}
    <3>1. Continues(program, f, pc + 1, rest)  BY <2>2, <1>4
    <3> QED  BY <2>2, <3>1, NextJumps
  <2>3. JumpTo(t, f, Index(t)) \/ (NextInstruction(t) /\ Operation(t) \in {"if_t", "if_f"})
    BY DEF Branch, Executes
  <2> QED  BY <2>1, <2>2, <2>3
<1>6. /\ Len(operands'[t]) = Depth(t) - Taken(Operation(t))
      /\ \A u \in Threads \ {t} : operands'[u] = operands[u]
  <2> DEFINE n == Taken(Operation(t))
  <2>1. Pops(t) = n /\ n \in Nat  BY <1>2, TakenAndGiven
  <2>2. Operation(t) = "goto" => n = 0  BY <2>1, Counts
  <2>3. Operation(t) \in {"if_t", "if_f"} => n = 1  BY <2>1, Counts
  <2>4. PopPush(t, n, <<>>) /\ ~ (Depth(t) < n)
    <3> HIDE DEF n
    <3>1. CASE Executes(t, {"goto"}) /\ PopPush(t, 0, <<>>)
      BY <3>1, <2>1, <2>2, Succeeds
    <3>2. CASE Executes(t, {"if_t"}) /\ PopPush(t, 1, <<>>)
      BY <3>2, <2>1, <2>3, Succeeds
    <3>3. CASE Executes(t, {"if_f"}) /\ PopPush(t, 1, <<>>)
      BY <3>3, <2>1, <2>3, Succeeds
    <3> QED  BY <3>1, <3>2, <3>3 DEF Branch
  <2>5. OperandsTyped  BY ReadyFacts DEF Typed
  <2> HIDE DEF n
  <2>6. /\ Len(operands'[t]) = Depth(t) - n
        /\ \A u \in Threads \ {t} : operands'[u] = operands[u]
    BY <2>1, <2>4, <2>5, PopLength
  <2> QED  BY <2>6 DEF n
<1>7. Elsewhere(t) /\ KeepsPlan(t) /\ status'[t] = "running"
  BY <1>1, <1>2, <1>5, <1>6, SameStackKeepsPlan DEF Elsewhere
<1>8. Len(operands'[t]) + Owed(t)' = Depth(t) - Height(program, f, pc) + rest
  <2> DEFINE height == Height(program, f, pc)
             depth == Depth(t)
             taken == Taken(Operation(t))
             length == Len(operands'[t])
  <2>1. Owed(t)' = 0  BY <1>7 DEF Owed
  <2>2. /\ height \in Nat /\ depth \in Nat /\ taken \in Nat
        /\ length = depth - taken /\ rest = height - taken
    BY <1>2, <1>4, <1>6, TakenAndGiven, ReadyFacts
  <2> HIDE DEF height, depth, taken, length, rest
  <2>3. length + 0 = depth - height + rest  BY <2>2
  <2> QED  BY <2>1, <2>3 DEF height, depth, length
<1> HIDE DEF rest
<1> QED  BY <1>1, <1>2, <1>5, <1>7, <1>8, ThreadAdvances DEF Live

(* chan_recv gives its item later: until then the thread owes it.           *)
LEMMA ChanRecvOperands == ASSUME ReadyInv, NEW t \in Threads, ChanRecv(t)  PROVE OperandsInv'
<1> DEFINE f == stream[t].function
           pc == stream[t].program_counter
           height == Height(program, f, pc)
           next == height - Taken(Operation(t)) + 1
<1>1. Executes(t, {"chan_recv"}) /\ Enter(t, "receiving", Unsigned(heap[Operand(t, 1)]), 0)
  BY DEF ChanRecv
<1>2. /\ status[t] = "running" /\ Operation(t) = "chan_recv"
      /\ ~ (Depth(t) < 1) /\ Pops(t) = 1
  BY <1>1, Succeeds, Counts
<1>3. /\ PopPush(t, 1, <<>>) /\ NextInstruction(t)
      /\ status' = [status EXCEPT ![t] = "receiving"] /\ UNCHANGED <<program, call_stack, fault>>
  BY <1>1, <1>2 DEF Enter
<1>4. PICK first : Planned(program, call_stack[t], stream[t], Depth(t) + Owed(t), first)
  BY <1>2, HasPlan DEF Live
<1>5. height \in Nat /\ Continues(program, f, pc + 1, next)
  BY <1>2, <1>4, InstructionPlan
<1>6. OperandsTyped /\ Depth(t) \in Nat /\ DOMAIN status = Threads  BY ReadyFacts DEF Typed
<1>7. /\ Len(operands'[t]) = Depth(t) - 1
      /\ \A u \in Threads \ {t} : operands'[u] = operands[u]
  BY <1>2, <1>3, <1>6, PopLength
<1>8. /\ stream'[t].function = f /\ stream'[t].program_counter = pc + 1
      /\ \A u \in Threads \ {t} : stream'[u] = stream[u]
  BY <1>3, NextJumps
<1>9. Elsewhere(t) /\ KeepsPlan(t) /\ status'[t] = "receiving"
  BY <1>3, <1>6, <1>7, <1>8, SameStackKeepsPlan DEF Elsewhere
<1>10. Len(operands'[t]) + Owed(t)' = Depth(t) - height + next
  <2>1. Owed(t)' = 1  BY <1>9 DEF Owed
  <2>2. Taken(Operation(t)) = 1  BY <1>2, TakenAndGiven
  <2>3. next = height - 1 + 1  BY <2>2
  <2> HIDE DEF next, height
  <2> QED  BY <1>5, <1>6, <1>7, <2>1, <2>3
<1> HIDE DEF next
<1> QED  BY <1>2, <1>3, <1>5, <1>8, <1>9, <1>10, ThreadAdvances DEF Live

LEMMA SendOperands == ASSUME ReadyInv, NEW t \in Threads, Send(t)  PROVE OperandsInv'
<1>1. /\ status[t] = "sending" /\ operands' = operands
      /\ status' = [status EXCEPT ![t] = "running"]
      /\ UNCHANGED <<program, stream, call_stack, fault>>
  BY DEF Send, Leave
<1>2. /\ status'[t] = "running"
      /\ \A u \in Threads \ {t} : status'[u] = status[u]
  BY <1>1, ReadyFacts
<1>3. Elsewhere(t)  BY <1>1, <1>2 DEF Elsewhere
<1>4. Len(operands'[t]) + Owed(t)' = Depth(t) + Owed(t)  BY <1>1, <1>2 DEF Owed, Depth
<1> QED  BY <1>1, <1>2, <1>3, <1>4, ThreadMoves DEF Live

LEMMA ReceiveOperands == ASSUME ReadyInv, NEW t \in Threads, Receive(t)  PROVE OperandsInv'
<1> DEFINE w == Head(Channel(t).buffer)
           words == <<w>>
           n == 0
<1>1. /\ status[t] = "receiving" /\ PopPush(t, n, words)
      /\ status' = [status EXCEPT ![t] = "running"]
      /\ UNCHANGED <<program, stream, call_stack, fault>>
  BY DEF Receive, Leave
<1> HIDE DEF w
<1>2. /\ status'[t] = "running"
      /\ \A u \in Threads \ {t} : status'[u] = status[u]
  BY <1>1, ReadyFacts
<1>3. OperandsTyped /\ Depth(t) \in Nat /\ n \in Nat /\ n = 0  BY ReadyFacts DEF Typed
<1>4. words \in Seq({w}) /\ Len(words) = 1  BY OneWord
<1> HIDE DEF words, n
<1>5. ~ (Depth(t) < n)  BY <1>3
<1>6. /\ Len(operands'[t]) = Depth(t) - n + Len(words)
      /\ \A u \in Threads \ {t} : operands'[u] = operands[u]
  BY <1>1, <1>3, <1>4, <1>5, PopPushLength
<1>7. Elsewhere(t)  BY <1>1, <1>2, <1>6 DEF Elsewhere
<1>8. Len(operands'[t]) + Owed(t)' = Depth(t) + Owed(t)
  <2>1. Owed(t)' = 0 /\ Owed(t) = 1  BY <1>1, <1>2 DEF Owed
  <2> QED  BY <2>1, <1>3, <1>4, <1>6
<1> QED  BY <1>1, <1>2, <1>7, <1>8, ThreadMoves DEF Live

-----------------------------------------------------------------------------
(* Calls and returns.                                                       *)

(* A call, of a function that takes its arguments from what is on the stack.*)
LEMMA CallOperands ==
  ASSUME ReadyInv, NEW t \in Threads, status[t] = "running",
         UNCHANGED <<program, status, fault>>,
         NEW index \in Indices(program), JumpTo(t, index, 0),
         FrameFits(call_stack[t], 0), Calls(Current(t), index),
         NEW cs, call_stack' = [call_stack EXCEPT ![t] = cs],
         \A s, depth, first : Planned(program, Called(t, index), s, depth, first)
                                => Planned(program, cs, s, depth, first),
         NEW left \in Nat,
         Continues(program, stream[t].function, stream[t].program_counter + 1,
                   left + PlanOf(program, index).gives),
         \A u \in Threads \ {t} : operands'[u] = operands[u],
         Len(operands'[t]) = Depth(t) - Height(program, stream[t].function, stream[t].program_counter)
                               + left + PlanOf(program, index).takes
  PROVE  OperandsInv'
<1> DEFINE start == [function |-> index, program_counter |-> 0]
           length == Len(operands'[t])
           old == call_stack[t]
           here == stream[t]
           depth == Depth(t)
<1>1. /\ Balanced(program) /\ WellFormed(program) /\ Depth(t) \in Nat /\ Shaped(old)
      /\ DOMAIN call_stack = Threads /\ Typed
  BY ReadyFacts
<1>2. /\ stream'[t] = start /\ call_stack'[t] = cs /\ status'[t] = status[t]
      /\ \A u \in Threads \ {t} : stream'[u] = stream[u] /\ call_stack'[u] = call_stack[u]
  BY <1>1, Jumps
<1>3. Owed(t) = 0 /\ Owed(t)' = 0  BY <1>2 DEF Owed
<1>4. /\ PlanOf(program, index).takes \in Nat /\ PlanOf(program, index).gives \in Nat
  BY <1>1, PlanTypes
<1>5. Called(t, index) = PushFrame(old, index, VarcOf(program, index), here.program_counter + 1)
  BY DEF Called, Function, VarcOf
<1>6. Calls(CodeOf(program, here.function)[here.program_counter + 1], index)
  BY DEF Current, Code, Function, CodeOf
<1>7. ASSUME NEW first, Planned(program, call_stack[t], stream[t], Depth(t) + Owed(t), first)
      PROVE  Planned(program, call_stack'[t], stream'[t], Len(operands'[t]) + Owed(t)', first)
  <2>1. Planned(program, old, here, depth, first)
    <3>1. Depth(t) + Owed(t) = Depth(t)  BY <1>1, <1>3
    <3> QED  BY <1>7, <3>1
  <2>2. Height(program, here.function, here.program_counter) \in Nat
    BY <1>1, <2>1, PlannedTypes
  <2>3. /\ length = depth - Height(program, here.function, here.program_counter)
                      + left + PlanOf(program, index).takes
        /\ Continues(program, here.function, here.program_counter + 1,
                     left + PlanOf(program, index).gives)
        /\ FrameFits(old, 0)
    OBVIOUS
  <2>4. length + 0 = length
    <3> DEFINE height == Height(program, here.function, here.program_counter)
               takes == PlanOf(program, index).takes
    <3>1. height \in Nat /\ depth \in Nat /\ takes \in Nat
          /\ length = depth - height + left + takes
      BY <1>1, <1>4, <2>2, <2>3
    <3> HIDE DEF height, depth, takes, length
    <3> QED  BY <3>1
  <2> HIDE DEF old, here, depth, start, length
  <2>5. Planned(program, Called(t, index), start, length, first)
    <3> DEFINE called == Called(t, index)
    <3>1. called = PushFrame(old, index, VarcOf(program, index), here.program_counter + 1)
      BY <1>5
    <3> HIDE DEF called
    <3>2. Planned(program, called, start, length, first)
      BY <1>1, <1>6, <2>1, <2>3, <3>1, PlannedPush DEF start
    <3> QED  BY <3>2 DEF called
  <2>6. Planned(program, cs, start, length, first)  BY <2>5
  <2> QED  BY <1>2, <1>3, <2>4, <2>6 DEF length
<1>8. Elsewhere(t)  BY <1>2 DEF Elsewhere
<1> QED  BY <1>2, <1>7, <1>8, ThreadMoves DEF Live

LEMMA InvokeStaticOperands ==
  ASSUME ReadyInv, NEW t \in Threads, InvokeStatic(t)  PROVE OperandsInv'
<1> DEFINE cs == Called(t, Index(t))
           height == Height(program, stream[t].function, stream[t].program_counter)
           takes == PlanOf(program, Index(t)).takes
           gives == PlanOf(program, Index(t)).gives
           left == height - takes
<1>1. /\ Executes(t, {"invoke_static"}) /\ JumpTo(t, Index(t), 0)
      /\ call_stack' = [call_stack EXCEPT ![t] = cs]
      /\ UNCHANGED <<program, status, operands, fault>>
  BY DEF InvokeStatic
<1>2. /\ status[t] = "running" /\ ~ AtEnd(t) /\ Operation(t) = "invoke_static"
      /\ ~ Undefined(t) /\ Pops(t) = 0
  BY <1>1, Succeeds, Counts
<1>3. FrameFits(call_stack[t], 0)  BY <1>2 DEF Undefined
<1>4. /\ Index(t) \in Indices(program) /\ IInv /\ SlotsFit(program) /\ WellFormed(program)
      /\ Balanced(program) /\ Depth(t) \in Nat
  BY <1>2, InstructionWords, ReadyFacts DEF Functions, ReadyInv
<1>5. Calls(Current(t), Index(t))
  BY <1>2, <1>4, OpcodeOf DEF Calls, Natives, Index
<1>6. PICK first : Planned(program, call_stack[t], stream[t], Depth(t) + Owed(t), first)
  BY <1>2, HasPlan DEF Live
<1>7. Taken(Operation(t)) = 0  BY <1>2, TakenAndGiven
<1>8. /\ height \in Nat /\ takes <= height - 0
      /\ Continues(program, stream[t].function, stream[t].program_counter + 1,
                   height - 0 - takes + gives)
  BY <1>2, <1>6, <1>7, InstructionPlan
<1>9. takes \in Nat /\ gives \in Nat  BY <1>4, PlanTypes
<1>10. Continues(program, stream[t].function, stream[t].program_counter + 1, left + gives)
       /\ left \in Nat /\ Depth(t) = Depth(t) - height + left + takes
  <2> HIDE DEF height, takes, gives
  <2>1. left \in Nat /\ height - 0 - takes + gives = left + gives
        /\ Depth(t) = Depth(t) - height + left + takes
    BY <1>4, <1>8, <1>9
  <2> QED  BY <1>8, <2>1
<1>11. Len(operands'[t]) = Depth(t)  BY <1>1 DEF Depth
<1> HIDE DEF cs, left
<1>12. \A s, depth, f : Planned(program, Called(t, Index(t)), s, depth, f)
                          => Planned(program, cs, s, depth, f)
  BY DEF cs
<1> QED  BY <1>1, <1>2, <1>3, <1>4, <1>5, <1>10, <1>11, <1>12, CallOperands

(* The closure on top of the stack is taken, and the function it is of.     *)
LEMMA InvokeDynamicOperands ==
  ASSUME ReadyInv, CallsFit, NEW t \in Threads, InvokeDynamic(t)  PROVE OperandsInv'
<1> DEFINE a == Operand(t, 1)
           index == ClosureIndex(a)
           pushed == Called(t, index)
           cs == StoreLocals(pushed, Captures(a))
           height == Height(program, stream[t].function, stream[t].program_counter)
           takes == PlanOf(program, index).takes
           gives == PlanOf(program, index).gives
           left == height - 1 - takes
<1>1. /\ Executes(t, {"invoke_dynamic"}) /\ PopPush(t, 1, <<>>) /\ JumpTo(t, index, 0)
      /\ call_stack' = [call_stack EXCEPT ![t] = cs]
      /\ UNCHANGED <<program, status, fault>>
  BY DEF InvokeDynamic
<1>2. /\ status[t] = "running" /\ fault = "none" /\ ~ AtEnd(t) /\ Operation(t) = "invoke_dynamic"
      /\ ~ Undefined(t) /\ ~ (Depth(t) < 1)
  BY <1>1, Succeeds, Counts
<1>3. HoldsClosure(a) /\ FrameFits(call_stack[t], Len(Captures(a)))  BY <1>2 DEF Undefined
<1>4. /\ index \in Indices(program) /\ IInv /\ SlotsFit(program) /\ WellFormed(program)
      /\ Balanced(program) /\ Depth(t) \in Nat /\ OperandsTyped /\ Shaped(call_stack[t])
  BY <1>3, ReadyFacts DEF Functions, HoldsClosure, Typed
<1>5. Calls(Current(t), index)
  BY <1>2, <1>4, OpcodeOf DEF Calls, Natives
<1>6. PICK first : Planned(program, call_stack[t], stream[t], Depth(t) + Owed(t), first)
  BY <1>2, HasPlan DEF Live
<1>7. /\ height \in Nat /\ stream[t].function \in Indices(program)
      /\ stream[t].program_counter \in Reached(program, stream[t].function)
  BY <1>2, <1>6, InstructionPlan
<1>8. takes < height /\ Continues(program, stream[t].function, stream[t].program_counter + 1,
                                  height - 1 - takes + gives)
  <2>1. Ready(t) /\ Depth(t) > 0  BY <1>2, <1>4 DEF Ready
  <2> QED  BY <1>2, <1>3, <1>4, <1>7, <2>1 DEF CallsFit, Agrees
<1>9. takes \in Nat /\ gives \in Nat  BY <1>4, PlanTypes
<1>10. /\ Len(operands'[t]) = Depth(t) - 1
       /\ \A u \in Threads \ {t} : operands'[u] = operands[u]
  BY <1>1, <1>2, <1>4, PopLength
<1>11. Continues(program, stream[t].function, stream[t].program_counter + 1, left + gives)
       /\ left \in Nat /\ Depth(t) - 1 = Depth(t) - height + left + takes
  <2> HIDE DEF height, takes, gives
  <2>1. left \in Nat /\ height - 1 - takes + gives = left + gives
        /\ Depth(t) - 1 = Depth(t) - height + left + takes
    BY <1>4, <1>7, <1>8, <1>9
  <2> QED  BY <1>8, <2>1
<1>12. FrameFits(call_stack[t], 0)
  <2>1. Len(Captures(a)) \in Nat  BY <1>4, CapturesOf
  <2>2. HasChain(program, call_stack[t], stream[t])  BY <1>2, <1>4, AtInstruction
  <2> QED  BY <1>3, <1>4, <2>1, <2>2, FrameRoom, TopOfChain
<1>13. Shaped(pushed)  BY <1>4, KeepShape DEF Called
<1>14. DOMAIN Captures(a) = 1 .. program.functions[index + 1].capc
       /\ program.functions[index + 1].capc \in Nat
  BY <1>4, CapturesOf
<1> HIDE DEF a, left, pushed, index
<1>15. \A s, depth, f : Planned(program, pushed, s, depth, f) => Planned(program, cs, s, depth, f)
  BY <1>4, <1>13, <1>14, PlannedStoreLocals
<1> HIDE DEF cs
<1> QED
  BY <1>1, <1>2, <1>4, <1>5, <1>10, <1>11, <1>12, <1>15, CallOperands DEF pushed

LEMMA NoOperands ==
  ASSUME OperandsTyped, NEW t \in Threads, Depth(t) = 0  PROVE operands[t] = <<>>
<1>1. operands[t] \in Seq(Word) /\ Len(operands[t]) = 0  BY DEF OperandsTyped, Depth
<1> QED  BY <1>1

(* A thread that ends leaves the others as they are.                        *)
LEMMA EndOperands ==
  ASSUME ReadyInv, NEW t \in Threads, status' = [status EXCEPT ![t] = "ended"],
         UNCHANGED <<program, operands, fault>>,
         \A u \in Threads \ {t} : stream'[u] = stream[u] /\ call_stack'[u] = call_stack[u],
         t = Main => operands[Main] = <<>>
  PROVE  OperandsInv'
<1>1. BalancedCode /\ OperandsInv /\ DOMAIN status = Threads  BY ReadyFacts DEF ReadyInv
<1>2. /\ fault # "operand stack underflow!" /\ status[Main] # "absent"
      /\ \A u \in Threads : Live(status[u]) => ThreadPlanned(u)
      /\ LeavesNothing
  BY <1>1 DEF OperandsInv
<1>3. status'[t] = "ended" /\ \A u \in Threads \ {t} : status'[u] = status[u]  BY <1>1
<1>4. ASSUME NEW u \in Threads, Live(status'[u])  PROVE ThreadPlanned(u)'
  <2>1. u # t  BY <1>3, <1>4 DEF Live
  <2>2. status'[u] = status[u] /\ stream'[u] = stream[u] /\ call_stack'[u] = call_stack[u]
    BY <1>3, <2>1
  <2>3. ThreadPlanned(u)  BY <1>2, <1>4, <2>2
  <2>4. Depth(u)' = Depth(u) /\ Owed(u)' = Owed(u)  BY <2>2 DEF Depth, Owed
  <2> QED  BY <2>2, <2>3, <2>4 DEF ThreadPlanned
<1>5. status'[Main] # "absent"  BY <1>2, <1>3, MainAssumption
<1>6. LeavesNothing'  BY <1>2, <1>3, MainAssumption DEF LeavesNothing
<1> QED  BY <1>2, <1>4, <1>5, <1>6 DEF OperandsInv

LEMMA RetOperands == ASSUME ReadyInv, NEW t \in Threads, Ret(t)  PROVE OperandsInv'
<1> DEFINE cs == call_stack[t]
           caller == PopFrame(cs)
           back == [function |-> FunctionIndex(caller, caller.frame_pointer),
                    program_counter |-> SavedProgramCounter(cs, cs.frame_pointer)]
           here == stream[t]
           depth == Depth(t)
<1>1. /\ Executes(t, {"ret"}) /\ call_stack' = [call_stack EXCEPT ![t] = caller]
      /\ UNCHANGED <<program, operands, fault>>
  BY DEF Ret
<1>2. status[t] = "running" /\ Operation(t) = "ret"  BY <1>1, Succeeds
<1>3. /\ Balanced(program) /\ WellFormed(program) /\ Depth(t) \in Nat /\ Shaped(cs)
      /\ DOMAIN call_stack = Threads /\ DOMAIN stream = Threads /\ OperandsTyped
  BY ReadyFacts DEF Typed
<1>4. PICK first : /\ Planned(program, cs, here, Depth(t) + Owed(t), first)
                   /\ t = Main => first = program.main
  BY <1>2, HasPlan DEF Live
<1>5. Height(program, here.function, here.program_counter) = PlanOf(program, here.function).gives
  BY <1>2, <1>4, InstructionPlan
<1>6. Depth(t) + Owed(t) = Depth(t) /\ Owed(t) = 0  BY <1>2, <1>3 DEF Owed
<1>7. /\ call_stack'[t] = caller
      /\ \A u \in Threads \ {t} : call_stack'[u] = call_stack[u]
  BY <1>1, <1>3
<1>8. CASE caller.top = 0
  <2>1. status' = [status EXCEPT ![t] = "ended"] /\ NextInstruction(t)
    BY <1>8 DEF Ret, Empty
  <2>2. \A u \in Threads \ {t} : stream'[u] = stream[u]  BY <2>1, NextJumps
  <2>3. t = Main => operands[Main] = <<>>
    <3> SUFFICES ASSUME t = Main  PROVE operands[t] = <<>>
      OBVIOUS
    <3>1. Planned(program, cs, here, depth, first)  BY <1>4, <1>6
    <3> HIDE DEF cs, here, depth, back
    <3>2. depth = PlanOf(program, first).gives  BY <1>3, <1>5, <1>8, <3>1, PlannedLast
    <3>3. PlanOf(program, first).gives = 0  BY <1>3, <1>4 DEF Balanced
    <3> QED  BY <1>3, <3>2, <3>3, NoOperands DEF depth
  <2> QED  BY <1>1, <1>7, <2>1, <2>2, <2>3, EndOperands
<1>9. CASE caller.top # 0
  <2>1. status' = status
        /\ JumpTo(t, FunctionIndex(caller, caller.frame_pointer),
                  SavedProgramCounter(cs, cs.frame_pointer))
    BY <1>9 DEF Ret, Empty
  <2>2. stream'[t] = back /\ \A u \in Threads \ {t} : stream'[u] = stream[u]
    BY <2>1, Jumps
  <2>3. Owed(t)' = 0 /\ Len(operands'[t]) = Depth(t)  BY <1>1, <1>2, <2>1 DEF Owed, Depth
  <2>4. Len(operands'[t]) + Owed(t)' = Depth(t)  BY <1>3, <2>3
  <2>5. ASSUME NEW f, Planned(program, call_stack[t], stream[t], Depth(t) + Owed(t), f)
        PROVE  Planned(program, call_stack'[t], stream'[t], Len(operands'[t]) + Owed(t)', f)
    <3>1. Planned(program, cs, here, depth, f)  BY <1>6, <2>5
    <3> DEFINE done == depth
    <3> HIDE DEF cs, here, depth, back, caller
    <3>2. Planned(program, caller, back, depth, f)
      BY <1>3, <1>5, <1>9, <3>1, PlannedPop DEF caller, back
    <3> QED  BY <1>7, <2>2, <2>4, <3>2 DEF depth
  <2>6. Elsewhere(t)  BY <1>1, <1>7, <2>1, <2>2 DEF Elsewhere
  <2>7. Live(status[t]) /\ Live(status'[t])  BY <1>2, <2>1 DEF Live
  <2> HIDE DEF cs, caller, back, here, depth
  <2> QED  BY <1>1, <2>5, <2>6, <2>7, ThreadMoves
<1> QED  BY <1>8, <1>9

(* A plan reaches no place behind the code.                                 *)
LEMMA FallOffOperands == ASSUME ReadyInv, NEW t \in Threads, FallOff(t)  PROVE OperandsInv'
<1>1. status[t] = "running" /\ AtEnd(t)  BY DEF FallOff, Ready
<1>2. PICK first : Planned(program, call_stack[t], stream[t], Depth(t) + Owed(t), first)
  BY <1>1, HasPlan DEF Live
<1> QED  BY <1>1, <1>2, InstructionPlan

(* Nor does an instruction find too few operands.                           *)
LEMMA FailOperands ==
  ASSUME ReadyInv, CallsFit, NEW t \in Threads, Fail(t)  PROVE OperandsInv'
<1> DEFINE height == Height(program, stream[t].function, stream[t].program_counter)
<1>1. /\ status[t] = "running" /\ Ready(t) /\ fault' = Failure(t)
      /\ UNCHANGED <<program, status, stream, call_stack, operands>>
  BY DEF Fail, Ready, local
<1>2. PICK first : Planned(program, call_stack[t], stream[t], Depth(t) + Owed(t), first)
  BY <1>1, HasPlan DEF Live
<1>3. /\ height \in Nat /\ height - Taken(Operation(t)) \in Nat /\ Depth(t) >= height
      /\ stream[t].function \in Indices(program)
      /\ stream[t].program_counter \in Reached(program, stream[t].function)
  BY <1>1, <1>2, InstructionPlan
<1>4. Depth(t) \in Nat /\ Balanced(program) /\ WellFormed(program)  BY ReadyFacts
<1>5. ~ (Depth(t) < Pops(t))
  <2>1. CASE Operation(t) # "new_thread"
    <3>1. Taken(Operation(t)) = Pops(t) /\ Pops(t) \in Nat  BY <2>1, TakenAndGiven
    <3> HIDE DEF height
    <3> QED  BY <1>3, <1>4, <3>1
  <2>2. CASE Operation(t) = "new_thread"
    <3>1. Taken(Operation(t)) = 1  BY <2>2 DEF Taken, Binary
    <3>2. Pops(t) = 1 + Arguments(t)  BY <2>2, Counts
    <3>3. Depth(t) > 0
      <4> HIDE DEF height
      <4> QED  BY <1>3, <1>4, <3>1
    <3>4. CASE HoldsClosure(Operand(t, 1))
      <4> DEFINE index == ClosureIndex(Operand(t, 1))
      <4>1. index \in Indices(program)  BY <3>4 DEF HoldsClosure, Functions
      <4>2. PlanOf(program, index).takes < height
        BY <1>1, <1>3, <1>4, <2>2, <3>3, <3>4 DEF CallsFit, Agrees
      <4>3. PlanOf(program, index).takes = Arguments(t) /\ PlanOf(program, index).takes \in Nat
        BY <1>4, <3>3, <3>4, <4>1, PlanTypes DEF Arguments, Function
      <4> HIDE DEF height
      <4> QED  BY <1>3, <1>4, <3>2, <4>2, <4>3
    <3>5. CASE ~ HoldsClosure(Operand(t, 1))
      <4>1. Arguments(t) = 0  BY <3>5 DEF Arguments
      <4> QED  BY <1>4, <3>2, <3>3, <4>1
    <3> QED  BY <3>4, <3>5
  <2> QED  BY <2>1, <2>2
<1>6. Failure(t) # "operand stack underflow!"  BY <1>5 DEF Failure
<1> QED  BY <1>1, <1>6 DEF ReadyInv, OperandsInv, ThreadPlanned, LeavesNothing, Depth, Owed

LEMMA StutterOperands ==
  ASSUME OperandsInv, UNCHANGED vars  PROVE OperandsInv'
BY DEF OperandsInv, vars, local, memory, BalancedCode, ThreadPlanned, LeavesNothing, Depth, Owed

(* The parent gives its arguments away; the child starts with them.         *)
LEMMA NewThreadOperands ==
  ASSUME ReadyInv, CallsFit, NEW t \in Threads, NewThread(t)  PROVE OperandsInv'
<1> DEFINE a == Operand(t, 1)
           n == Arguments(t)
           index == ClosureIndex(a)
           pushed == PushFrame(NewCallStack(CallStackSize), index, Function(index).varc, 0)
           cs == StoreLocals(pushed, Captures(a))
           start == [function |-> index, program_counter |-> 0]
           arguments == [i \in 1 .. n |-> Operand(t, 2 + n - i)]
           height == Height(program, stream[t].function, stream[t].program_counter)
           takes == PlanOf(program, index).takes
           after == height - 1 - takes
<1>0. PICK c : c = CHOOSE x \in Absent : TRUE  OBVIOUS
<1>1. /\ Executes(t, {"new_thread"}) /\ Absent # {} /\ Starts(t, c, a, arguments)
      /\ UNCHANGED <<program, fault>>
  BY <1>0 DEF NewThread
<1>2. /\ status[t] = "running" /\ fault = "none" /\ ~ AtEnd(t) /\ Operation(t) = "new_thread"
      /\ ~ Undefined(t) /\ ~ (Depth(t) < 1 + n)
  BY <1>1, Succeeds, Counts
<1>3. HoldsClosure(a)  BY <1>2 DEF Undefined
<1>4. /\ Balanced(program) /\ WellFormed(program) /\ SlotsFit(program) /\ IInv /\ Typed
      /\ OperandsTyped /\ Depth(t) \in Nat /\ Depth(t) = Len(operands[t])
      /\ DOMAIN status = Threads /\ DOMAIN stream = Threads /\ DOMAIN call_stack = Threads
      /\ DOMAIN operands = Threads /\ TypeInv
  BY ReadyFacts DEF Typed, ReadyInv, Depth
<1>5. /\ BalancedCode /\ status[Main] # "absent" /\ LeavesNothing
      /\ fault # "operand stack underflow!"
      /\ \A u \in Threads : Live(status[u]) => ThreadPlanned(u)
  BY DEF ReadyInv, OperandsInv
<1>6. c \in Threads /\ status[c] = "absent" /\ c # t /\ c # Main
  BY <1>0, <1>1, <1>2, <1>5 DEF Absent
<1>7. index \in Indices(program)  BY <1>3 DEF HoldsClosure, Functions
<1>8. PICK first : /\ Planned(program, call_stack[t], stream[t], Depth(t) + Owed(t), first)
                   /\ t = Main => first = program.main
  BY <1>2, HasPlan DEF Live
<1>9. /\ height \in Nat /\ stream[t].function \in Indices(program)
      /\ stream[t].program_counter \in Reached(program, stream[t].function)
  BY <1>2, <1>8, InstructionPlan
<1>10. Depth(t) > 0
  <2>1. Taken(Operation(t)) = 1  BY <1>2 DEF Taken, Binary
  <2>2. height - 1 \in Nat /\ Depth(t) >= height  BY <1>2, <1>8, <2>1, InstructionPlan
  <2> HIDE DEF height
  <2> QED  BY <1>4, <1>9, <2>2
<1>11. takes < height /\ Continues(program, stream[t].function, stream[t].program_counter + 1,
                                   height - 1 - takes + 0)
  <2>1. Ready(t)  BY <1>2 DEF Ready
  <2> QED  BY <1>2, <1>3, <1>4, <1>9, <1>10, <2>1 DEF CallsFit, Agrees
<1>12. takes = n /\ n \in Nat  BY <1>3, <1>4, <1>7, <1>10, PlanTypes DEF Arguments, Function
<1>13. Continues(program, stream[t].function, stream[t].program_counter + 1, after)
  <2> HIDE DEF height, takes
  <2>1. height - 1 - takes + 0 = after  BY <1>9, <1>12
  <2> QED  BY <1>11, <2>1
<1> HIDE DEF n
<1>14. arguments \in Seq(Word) /\ Len(arguments) = n  BY <1>2, <1>4, <1>12, ArgumentTypes
<1>15. /\ status' = [status EXCEPT ![c] = "running"]
       /\ stream' = [stream EXCEPT ![t].program_counter = @ + 1, ![c] = start]
       /\ call_stack' = [call_stack EXCEPT ![c] = cs]
       /\ operands' = [operands EXCEPT ![t] = Rest(t, 1 + n), ![c] = arguments]
  BY <1>1, <1>14 DEF Starts
<1> HIDE DEF arguments
<1>16. Len(Rest(t, 1 + n)) = Depth(t) - (1 + n)
  <2> DEFINE m == Depth(t) - (1 + n)
  <2>1. m \in Nat /\ m <= Len(operands[t])  BY <1>2, <1>4, <1>12
  <2>2. operands[t] \in Seq(Word)  BY <1>4 DEF OperandsTyped
  <2> HIDE DEF m
  <2>3. Len(SubSeq(operands[t], 1, m)) = m  BY <2>1, <2>2
  <2> QED  BY <2>3 DEF Rest, m
<1>17. Planned(program, cs, start, takes, index)
  <2>1. pushed = PushFrame(NewCallStack(CallStackSize), index, VarcOf(program, index), 0)
    BY DEF Function, VarcOf
  <2>2. Shaped(pushed)  BY NewShape, KeepShape
  <2>3. DOMAIN Captures(a) = 1 .. program.functions[index + 1].capc
        /\ program.functions[index + 1].capc \in Nat
    BY <1>4, <1>7, CapturesOf
  <2> HIDE DEF pushed, index, a
  <2>4. Planned(program, pushed, start, takes, index)
    BY <1>4, <1>7, <2>1, PlannedFirst
  <2> HIDE DEF start, takes
  <2> QED  BY <1>4, <2>2, <2>3, <2>4, PlannedStoreLocals
<1> HIDE DEF cs, index, a
<1>18. /\ status'[c] = "running" /\ stream'[c] = start /\ call_stack'[c] = cs
       /\ operands'[c] = arguments
       /\ status'[t] = "running" /\ call_stack'[t] = call_stack[t]
       /\ operands'[t] = Rest(t, 1 + n)
       /\ \A u \in Threads \ {t, c} : /\ status'[u] = status[u] /\ stream'[u] = stream[u]
                                      /\ call_stack'[u] = call_stack[u]
                                      /\ operands'[u] = operands[u]
  <2> HIDE DEF start
  <2> QED  BY <1>2, <1>4, <1>6, <1>15
<1>19. /\ stream'[t].function = stream[t].function
       /\ stream'[t].program_counter = stream[t].program_counter + 1
  <2>1. stream[t] \in StreamType  BY <1>4 DEF Typed, ThreadsTyped
  <2> HIDE DEF start
  <2> QED  BY <1>4, <1>6, <1>15, <2>1 DEF StreamType
<1>20. ThreadPlanned(c)'
  <2>1. Owed(c)' = 0 /\ Depth(c)' = takes
    BY <1>12, <1>14, <1>18 DEF Owed, Depth
  <2>2. Depth(c)' + Owed(c)' = takes  BY <1>12, <2>1
  <2>3. Planned(program', call_stack'[c], stream'[c], Depth(c)' + Owed(c)', index)
    BY <1>1, <1>17, <1>18, <2>2
  <2> QED  BY <1>6, <2>3 DEF ThreadPlanned
<1>21. ThreadPlanned(t)'
  <2> DEFINE s == stream[t]
             next == stream'[t]
             old == call_stack[t]
             depth == Depth(t)
             now == Depth(t)' + Owed(t)'
  <2>1. Owed(t) = 0 /\ Owed(t)' = 0 /\ Depth(t)' = Depth(t) - (1 + n)
    BY <1>2, <1>16, <1>18 DEF Owed, Depth
  <2>2. Depth(t) + Owed(t) = Depth(t)  BY <1>4, <2>1
  <2>3. Planned(program, old, s, depth, first)  BY <1>8, <2>2
  <2>4. now = depth - Height(program, s.function, s.program_counter) + after
    <3>1. now = depth - (1 + n) + 0  BY <2>1
    <3>2. depth \in Nat  BY <1>4
    <3> HIDE DEF height, takes, depth, now
    <3>3. now = depth - height + after  BY <1>9, <1>12, <3>1, <3>2
    <3> QED  BY <3>3 DEF height
  <2>5. /\ next.function = s.function
        /\ Continues(program, s.function, next.program_counter, after)
    BY <1>13, <1>19
  <2> HIDE DEF s, next, old, depth, now, after
  <2>6. Planned(program, old, next, now, first)
    BY <1>4, <2>3, <2>4, <2>5, PlannedAdvance
  <2>7. Planned(program', call_stack'[t], stream'[t], Depth(t)' + Owed(t)', first)
    BY <1>1, <1>18, <2>6 DEF old, next, now
  <2>8. t = Main => first = program.main'  BY <1>1, <1>8
  <2> QED  BY <2>7, <2>8 DEF ThreadPlanned
<1>22. ASSUME NEW u \in Threads \ {t, c}, Live(status'[u])  PROVE ThreadPlanned(u)'
  <2>1. /\ status'[u] = status[u] /\ stream'[u] = stream[u]
        /\ call_stack'[u] = call_stack[u] /\ operands'[u] = operands[u]
    BY <1>18
  <2>2. ThreadPlanned(u)  BY <1>5, <1>22, <2>1
  <2>3. Depth(u)' = Depth(u) /\ Owed(u)' = Owed(u)  BY <2>1 DEF Depth, Owed
  <2> QED  BY <1>1, <2>1, <2>2, <2>3 DEF ThreadPlanned
<1>23. status'[Main] # "absent" /\ LeavesNothing'
  <2>1. t # Main => status'[Main] = status[Main] /\ operands'[Main] = operands[Main]
    BY <1>6, <1>18, MainAssumption
  <2> QED  BY <1>5, <1>18, <2>1 DEF LeavesNothing
<1> QED  BY <1>1, <1>5, <1>20, <1>21, <1>22, <1>23 DEF OperandsInv

-----------------------------------------------------------------------------
(* Every step.                                                              *)

LEMMA InitOperands == Init => OperandsInv
<1> SUFFICES ASSUME Init, BalancedCode
             PROVE  /\ fault # "operand stack underflow!"
                    /\ status[Main] # "absent"
                    /\ \A t \in Threads : Live(status[t]) => ThreadPlanned(t)
                    /\ LeavesNothing
  BY DEF OperandsInv
<1> DEFINE main == program.main
           cs == PushFrame(NewCallStack(CallStackSize), main, Function(main).varc, 0)
           start == [function |-> main, program_counter |-> 0]
<1>1. WellFormed(program) /\ Balanced(program)
  BY ProgramsAssumption DEF Init, BalancedCode
<1>2. main \in Indices(program) /\ PlanOf(program, main).takes = 0
  BY <1>1 DEF WellFormed, Balanced
<1>3. /\ fault = "none" /\ status[Main] = "running"
      /\ \A t \in Threads : Live(status[t]) => t = Main
      /\ call_stack[Main] = cs /\ stream[Main] = start /\ operands[Main] = <<>>
  BY MainAssumption DEF Init, Live
<1>4. cs = PushFrame(NewCallStack(CallStackSize), main, VarcOf(program, main), 0)
  BY DEF Function, VarcOf
<1> HIDE DEF cs
<1>5. Planned(program, cs, start, PlanOf(program, main).takes, main)
  BY <1>1, <1>2, <1>4, PlannedFirst
<1>6. Depth(Main) = 0 /\ Owed(Main) = 0  BY <1>3, NoWord DEF Depth, Owed
<1>7. ThreadPlanned(Main)  BY <1>2, <1>3, <1>5, <1>6 DEF ThreadPlanned
<1> QED  BY <1>3, <1>7 DEF LeavesNothing

LEMMA NextOperands ==
  TypeInv /\ OperandsInv /\ (BalancedCode => CallsFit) /\ [Next]_vars => OperandsInv'
<1> SUFFICES ASSUME TypeInv, OperandsInv, BalancedCode => CallsFit, [Next]_vars
             PROVE  OperandsInv'
  OBVIOUS
<1>1. CASE UNCHANGED vars  BY <1>1, StutterOperands
<1>2. ASSUME NEW t \in Threads, Step(t)  PROVE OperandsInv'
  <2>1. program' = program
    BY <1>2 DEF Step, Load, Store, Shuffle, Calculate, Branch, WLoad, WStore, New, InvokeStatic,
                InvokeDynamic, Ret, FallOff, NewThread, NewChan, NewSlice, ChanSend, ChanRecv,
                Enter, Send, Receive, Leave, PrintValue, Fail
  <2>2. CASE ~ BalancedCode  BY <2>1, <2>2 DEF OperandsInv, BalancedCode
  <2>3. CASE BalancedCode
    <3>1. ReadyInv /\ CallsFit  BY <2>3 DEF ReadyInv
    <3> QED
      BY <1>2, <3>1, LoadOperands, StoreOperands, ShuffleOperands, CalculateOperands,
         BranchOperands, WLoadOperands, WStoreOperands, NewOperands, InvokeStaticOperands,
         InvokeDynamicOperands, RetOperands, FallOffOperands, NewThreadOperands,
         NewChanOperands, NewSliceOperands, ChanSendOperands, ChanRecvOperands, SendOperands,
         ReceiveOperands, PrintValueOperands, FailOperands DEF Step
  <2> QED  BY <2>2, <2>3
<1> QED  BY <1>1, <1>2 DEF Next

-----------------------------------------------------------------------------
(* What the callers left, read back from raw memory.                        *)

(* The walk down the saved frame pointers misses no frame.                  *)
LEMMA FramesClosed ==
  ASSUME NEW p, WellFormed(p), NEW cs, Shaped(cs), NEW s, NEW frames, Chain(p, cs, s, frames)
  PROVE  /\ cs.frame_pointer \in Frames(cs)
         /\ \A f \in Frames(cs) \ {0} : SavedFramePointer(cs, f) \in Frames(cs)
                                        /\ SavedFramePointer(cs, f) < f
<1> DEFINE D == 0 .. (CallStackSize - 1)
           saved(frame) == SavedFramePointer(cs, frame)
           Closed(set) == \A f \in set \ {0} : saved(f) \in set /\ saved(f) < f
<1>1. CallStackSize \in Nat /\ DOMAIN cs.memory = D  BY CallStackAssumption DEF Shaped
<1>2. \A f \in frames : f \in D
  <2> SUFFICES ASSUME NEW f \in frames  PROVE f \in D  OBVIOUS
  <2>1. f \in Nat /\ f + 2 \in 0 .. (CallStackSize - 1)  BY DEF Chain, Newest
  <2> QED  BY <1>1, <2>1
<1>3. \A f \in frames : f # 0 => saved(f) \in frames /\ saved(f) \in 0 .. (f - 1)
  <2> SUFFICES ASSUME NEW f \in frames, f # 0
               PROVE  saved(f) \in frames /\ saved(f) \in 0 .. (f - 1)
    OBVIOUS
  <2>1. saved(f) \in frames
        /\ f = saved(f) + FrameDataSize + VarcOf(p, FunctionIndex(cs, saved(f)))
    BY DEF Chain, Linked
  <2>2. FunctionIndex(cs, saved(f)) \in Indices(p)  BY <2>1 DEF Chain
  <2>3. VarcOf(p, FunctionIndex(cs, saved(f))) \in Nat  BY <2>2, FunctionTypes
  <2>4. saved(f) \in Nat /\ f \in Nat  BY <1>1, <1>2, <2>1
  <2> DEFINE varc == VarcOf(p, FunctionIndex(cs, saved(f)))
  <2> HIDE DEF varc, saved
  <2>5. saved(f) \in 0 .. (f - 1)  BY <2>1, <2>3, <2>4 DEF varc, FrameDataSize
  <2> QED  BY <2>1, <2>5
<1>4. ~ Empty(cs)
  <2>1. HasChain(p, cs, s)
    <3>1. frames \subseteq Nat  BY <1>1, <1>2
    <3> QED  BY <3>1 DEF HasChain
  <2>2. /\ cs.frame_pointer \in Nat /\ s.function \in Indices(p)
        /\ cs.top = cs.frame_pointer + 3 + VarcOf(p, s.function)
    BY <2>1, TopOfChain
  <2>3. VarcOf(p, s.function) \in Nat  BY <2>2, FunctionTypes
  <2> QED  BY <2>2, <2>3 DEF Empty
<1>5. PICK down :
        /\ Frames(cs) = down[cs.frame_pointer]
        /\ \A frame \in D :
             down[frame] = {frame} \cup IF saved(frame) \in 0 .. (frame - 1)
                                        THEN down[saved(frame)] ELSE {}
  BY <1>1, <1>4, FramesUnfold
<1> DEFINE S == {f \in D : f \in frames => f \in down[f] /\ Closed(down[f])}
<1> HIDE DEF saved
<1>6. ASSUME NEW n \in D, \A m \in D : m < n => m \in S  PROVE n \in S
  <2> SUFFICES ASSUME n \in frames  PROVE n \in down[n] /\ Closed(down[n])  OBVIOUS
  <2>1. n \in down[n]  BY <1>5
  <2>2. CASE n = 0
    <3>1. saved(n) \notin 0 .. (n - 1)  BY <2>2
    <3>2. down[n] = {0}  BY <1>5, <2>2, <3>1
    <3> QED  BY <2>1, <3>2
  <2>3. CASE n # 0
    <3>1. saved(n) \in frames /\ saved(n) \in 0 .. (n - 1)  BY <1>3, <2>3
    <3>2. saved(n) \in D /\ saved(n) < n  BY <1>2, <3>1
    <3>3. saved(n) \in down[saved(n)] /\ Closed(down[saved(n)])  BY <1>6, <3>1, <3>2
    <3>4. down[n] = {n} \cup down[saved(n)]  BY <1>5, <3>1
    <3> HIDE DEF D
    <3> QED  BY <2>1, <3>2, <3>3, <3>4
  <2> QED  BY <2>2, <2>3
<1> HIDE DEF S
<1>7. D \subseteq S
  <2>1. D \in SUBSET Nat  BY <1>1
  <2> HIDE DEF D
  <2> QED  BY <1>6, <2>1, StrongInduction
<1>8. cs.frame_pointer \in frames  BY DEF Chain
<1> HIDE DEF D
<1> QED  BY <1>2, <1>5, <1>7, <1>8 DEF S, saved

(* The recursion of CallersOperands finds what every caller was left with.  *)
LEMMA CallersKept ==
  ASSUME NEW p, WellFormed(p), Balanced(p), NEW cs, Shaped(cs), NEW s,
         NEW frames \in SUBSET Nat, NEW base \in [Nat -> Nat],
         Chain(p, cs, s, frames), Kept(p, cs, frames, base)
  PROVE  CallersOperands(p, cs) = base[cs.frame_pointer]
<1> DEFINE F == Frames(cs)
           saved(f) == SavedFramePointer(cs, f)
           height(f) == Height(p, FunctionIndex(cs, saved(f)), SavedProgramCounter(cs, f))
           gives(f) == PlanOf(p, FunctionIndex(cs, f)).gives
           Body(g) == [f \in F |-> IF f = 0 THEN 0 ELSE g[saved(f)] + height(f) - gives(f)]
           below == CHOOSE g : g = Body(g)
           known == [f \in F |-> base[f]]
<1>1. CallersOperands(p, cs) = below[cs.frame_pointer]  BY Zenon DEF CallersOperands
<1>2. F \subseteq frames  BY FramesInChain
<1>3. /\ cs.frame_pointer \in F
      /\ \A f \in F \ {0} : saved(f) \in F /\ saved(f) < f
  BY FramesClosed
<1>4. \A f \in F \ {0} : /\ height(f) \in Nat /\ gives(f) \in Nat
                         /\ base[f] + gives(f) = base[saved(f)] + height(f)
  <2> SUFFICES ASSUME NEW f \in F \ {0}
               PROVE  /\ height(f) \in Nat /\ gives(f) \in Nat
                      /\ base[f] + gives(f) = base[saved(f)] + height(f)
    OBVIOUS
  <2>1. f \in frames \ {0} /\ saved(f) \in frames  BY <1>2, <1>3
  <2>2. /\ SavedProgramCounter(cs, f) \in Reached(p, FunctionIndex(cs, saved(f)))
        /\ base[f] + gives(f) = base[saved(f)] + height(f)
    BY <2>1 DEF Kept
  <2>3. FunctionIndex(cs, f) \in Indices(p) /\ FunctionIndex(cs, saved(f)) \in Indices(p)
    BY <2>1 DEF Chain
  <2> QED  BY <2>2, <2>3, PlanTypes
<1>5. base[0] = 0  BY DEF Kept
<1> HIDE DEF F, saved, height, gives
<1>6. \A f \in F : base[f] \in Nat  BY <1>2
<1>7. \A f \in F \ {0} : base[f] = base[saved(f)] + height(f) - gives(f)
  <2> SUFFICES ASSUME NEW f \in F \ {0}
               PROVE  base[f] = base[saved(f)] + height(f) - gives(f)
    OBVIOUS
  <2>1. base[f] \in Nat /\ base[saved(f)] \in Nat  BY <1>3, <1>6
  <2> QED  BY <1>4, <2>1
<1>8. known = Body(known)
  <2>1. \A f \in F : known[f] = base[f]  OBVIOUS
  <2>2. \A f \in F : known[f] = IF f = 0 THEN 0 ELSE known[saved(f)] + height(f) - gives(f)
    BY <1>3, <1>5, <1>7, <2>1
  <2> QED  BY <2>2
<1>9. below = Body(below)
  <2> HIDE DEF known, Body
  <2> QED  BY <1>8
<1>10. \A f \in F : below[f] = IF f = 0 THEN 0 ELSE below[saved(f)] + height(f) - gives(f)
  <2> HIDE DEF below
  <2> QED  BY <1>9
<1> HIDE DEF below, known
<1> DEFINE S == {f \in F : below[f] = base[f]}
<1>11. ASSUME NEW n \in F, \A m \in F : m < n => m \in S  PROVE n \in S
  <2>1. CASE n = 0  BY <1>5, <1>10, <2>1
  <2>2. CASE n # 0
    <3>1. saved(n) \in S  BY <1>3, <1>11, <2>2
    <3> QED  BY <1>7, <1>10, <2>2, <3>1
  <2> QED  BY <2>1, <2>2
<1> HIDE DEF S
<1>12. F \subseteq S
  <2>1. F \in SUBSET Nat  BY <1>2
  <2> QED  BY <1>11, <2>1, StrongInduction
<1> QED  BY <1>1, <1>3, <1>12 DEF S

LEMMA OperandsInvIsPlanned == TypeInv /\ OperandsInv => OperandsAsPlanned
<1> SUFFICES ASSUME TypeInv, OperandsInv, BalancedCode
             PROVE  /\ fault # "operand stack underflow!"
                    /\ \A t \in Threads : status[t] \notin {"absent", "ended"} =>
                         /\ stream[t].program_counter \in Reached(program, stream[t].function)
                         /\ Depth(t) + Owed(t) = CallersOperands(program, call_stack[t])
                              + Height(program, stream[t].function, stream[t].program_counter)
  BY DEF OperandsAsPlanned
<1>1. ReadyInv  BY DEF ReadyInv
<1>2. fault # "operand stack underflow!"  BY DEF OperandsInv
<1>3. ASSUME NEW t \in Threads, status[t] \notin {"absent", "ended"}
      PROVE  /\ stream[t].program_counter \in Reached(program, stream[t].function)
             /\ Depth(t) + Owed(t) = CallersOperands(program, call_stack[t])
                  + Height(program, stream[t].function, stream[t].program_counter)
  <2>1. PICK first : Planned(program, call_stack[t], stream[t], Depth(t) + Owed(t), first)
    BY <1>1, <1>3, HasPlan DEF Live
  <2>2. PICK frames \in SUBSET Nat, base \in [Nat -> Nat] :
          /\ Chain(program, call_stack[t], stream[t], frames)
          /\ Kept(program, call_stack[t], frames, base)
          /\ stream[t].program_counter \in Reached(program, stream[t].function)
          /\ Depth(t) + Owed(t) = base[call_stack[t].frame_pointer]
               + Height(program, stream[t].function, stream[t].program_counter)
    BY <2>1 DEF Planned
  <2>3. CallersOperands(program, call_stack[t]) = base[call_stack[t].frame_pointer]
    BY <1>1, <2>2, ReadyFacts, CallersKept
  <2> QED  BY <2>2, <2>3
<1> QED  BY <1>2, <1>3

(* A program keeps its plan as long as the closures it calls fit where they *)
(* are called: the operand stack of every thread is that of its callers,    *)
(* frame by frame, and the operands of its own (what push, pop and top of   *)
(* OperandStack.hpp are used for by the code of Compiler.hpp).  So no       *)
(* instruction finds it empty.                                              *)
THEOREM OperandsAsPlannedTheorem == Spec /\ []CallsFit => []OperandsAsPlanned
<1>1. TypeInv /\ OperandsInv /\ CallsFit /\ [Next]_vars => OperandsInv'  BY NextOperands
<1> QED
  BY <1>1, InitTypes, NextTypes, InitOperands, OperandsInvIsPlanned, PTL DEF Spec

(* And the main function leaves nothing on it: every statement takes what   *)
(* its expressions left, on every way through the program.                  *)
THEOREM LeavesNothingTheorem == Spec /\ []CallsFit => [](BalancedCode => LeavesNothing)
<1>1. TypeInv /\ OperandsInv /\ CallsFit /\ [Next]_vars => OperandsInv'  BY NextOperands
<1>2. OperandsInv => (BalancedCode => LeavesNothing)  BY DEF OperandsInv
<1> QED  BY <1>1, <1>2, InitTypes, NextTypes, InitOperands, PTL DEF Spec

(* In some programs any closure fits wherever one is called, whatever the   *)
(* heap holds: those that call none, or whose functions are all alike.      *)
AnyClosureFits(p) ==
  \A f, g \in Indices(p) : \A pc \in Reached(p, f) :
    LET operation == OperationOf(p, CodeOf(p, f)[pc + 1])
        callee == PlanOf(p, g)
    IN  /\ operation = "invoke_dynamic" => Agrees(p, f, pc, callee, callee.gives)
        /\ operation = "new_thread" => Agrees(p, f, pc, callee, 0)

LEMMA AnyClosureCallsFit ==
  TypeInv /\ BalancedCode /\ AnyClosureFits(program) => CallsFit
<1> SUFFICES ASSUME TypeInv, BalancedCode, AnyClosureFits(program), NEW t \in Threads,
                    Ready(t), stream[t].program_counter \in Reached(program, stream[t].function),
                    HoldsClosure(Operand(t, 1))
             PROVE  LET f == stream[t].function
                        pc == stream[t].program_counter
                        callee == PlanOf(program, ClosureIndex(Operand(t, 1)))
                    IN  /\ Operation(t) = "invoke_dynamic" => Agrees(program, f, pc, callee, callee.gives)
                        /\ Operation(t) = "new_thread" => Agrees(program, f, pc, callee, 0)
  BY DEF CallsFit
<1>1. stream[t] \in StreamType
  BY DEF TypeInv, Typed, ThreadsTyped, BalancedCode
<1>2. stream[t].function \in Indices(program)  BY <1>1 DEF StreamType, Functions
<1>3. ClosureIndex(Operand(t, 1)) \in Indices(program)  BY DEF HoldsClosure, Functions
<1>4. Operation(t) = OperationOf(program, CodeOf(program, stream[t].function)
                                            [stream[t].program_counter + 1])
  BY DEF Operation, Current, Code, Function, CodeOf
<1> QED  BY <1>2, <1>3, <1>4 DEF AnyClosureFits

(* Nothing is assumed of the heap of such a program.                        *)
THEOREM UniformOperandsTheorem ==
  Spec /\ AnyClosureFits(program) => [](OperandsAsPlanned /\ (BalancedCode => LeavesNothing))
<1> DEFINE Uniform == AnyClosureFits(program)
           Inv == TypeInv /\ OperandsInv /\ Uniform
<1>1. Init /\ Uniform => Inv  BY InitTypes, InitOperands
<1>2. Inv /\ [Next]_vars => Inv'
  <2> SUFFICES ASSUME Inv, [Next]_vars  PROVE Inv'  OBVIOUS
  <2>1. BalancedCode => CallsFit  BY AnyClosureCallsFit
  <2>2. TypeInv' /\ OperandsInv'  BY <2>1, NextTypes, NextOperands
  <2>3. program' = program
    <3>1. CASE UNCHANGED vars  BY <3>1 DEF vars
    <3>2. ASSUME NEW t \in Threads, Step(t)  PROVE program' = program
      BY <3>2 DEF Step, Load, Store, Shuffle, Calculate, Branch, WLoad, WStore, New, InvokeStatic,
                  InvokeDynamic, Ret, FallOff, NewThread, NewChan, NewSlice, ChanSend, ChanRecv,
                  Enter, Send, Receive, Leave, PrintValue, Fail
    <3> QED  BY <3>1, <3>2 DEF Next
  <2> QED  BY <2>2, <2>3
<1>3. Inv => OperandsAsPlanned /\ (BalancedCode => LeavesNothing)
  BY OperandsInvIsPlanned DEF OperandsInv
<1> HIDE DEF Inv, Uniform
<1>4. Spec /\ Uniform => [](OperandsAsPlanned /\ (BalancedCode => LeavesNothing))
  BY <1>1, <1>2, <1>3, PTL DEF Spec
<1> QED  BY <1>4 DEF Uniform
=============================================================================
