-------------------------- MODULE InterpreterProofs --------------------------
(***************************************************************************)
(* The frames of every thread form a chain, for every program, any number  *)
(* of threads and every size of the stacks, if every local a function      *)
(* names is in its frame.  First there is some set of frames that does;    *)
(* then it has the frames that CallChain of Interpreter.tla finds by its   *)
(* recursion.  With the frames known, the variables keep their types.      *)
(***************************************************************************)
EXTENDS Interpreter, ArithmeticProofs

(* The operators below take the program, a call stack and a stream as       *)
(* arguments, so that lemmas about them hold before and after a step.       *)
VarcOf(p, index) == p.functions[index + 1].varc
CodeOf(p, index) == p.functions[index + 1].code

Shaped(cs) ==
  /\ cs = [memory |-> cs.memory, top |-> cs.top, frame_pointer |-> cs.frame_pointer]
  /\ cs.memory = [a \in 0 .. (CallStackSize - 1) |-> cs.memory[a]]

Calls(call, index) ==
  call.opcode = "invoke_dynamic" \/ (call.opcode = "invoke_static" /\ call.index = index)

(* Follows, and the frame below is in the set.                              *)
Linked(p, cs, frame, frames) ==
  LET below == SavedFramePointer(cs, frame)
      caller == FunctionIndex(cs, below)
      pc == SavedProgramCounter(cs, frame)
  IN  /\ below \in frames
      /\ frame = below + FrameDataSize + VarcOf(p, caller)
      /\ pc \in 1 .. Len(CodeOf(p, caller))
      /\ Calls(CodeOf(p, caller)[pc], FunctionIndex(cs, frame))

Newest(p, cs, s) ==
  /\ cs.frame_pointer \in Nat
  /\ s.function = FunctionIndex(cs, cs.frame_pointer)
  /\ s.program_counter \in Nat
  /\ cs.top = cs.frame_pointer + FrameDataSize + VarcOf(p, s.function)

Apart(p, cs, frames) ==
  \A f, g \in frames : f < g => f + FrameDataSize + VarcOf(p, FunctionIndex(cs, f)) <= g

Chain(p, cs, s, frames) ==
  /\ Newest(p, cs, s)
  /\ cs.frame_pointer \in frames
  /\ frames \subseteq 0 .. cs.frame_pointer
  /\ \A f \in frames : FunctionIndex(cs, f) \in Indices(p) /\ f + 2 \in 0 .. (CallStackSize - 1)
  /\ SavedFramePointer(cs, 0) \in Nat
  /\ Apart(p, cs, frames)
  /\ \A f \in frames \ {0} : Linked(p, cs, f, frames)

(* The FrameData of the frames, and which function the first frame is of,   *)
(* are the same in two call stacks.                                         *)
SameFrames(cs, after, frames) ==
  /\ \A f \in frames : /\ FunctionIndex(after, f) = FunctionIndex(cs, f)
                        /\ SavedFramePointer(after, f) = SavedFramePointer(cs, f)
                        /\ SavedProgramCounter(after, f) = SavedProgramCounter(cs, f)
  /\ FunctionIndex(after, 0) = FunctionIndex(cs, 0)

HasChain(p, cs, s) == \E frames \in SUBSET Nat : Chain(p, cs, s, frames)

Live(place) == place \notin {"absent", "ended"}

(* The frames of every thread tile the used part of its call stack, as the  *)
(* calls it is in the middle of.                                            *)
FramesTile ==
  SlotsFit(program) =>
    \A t \in Threads : Live(status[t]) => HasChain(program, call_stack[t], stream[t])

Shapes ==
  /\ WellFormed(program)
  /\ status = [t \in Threads |-> status[t]]
  /\ call_stack = [t \in Threads |-> call_stack[t]]
  /\ stream = [t \in Threads |-> [function |-> stream[t].function,
                                  program_counter |-> stream[t].program_counter]]
  /\ \A t \in Threads : Shaped(call_stack[t])
  /\ \A t \in Threads : status[t] = "absent" => call_stack[t] = NewCallStack(CallStackSize)

IInv == Shapes /\ FramesTile

-----------------------------------------------------------------------------
(* Facts about programs.                                                    *)

LEMMA FunctionTypes ==
  ASSUME NEW p, WellFormed(p), NEW i \in Indices(p)
  PROVE  /\ VarcOf(p, i) \in Nat
         /\ i \in Nat /\ i + 1 \in DOMAIN p.functions
         /\ p.functions[i + 1].capc \in Nat
         /\ CodeOf(p, i) \in Seq(Instructions)
         /\ Len(CodeOf(p, i)) \in Nat
<1>1. p.functions \in Seq(FunctionRecords)  BY DEF WellFormed
<1>2. i + 1 \in 1 .. Len(p.functions) /\ i \in Nat  BY <1>1 DEF Indices
<1>3. p.functions[i + 1] \in FunctionRecords  BY <1>1, <1>2
<1>4. /\ p.functions[i + 1].varc \in Nat
      /\ p.functions[i + 1].capc \in Nat
      /\ p.functions[i + 1].code \in Seq(Instructions)
  BY <1>3 DEF FunctionRecords
<1>5. i + 1 \in DOMAIN p.functions  BY <1>1, <1>2
<1>6. Len(p.functions[i + 1].code) \in Nat  BY <1>4
<1> QED  BY <1>2, <1>4, <1>5, <1>6 DEF VarcOf, CodeOf

LEMMA LocalsFit ==
  ASSUME NEW p, WellFormed(p), SlotsFit(p), NEW i \in Indices(p)
  PROVE  /\ p.functions[i + 1].capc <= VarcOf(p, i)
         /\ \A j \in DOMAIN CodeOf(p, i) :
              CodeOf(p, i)[j].opcode \in {"load", "store"} =>
                CodeOf(p, i)[j].index \in 0 .. (VarcOf(p, i) - 1)
BY FunctionTypes DEF SlotsFit, VarcOf, CodeOf
-----------------------------------------------------------------------------
(* Facts about call stacks.                                                 *)

(* A step of the program counter.                                           *)
LEMMA ChainAdvance ==
  ASSUME NEW p, NEW cs, NEW s, NEW after, HasChain(p, cs, s),
         after.function = s.function, after.program_counter \in Nat
  PROVE  HasChain(p, cs, after)
BY DEF HasChain, Chain, Newest

(* What is written above the FrameData of the newest frame moves no frame.  *)
LEMMA ChainWrite ==
  ASSUME NEW p, WellFormed(p), NEW cs, NEW s, NEW frames \in SUBSET Nat, Chain(p, cs, s, frames),
         NEW after, after.frame_pointer = cs.frame_pointer, after.top = cs.top,
         \A a \in 0 .. (cs.frame_pointer + 2) : after.memory[a] = cs.memory[a]
  PROVE  /\ Chain(p, after, s, frames)
         /\ SameFrames(cs, after, frames)
<1>1. Chain(p, cs, s, frames)  OBVIOUS
<1>2. \A f \in frames : /\ FunctionIndex(after, f) = FunctionIndex(cs, f)
                        /\ SavedFramePointer(after, f) = SavedFramePointer(cs, f)
                        /\ SavedProgramCounter(after, f) = SavedProgramCounter(cs, f)
  BY <1>1 DEF Chain, Newest, FunctionIndex, SavedFramePointer, SavedProgramCounter
<1>3. Newest(p, after, s)  BY <1>1, <1>2 DEF Chain, Newest
<1>4. Apart(p, after, frames)  BY <1>1, <1>2 DEF Chain, Apart
<1>5. ASSUME NEW f \in frames \ {0}  PROVE Linked(p, after, f, frames)
  BY <1>1, <1>2 DEF Chain, Linked
<1>6. SavedFramePointer(after, 0) = SavedFramePointer(cs, 0) /\ FunctionIndex(after, 0) = FunctionIndex(cs, 0)
  BY <1>1 DEF Chain, Newest, SavedFramePointer, FunctionIndex
<1> QED  BY <1>1, <1>2, <1>3, <1>4, <1>5, <1>6 DEF SameFrames, Chain

(* push_frame on a live thread.                                             *)
LEMMA ChainPush ==
  ASSUME NEW p, WellFormed(p), NEW cs, Shaped(cs), NEW s,
         NEW frames \in SUBSET Nat, Chain(p, cs, s, frames),
         NEW index \in Indices(p), FrameFits(cs, 0),
         s.program_counter < Len(CodeOf(p, s.function)),
         Calls(CodeOf(p, s.function)[s.program_counter + 1], index)
  PROVE  LET after == PushFrame(cs, index, VarcOf(p, index), s.program_counter + 1)
         IN  /\ Chain(p, after, [function |-> index, program_counter |-> 0], frames \cup {cs.top})
             /\ cs.top \in Nat \ {0} /\ cs.top \notin frames /\ after.frame_pointer = cs.top
             /\ SameFrames(cs, after, frames)
             /\ FunctionIndex(after, cs.top) = index
             /\ SavedFramePointer(after, cs.top) = cs.frame_pointer
             /\ SavedProgramCounter(after, cs.top) = s.program_counter + 1
<1> DEFINE after == PushFrame(cs, index, VarcOf(p, index), s.program_counter + 1)
           new == cs.top
           old == cs.frame_pointer
<1>1. Chain(p, cs, s, frames)  OBVIOUS
<1>2. /\ old \in Nat /\ s.program_counter \in Nat /\ s.function = FunctionIndex(cs, old)
      /\ new = old + 3 + VarcOf(p, s.function) /\ s.function \in Indices(p)
  BY <1>1 DEF Chain, Newest, FrameDataSize
<1>3. /\ VarcOf(p, s.function) \in Nat /\ VarcOf(p, index) \in Nat
      /\ Len(CodeOf(p, s.function)) \in Nat
  BY <1>2, FunctionTypes
<1>4. new \in Nat /\ new >= old + 3  BY <1>2, <1>3
<1>5. DOMAIN cs.memory = 0 .. (CallStackSize - 1) /\ CallStackSize \in Nat
  BY CallStackAssumption DEF Shaped
<1>6. new + 2 \in 0 .. (CallStackSize - 1)  BY <1>4, <1>5 DEF FrameFits, InBounds, FrameDataSize
<1>7. /\ after.frame_pointer = new
      /\ after.top = new + 3 + VarcOf(p, index)
      /\ after.memory[new] = index
      /\ after.memory[new + 1] = old
      /\ after.memory[new + 2] = s.program_counter + 1
      /\ \A a \in 0 .. (new - 1) : after.memory[a] = cs.memory[a]
  <2>1. new \in DOMAIN cs.memory /\ new + 1 \in DOMAIN cs.memory /\ new + 2 \in DOMAIN cs.memory
    BY <1>4, <1>5, <1>6
  <2>2. /\ after.frame_pointer = new
        /\ after.top = new + 3 + VarcOf(p, index)
        /\ after.memory = [cs.memory EXCEPT ![new] = index, ![new + 1] = old,
                                            ![new + 2] = s.program_counter + 1]
    BY DEF PushFrame, FrameDataSize
  <2>3. new # new + 1 /\ new # new + 2 /\ new + 1 # new + 2  BY <1>4
  <2>4. \A a \in 0 .. (new - 1) : a # new /\ a # new + 1 /\ a # new + 2  BY <1>4
  <2>5. \A a \in 0 .. (new - 1) : a \in DOMAIN cs.memory  BY <1>4, <1>5, <1>6
  <2> HIDE DEF after, new, old
  <2>6. /\ after.memory[new] = index
        /\ after.memory[new + 1] = old
        /\ after.memory[new + 2] = s.program_counter + 1
    BY <2>1, <2>2, <2>3
  <2>7. \A a \in 0 .. (new - 1) : after.memory[a] = cs.memory[a]  BY <2>2, <2>4, <2>5
  <2> QED  BY <2>2, <2>6, <2>7
<1> HIDE DEF after
<1>8. /\ FunctionIndex(after, new) = index
      /\ SavedFramePointer(after, new) = old
      /\ SavedProgramCounter(after, new) = s.program_counter + 1
  BY <1>7 DEF FunctionIndex, SavedFramePointer, SavedProgramCounter
<1>9. \A f \in frames : /\ f \in 0 .. old
                        /\ FunctionIndex(after, f) = FunctionIndex(cs, f)
                        /\ SavedFramePointer(after, f) = SavedFramePointer(cs, f)
                        /\ SavedProgramCounter(after, f) = SavedProgramCounter(cs, f)
  <2> SUFFICES ASSUME NEW f \in frames
               PROVE  /\ f \in 0 .. old
                      /\ FunctionIndex(after, f) = FunctionIndex(cs, f)
                      /\ SavedFramePointer(after, f) = SavedFramePointer(cs, f)
                      /\ SavedProgramCounter(after, f) = SavedProgramCounter(cs, f)
    OBVIOUS
  <2>1. f \in 0 .. old  BY <1>1 DEF Chain
  <2>2. f \in 0 .. (new - 1) /\ f + 1 \in 0 .. (new - 1) /\ f + 2 \in 0 .. (new - 1)
    BY <2>1, <1>2, <1>4
  <2> QED  BY <2>1, <2>2, <1>7 DEF FunctionIndex, SavedFramePointer, SavedProgramCounter
<1> HIDE DEF new, old
<1> DEFINE all == frames \cup {new}
<1>10. Newest(p, after, [function |-> index, program_counter |-> 0])
  BY <1>4, <1>7, <1>8 DEF Newest, FrameDataSize
<1>11. after.frame_pointer \in all /\ all \subseteq 0 .. after.frame_pointer
  <2>1. new \in 0 .. new  BY <1>4
  <2>2. \A f \in frames : f \in 0 .. new  BY <1>2, <1>4, <1>9
  <2> QED  BY <2>1, <2>2, <1>7
<1>12. \A f \in all : FunctionIndex(after, f) \in Indices(p) /\ f + 2 \in 0 .. (CallStackSize - 1)
  BY <1>1, <1>6, <1>8, <1>9 DEF Chain
<1>13. Apart(p, after, all)
  <2> SUFFICES ASSUME NEW f \in all, NEW g \in all, f < g
               PROVE f + FrameDataSize + VarcOf(p, FunctionIndex(after, f)) <= g
    BY DEF Apart
  <2>1. f \in frames  BY <1>9, <1>4, <1>2
  <2>2. VarcOf(p, FunctionIndex(cs, f)) \in Nat  BY <2>1, <1>1, FunctionTypes DEF Chain
  <2>3. CASE g \in frames  BY <2>1, <2>3, <1>1, <1>9 DEF Chain, Apart
  <2>4. CASE g = new /\ f = old
    <3>1. FunctionIndex(after, f) = s.function  BY <2>4, <2>1, <1>2, <1>9
    <3> QED  BY <2>4, <3>1, <1>2, <1>3, <1>4 DEF FrameDataSize
  <2>5. CASE g = new /\ f # old
    <3>1. f < old  BY <2>1, <2>5, <1>9, <1>2
    <3>2. f + FrameDataSize + VarcOf(p, FunctionIndex(cs, f)) <= old
      BY <2>1, <3>1, <1>1 DEF Chain, Apart, old
    <3> QED  BY <2>1, <2>2, <2>5, <3>2, <1>2, <1>4, <1>9 DEF FrameDataSize
  <2> QED  BY <2>3, <2>4, <2>5
<1>14. ASSUME NEW f \in all \ {0}  PROVE Linked(p, after, f, all)
  <2>1. CASE f \in frames
    <3>1. Linked(p, cs, f, frames)  BY <2>1, <1>14, <1>1 DEF Chain
    <3>2. SavedFramePointer(cs, f) \in frames  BY <3>1 DEF Linked
    <3> QED  BY <2>1, <3>1, <3>2, <1>9 DEF Linked
  <2>2. CASE f = new
    <3>1. old \in frames /\ FunctionIndex(after, old) = s.function
      BY <1>1, <1>2, <1>9 DEF Chain, old
    <3>2. s.program_counter + 1 \in 1 .. Len(CodeOf(p, s.function))  BY <1>2, <1>3
    <3> QED  BY <2>2, <3>1, <3>2, <1>2, <1>8 DEF Linked, FrameDataSize
  <2> QED  BY <2>1, <2>2
<1>15. SavedFramePointer(after, 0) = SavedFramePointer(cs, 0)
  BY <1>2, <1>4, <1>7 DEF SavedFramePointer
<1>16. SavedFramePointer(after, 0) \in Nat  BY <1>1, <1>15 DEF Chain
<1>17. Chain(p, after, [function |-> index, program_counter |-> 0], all)
  BY <1>10, <1>11, <1>12, <1>13, <1>14, <1>16 DEF Chain
<1>18. new \in Nat /\ new # 0 /\ new \notin frames  BY <1>2, <1>4, <1>9
<1>19. SameFrames(cs, after, frames)
  <2>1. FunctionIndex(after, 0) = FunctionIndex(cs, 0)  BY <1>2, <1>4, <1>7 DEF FunctionIndex
  <2> QED  BY <1>9, <2>1 DEF SameFrames
<1> QED  BY <1>7, <1>8, <1>17, <1>18, <1>19 DEF after, new, old

(* The first frame of a thread.                                             *)
LEMMA ChainFirst ==
  ASSUME NEW p, WellFormed(p), NEW index \in Indices(p)
  PROVE  LET first == PushFrame(NewCallStack(CallStackSize), index, VarcOf(p, index), 0)
         IN  /\ Chain(p, first, [function |-> index, program_counter |-> 0], {0})
             /\ first.frame_pointer = 0 /\ FunctionIndex(first, 0) = index
<1> DEFINE first == PushFrame(NewCallStack(CallStackSize), index, VarcOf(p, index), 0)
<1>1. CallStackSize \in Nat /\ CallStackSize >= 3  BY CallStackAssumption DEF FrameDataSize
<1>2. /\ first.frame_pointer = 0 /\ first.top = 3 + VarcOf(p, index)
      /\ first.memory[0] = index /\ first.memory[1] = 0
  BY <1>1 DEF PushFrame, NewCallStack, FrameDataSize
<1> HIDE DEF first
<1>3. VarcOf(p, index) \in Nat  BY FunctionTypes
<1>4. Newest(p, first, [function |-> index, program_counter |-> 0])
  BY <1>2, <1>3 DEF Newest, FrameDataSize, FunctionIndex
<1>5. Chain(p, first, [function |-> index, program_counter |-> 0], {0})
  BY <1>1, <1>2, <1>4 DEF Chain, Apart, FunctionIndex, SavedFramePointer
<1>6. FunctionIndex(first, 0) = index  BY <1>2 DEF FunctionIndex
<1> QED  BY <1>2, <1>5, <1>6 DEF first

(* pop_frame, unless it pops the first frame.                               *)
LEMMA ChainPop ==
  ASSUME NEW p, WellFormed(p), NEW cs, NEW s, NEW frames \in SUBSET Nat, Chain(p, cs, s, frames),
         PopFrame(cs).top # 0, Shaped(cs)
  PROVE  Chain(p, PopFrame(cs),
           [function |-> FunctionIndex(PopFrame(cs), PopFrame(cs).frame_pointer),
            program_counter |-> SavedProgramCounter(cs, cs.frame_pointer)],
           frames \ {cs.frame_pointer})
<1> DEFINE after == PopFrame(cs)
           fp == cs.frame_pointer
           below == SavedFramePointer(cs, fp)
           pc == SavedProgramCounter(cs, fp)
<1>1. Chain(p, cs, s, frames)  OBVIOUS
<1>2. after.memory = cs.memory /\ after.top = fp /\ after.frame_pointer = below
  BY DEF PopFrame, Shaped
<1> HIDE DEF after
<1>3. fp \in Nat /\ fp \in frames /\ fp # 0  BY <1>1, <1>2 DEF Chain, Newest, after
<1>4. Linked(p, cs, fp, frames)  BY <1>1, <1>3 DEF Chain
<1>5. \A f : /\ FunctionIndex(after, f) = FunctionIndex(cs, f)
             /\ SavedFramePointer(after, f) = SavedFramePointer(cs, f)
             /\ SavedProgramCounter(after, f) = SavedProgramCounter(cs, f)
  BY <1>2 DEF FunctionIndex, SavedFramePointer, SavedProgramCounter
<1>6. /\ below \in frames /\ below \in Nat
      /\ fp = below + 3 + VarcOf(p, FunctionIndex(cs, below))
      /\ pc \in 1 .. Len(CodeOf(p, FunctionIndex(cs, below)))
  BY <1>4 DEF Linked, FrameDataSize
<1>7. \A f \in frames : FunctionIndex(cs, f) \in Indices(p) /\ VarcOf(p, FunctionIndex(cs, f)) \in Nat
  BY <1>1, FunctionTypes DEF Chain
<1>8. below < fp  BY <1>3, <1>6, <1>7
<1>9. pc \in Nat  BY <1>6, <1>7, FunctionTypes
<1> DEFINE s2 == [function |-> FunctionIndex(after, after.frame_pointer), program_counter |-> pc]
           rest == frames \ {fp}
<1>10. Newest(p, after, s2)
  BY <1>2, <1>5, <1>6, <1>9 DEF Newest, FrameDataSize
<1>11. after.frame_pointer \in rest /\ rest \subseteq 0 .. after.frame_pointer
  <2>1. below \in rest  BY <1>3, <1>6, <1>8
  <2>2. ASSUME NEW f \in rest  PROVE f \in 0 .. below
    <3>1. f \in Nat /\ f < fp  BY <1>1, <1>3 DEF Chain
    <3>2. ~ (below < f)
      <4>1. below < f => fp <= f  BY <1>1, <1>6, <1>7 DEF Chain, Apart, FrameDataSize
      <4> QED  BY <4>1, <3>1, <1>3
    <3> QED  BY <3>1, <3>2, <1>6
  <2> QED  BY <1>2, <2>1, <2>2
<1>12. \A f \in rest : FunctionIndex(after, f) \in Indices(p) /\ f + 2 \in 0 .. (CallStackSize - 1)
  BY <1>1, <1>5 DEF Chain
<1>13. Apart(p, after, rest)  BY <1>1, <1>5 DEF Chain, Apart
<1>14. ASSUME NEW f \in rest \ {0}  PROVE Linked(p, after, f, rest)
  <2>1. Linked(p, cs, f, frames)  BY <1>1 DEF Chain
  <2>2. SavedFramePointer(cs, f) \in frames
        /\ f = SavedFramePointer(cs, f) + 3 + VarcOf(p, FunctionIndex(cs, SavedFramePointer(cs, f)))
    BY <2>1 DEF Linked, FrameDataSize
  <2>3. f \in Nat /\ f <= fp /\ SavedFramePointer(cs, f) \in Nat
    <3>1. frames \subseteq 0 .. fp  BY <1>1 DEF Chain
    <3>2. f \in 0 .. fp  BY <3>1
    <3>3. SavedFramePointer(cs, f) \in Nat  BY <2>2
    <3> QED  BY <3>2, <3>3, <1>3
  <2>4. VarcOf(p, FunctionIndex(cs, SavedFramePointer(cs, f))) \in Nat  BY <2>2, <1>7
  <2>5. SavedFramePointer(cs, f) # fp  BY <2>2, <2>3, <2>4, <1>3
  <2> QED  BY <2>1, <2>2, <2>5, <1>5 DEF Linked
<1>15. SavedFramePointer(after, 0) \in Nat  BY <1>1, <1>5 DEF Chain
<1>16. Chain(p, after, s2, rest)  BY <1>10, <1>11, <1>12, <1>13, <1>14, <1>15 DEF Chain
<1> QED  BY <1>16 DEF after

(* store_local, and the captures that become locals.                        *)
LEMMA ChainStoreLocal ==
  ASSUME NEW p, WellFormed(p), NEW cs, Shaped(cs), NEW s,
         NEW frames \in SUBSET Nat, Chain(p, cs, s, frames), NEW index \in Nat, NEW word
  PROVE  /\ Chain(p, StoreLocal(cs, index, word), s, frames)
         /\ SameFrames(cs, StoreLocal(cs, index, word), frames)
         /\ StoreLocal(cs, index, word).frame_pointer = cs.frame_pointer
<1> DEFINE after == StoreLocal(cs, index, word)
           address == LocalAddress(cs, index)
<1>1. cs.frame_pointer \in Nat  BY DEF Chain, Newest
<1>2. address > cs.frame_pointer + 2  BY <1>1 DEF LocalAddress, FrameDataSize
<1>3. /\ after.frame_pointer = cs.frame_pointer /\ after.top = cs.top
      /\ after.memory = [cs.memory EXCEPT ![address] = word]
  BY DEF StoreLocal, Shaped
<1>4. ASSUME NEW a \in 0 .. (cs.frame_pointer + 2)  PROVE after.memory[a] = cs.memory[a]
  <2>1. a # address  BY <1>1, <1>2
  <2>2. a \in 0 .. (CallStackSize - 1)
    <3>1. cs.frame_pointer + 2 \in 0 .. (CallStackSize - 1)  BY DEF Chain
    <3> QED  BY <3>1, <1>1, CallStackAssumption
  <2> HIDE DEF after, address
  <2>3. a \in DOMAIN cs.memory  BY <2>2 DEF Shaped
  <2> QED  BY <1>3, <2>1, <2>3
<1> HIDE DEF after
<1>5. Chain(p, after, s, frames) /\ SameFrames(cs, after, frames)  BY <1>3, <1>4, ChainWrite
<1> QED  BY <1>3, <1>5 DEF after

LEMMA ChainStoreLocals ==
  ASSUME NEW p, WellFormed(p), NEW cs, Shaped(cs), NEW s,
         NEW frames \in SUBSET Nat, Chain(p, cs, s, frames),
         NEW count \in Nat, NEW words, DOMAIN words = 1 .. count
  PROVE  /\ Chain(p, StoreLocals(cs, words), s, frames)
         /\ SameFrames(cs, StoreLocals(cs, words), frames)
         /\ StoreLocals(cs, words).frame_pointer = cs.frame_pointer
<1> DEFINE after == StoreLocals(cs, words)
           first == cs.frame_pointer + 3
<1>1. cs.frame_pointer \in Nat  BY DEF Chain, Newest
<1>2. /\ after.frame_pointer = cs.frame_pointer /\ after.top = cs.top
      /\ after.memory = [b \in DOMAIN cs.memory |->
           IF b - first + 1 \in DOMAIN words THEN words[b - first + 1] ELSE cs.memory[b]]
  <2>1. LocalAddress(cs, 0) = first  BY <1>1 DEF LocalAddress, FrameDataSize
  <2> HIDE DEF first
  <2> QED  BY <2>1 DEF StoreLocals, Shaped
<1> HIDE DEF after
<1>3. ASSUME NEW a \in 0 .. (cs.frame_pointer + 2)  PROVE after.memory[a] = cs.memory[a]
  <2>1. a \in 0 .. (CallStackSize - 1)
    <3>1. cs.frame_pointer + 2 \in 0 .. (CallStackSize - 1)  BY DEF Chain
    <3> QED  BY <3>1, <1>1, CallStackAssumption
  <2>2. a \in DOMAIN cs.memory  BY <2>1 DEF Shaped
  <2>3. a - first + 1 \notin 1 .. count  BY <1>1
  <2> HIDE DEF first
  <2>4. a - first + 1 \notin DOMAIN words  BY <2>3
  <2> QED  BY <1>2, <2>2, <2>4
<1>4. Chain(p, after, s, frames) /\ SameFrames(cs, after, frames)  BY <1>2, <1>3, ChainWrite
<1> QED  BY <1>2, <1>4 DEF after

(* The operations of CallStack keep the shape of a call stack.              *)
LEMMA KeepShape ==
  ASSUME NEW cs, Shaped(cs)
  PROVE  /\ \A index, varc, pc : Shaped(PushFrame(cs, index, varc, pc))
         /\ Shaped(PopFrame(cs))
         /\ \A index, word : Shaped(StoreLocal(cs, index, word))
         /\ \A words : Shaped(StoreLocals(cs, words))
<1>1. DOMAIN cs.memory = 0 .. (CallStackSize - 1)  BY DEF Shaped
<1>2. ASSUME NEW m, m = [a \in 0 .. (CallStackSize - 1) |-> m[a]], NEW high, NEW frame
      PROVE  Shaped([memory |-> m, top |-> high, frame_pointer |-> frame])
  BY <1>2 DEF Shaped
<1>3. cs = [memory |-> cs.memory, top |-> cs.top, frame_pointer |-> cs.frame_pointer]
  BY DEF Shaped
<1>4. ASSUME NEW index, NEW varc, NEW pc  PROVE Shaped(PushFrame(cs, index, varc, pc))
  <2> DEFINE m == PushFrame(cs, index, varc, pc).memory
  <2>1. m = [cs.memory EXCEPT ![cs.top] = index, ![cs.top + 1] = cs.frame_pointer,
                              ![cs.top + 2] = pc]
    BY DEF PushFrame
  <2>2. m = [a \in DOMAIN m |-> m[a]] /\ DOMAIN m = DOMAIN cs.memory  BY <2>1, Zenon
  <2>3. PushFrame(cs, index, varc, pc)
          = [memory |-> m, top |-> cs.top + FrameDataSize + varc, frame_pointer |-> cs.top]
    BY DEF PushFrame
  <2> HIDE DEF m
  <2>4. m = [a \in 0 .. (CallStackSize - 1) |-> m[a]]  BY <1>1, <2>2
  <2> QED  BY <1>2, <2>3, <2>4
<1>5. Shaped(PopFrame(cs))
  <2>1. cs.memory = [a \in 0 .. (CallStackSize - 1) |-> cs.memory[a]]  BY DEF Shaped
  <2> QED  BY <1>2, <2>1 DEF PopFrame
<1>6. ASSUME NEW index, NEW word  PROVE Shaped(StoreLocal(cs, index, word))
  <2> DEFINE m == [cs.memory EXCEPT ![LocalAddress(cs, index)] = word]
  <2>1. m = [a \in 0 .. (CallStackSize - 1) |-> m[a]]  BY <1>1
  <2>2. StoreLocal(cs, index, word)
          = [memory |-> m, top |-> cs.top, frame_pointer |-> cs.frame_pointer]
    BY <1>3 DEF StoreLocal
  <2> HIDE DEF m
  <2> QED  BY <1>2, <2>1, <2>2
<1>7. ASSUME NEW words  PROVE Shaped(StoreLocals(cs, words))
  <2> DEFINE first == LocalAddress(cs, 0)
             m == [a \in DOMAIN cs.memory |->
                     IF a - first + 1 \in DOMAIN words
                     THEN words[a - first + 1] ELSE cs.memory[a]]
  <2>1. m = [a \in 0 .. (CallStackSize - 1) |-> m[a]]  BY <1>1
  <2>2. StoreLocals(cs, words)
          = [memory |-> m, top |-> cs.top, frame_pointer |-> cs.frame_pointer]
    BY <1>3 DEF StoreLocals
  <2> HIDE DEF m
  <2> QED  BY <1>2, <2>1, <2>2
<1> QED  BY <1>4, <1>5, <1>6, <1>7

LEMMA NewShape == Shaped(NewCallStack(CallStackSize))
BY DEF NewCallStack, Shaped

-----------------------------------------------------------------------------
(* Facts about the step of one thread.                                      *)

(* A step changes one thread, and leaves a chain there.                     *)
LEMMA ThreadStep ==
  ASSUME IInv, NEW t \in Threads, NEW cs, NEW s, NEW place,
         program' = program,
         call_stack' = [call_stack EXCEPT ![t] = cs],
         stream' = [stream EXCEPT ![t] = s],
         status' = [status EXCEPT ![t] = place],
         Shaped(cs), place # "absent",
         s = [function |-> s.function, program_counter |-> s.program_counter],
         (SlotsFit(program) /\ Live(place)) => HasChain(program, cs, s)
  PROVE  IInv'
<1>1. DOMAIN status = Threads /\ DOMAIN call_stack = Threads /\ DOMAIN stream = Threads
  BY DEF IInv, Shapes
<1>2. /\ call_stack'[t] = cs /\ stream'[t] = s /\ status'[t] = place
      /\ \A u \in Threads \ {t} : /\ call_stack'[u] = call_stack[u]
                                  /\ stream'[u] = stream[u]
                                  /\ status'[u] = status[u]
  BY <1>1
<1>3. Shapes'
  <2>1. WellFormed(program')  BY DEF IInv, Shapes
  <2>2. status' = [u \in Threads |-> status'[u]]  BY <1>1
  <2>3. call_stack' = [u \in Threads |-> call_stack'[u]]  BY <1>1
  <2>4. stream' = [u \in Threads |-> [function |-> stream'[u].function,
                                      program_counter |-> stream'[u].program_counter]]
    <3>1. ASSUME NEW u \in Threads
          PROVE  stream'[u] = [function |-> stream'[u].function,
                               program_counter |-> stream'[u].program_counter]
      <4>1. CASE u = t  BY <4>1, <1>2
      <4>2. CASE u # t
        <5>1. stream'[u] = stream[u]  BY <4>2, <1>2
        <5>2. stream[u] = [function |-> stream[u].function,
                           program_counter |-> stream[u].program_counter]
          BY DEF IInv, Shapes
        <5> QED  BY <5>1, <5>2
      <4> QED  BY <4>1, <4>2
    <3>2. stream' = [u \in Threads |-> stream'[u]]  BY <1>1
    <3> QED  BY <3>1, <3>2, Zenon
  <2>5. \A u \in Threads : Shaped(call_stack'[u])  BY <1>2 DEF IInv, Shapes
  <2>6. \A u \in Threads : status'[u] = "absent" => call_stack'[u] = NewCallStack(CallStackSize)
    BY <1>2 DEF IInv, Shapes
  <2> QED  BY <2>1, <2>2, <2>3, <2>4, <2>5, <2>6 DEF Shapes
<1>4. FramesTile'
  <2> SUFFICES ASSUME SlotsFit(program'), NEW u \in Threads, Live(status'[u])
               PROVE  HasChain(program', call_stack'[u], stream'[u])
    BY DEF FramesTile
  <2>1. CASE u = t  BY <2>1, <1>2
  <2>2. CASE u # t
    <3>1. HasChain(program, call_stack[u], stream[u])
      BY <2>2, <1>2 DEF IInv, FramesTile
    <3> QED  BY <2>2, <3>1, <1>2
  <2> QED  BY <2>1, <2>2
<1> QED  BY <1>3, <1>4 DEF IInv

(* A step that leaves the call stack alone.                                 *)
LEMMA AdvanceStep ==
  ASSUME IInv, NEW t \in Threads, NEW pc, NEW place,
         program' = program, call_stack' = call_stack,
         stream' = [stream EXCEPT ![t].program_counter = pc],
         status' = [status EXCEPT ![t] = place],
         Live(status[t]), place # "absent",
         (SlotsFit(program) /\ Live(place)) => pc \in Nat
  PROVE  IInv'
<1> DEFINE s == [function |-> stream[t].function, program_counter |-> pc]
<1>1. DOMAIN call_stack = Threads /\ DOMAIN stream = Threads /\ Shaped(call_stack[t])
  BY DEF IInv, Shapes
<1>2. call_stack' = [call_stack EXCEPT ![t] = call_stack[t]]
  <2>1. call_stack = [u \in Threads |-> call_stack[u]]  BY DEF IInv, Shapes
  <2> QED  BY <2>1
<1>3. stream' = [stream EXCEPT ![t] = s]
  <2>1. PICK f, c : stream[t] = [function |-> f, program_counter |-> c]
    BY DEF IInv, Shapes
  <2>2. stream[t].function = f  BY <2>1
  <2>3. [stream[t] EXCEPT !.program_counter = pc] = s  BY <2>1, <2>2
  <2>4. [stream EXCEPT ![t].program_counter = pc]
          = [stream EXCEPT ![t] = [stream[t] EXCEPT !.program_counter = pc]]
    OBVIOUS
  <2> HIDE DEF s
  <2> QED  BY <2>3, <2>4
<1>4. s = [function |-> s.function, program_counter |-> s.program_counter]  OBVIOUS
<1>5. SlotsFit(program) => HasChain(program, call_stack[t], stream[t])
  BY DEF IInv, FramesTile
<1>6. s.function = stream[t].function /\ s.program_counter = pc  OBVIOUS
<1> HIDE DEF s
<1>7. (SlotsFit(program) /\ Live(place)) => HasChain(program, call_stack[t], s)
  BY <1>5, <1>6, ChainAdvance
<1> QED  BY <1>1, <1>2, <1>3, <1>4, <1>7, ThreadStep

(* The instruction a running thread is at.                                  *)
LEMMA AtInstruction ==
  ASSUME IInv, NEW t \in Threads, status[t] = "running", ~ AtEnd(t), SlotsFit(program)
  PROVE  /\ HasChain(program, call_stack[t], stream[t])
         /\ stream[t].function \in Indices(program)
         /\ stream[t].program_counter \in Nat
         /\ stream[t].program_counter < Len(CodeOf(program, stream[t].function))
         /\ stream[t].program_counter + 1 \in DOMAIN CodeOf(program, stream[t].function)
         /\ Current(t) = CodeOf(program, stream[t].function)[stream[t].program_counter + 1]
         /\ stream[t].function + 1 \in DOMAIN program.functions
<1>1. HasChain(program, call_stack[t], stream[t])
  BY DEF IInv, FramesTile, Live
<1>2. stream[t].function \in Indices(program) /\ stream[t].program_counter \in Nat
  BY <1>1 DEF HasChain, Chain, Newest
<1>3. Code(t) = CodeOf(program, stream[t].function)  BY DEF Code, Function, CodeOf
<1>4. WellFormed(program)  BY DEF IInv, Shapes
<1>5. /\ CodeOf(program, stream[t].function) \in Seq(Instructions)
      /\ Len(CodeOf(program, stream[t].function)) \in Nat
      /\ stream[t].function + 1 \in DOMAIN program.functions
  BY <1>2, <1>4, FunctionTypes
<1>6. stream[t].program_counter < Len(CodeOf(program, stream[t].function))
  BY <1>2, <1>3, <1>5 DEF AtEnd
<1>7. stream[t].program_counter + 1 \in DOMAIN CodeOf(program, stream[t].function)
  BY <1>2, <1>5, <1>6
<1> QED  BY <1>1, <1>2, <1>3, <1>5, <1>6, <1>7 DEF Current

(* An operation that is no native function is the opcode.                   *)
LEMMA OpcodeOf ==
  ASSUME IInv, NEW t \in Threads, status[t] = "running", ~ AtEnd(t), SlotsFit(program),
         Operation(t) \notin Natives
  PROVE  Current(t).opcode = Operation(t)
<1>1. WellFormed(program)  BY DEF IInv, Shapes
<1>2. CASE Current(t).opcode = "invoke_native"
  <2> DEFINE f == program.functions[stream[t].function + 1]
             j == stream[t].program_counter + 1
  <2>1. stream[t].function + 1 \in DOMAIN program.functions /\ j \in DOMAIN f.code
        /\ Current(t) = f.code[j]
    BY AtInstruction DEF CodeOf
  <2>2. CallsExist(program, f)  BY <1>1, <2>1 DEF WellFormed
  <2> HIDE DEF f, j
  <2>3. Index(t) + 1 \in DOMAIN program.natives  BY <1>2, <2>1, <2>2 DEF CallsExist, Index
  <2>4. program.natives \in Seq(Natives)  BY <1>1 DEF WellFormed
  <2>5. program.natives[Index(t) + 1] \in Natives  BY <2>3, <2>4
  <2> QED  BY <1>2, <2>5 DEF Operation, OperationOf, Index
<1>3. CASE Current(t).opcode # "invoke_native"  BY <1>3 DEF Operation, OperationOf
<1> QED  BY <1>2, <1>3

LEMMA FrameRoom ==
  ASSUME NEW cs, Shaped(cs), NEW captures \in Nat, FrameFits(cs, captures), cs.top \in Nat
  PROVE  FrameFits(cs, 0)
BY CallStackAssumption DEF FrameFits, InBounds, Shaped, FrameDataSize

LEMMA TopOfChain ==
  ASSUME NEW p, WellFormed(p), NEW cs, NEW s, HasChain(p, cs, s)
  PROVE  /\ cs.frame_pointer \in Nat /\ cs.top \in Nat /\ s.function \in Indices(p)
         /\ cs.top = cs.frame_pointer + 3 + VarcOf(p, s.function)
<1>1. /\ cs.frame_pointer \in Nat /\ s.function \in Indices(p)
      /\ cs.top = cs.frame_pointer + FrameDataSize + VarcOf(p, s.function)
  BY DEF HasChain, Chain, Newest
<1>2. VarcOf(p, s.function) \in Nat  BY <1>1, FunctionTypes
<1> QED  BY <1>1, <1>2 DEF FrameDataSize

-----------------------------------------------------------------------------
(* The steps that change a call stack.                                      *)

LEMMA InvokeStaticStep ==
  ASSUME IInv, NEW t \in Threads, InvokeStatic(t)
  PROVE  IInv'
<1> DEFINE cs == Called(t, Index(t))
           s == [function |-> Index(t), program_counter |-> 0]
<1>1. /\ status[t] = "running" /\ ~ AtEnd(t) /\ Operation(t) = "invoke_static"
      /\ FrameFits(call_stack[t], 0)
  BY DEF InvokeStatic, Executes, Ready, Failure, Undefined
<1>2. /\ program' = program /\ call_stack' = [call_stack EXCEPT ![t] = cs]
      /\ stream' = [stream EXCEPT ![t] = s] /\ status' = status
  BY DEF InvokeStatic, JumpTo
<1>3. status = [u \in Threads |-> status[u]]  BY DEF IInv, Shapes
<1>4. status' = [status EXCEPT ![t] = status[t]]  BY <1>2, <1>3
<1>5. Shaped(call_stack[t]) /\ WellFormed(program)  BY DEF IInv, Shapes
<1>6. Shaped(cs)  BY <1>5, KeepShape DEF Called
<1>7. ASSUME SlotsFit(program)  PROVE HasChain(program, cs, s)
  <2> DEFINE f == program.functions[stream[t].function + 1]
             j == stream[t].program_counter + 1
  <2>1. /\ HasChain(program, call_stack[t], stream[t])
        /\ stream[t].program_counter < Len(CodeOf(program, stream[t].function))
        /\ j \in DOMAIN f.code /\ Current(t) = f.code[j]
        /\ stream[t].function + 1 \in DOMAIN program.functions
    BY <1>1, <1>7, AtInstruction DEF CodeOf
  <2>2. Current(t).opcode = "invoke_static"  BY <1>1, <1>7, OpcodeOf DEF Natives
  <2>3. CallsExist(program, f)  BY <1>5, <2>1 DEF WellFormed
  <2>4. f.code[j].opcode = "invoke_static" /\ Index(t) = f.code[j].index
    BY <2>1, <2>2 DEF Index
  <2>5. Index(t) \in Indices(program)  BY <2>1, <2>3, <2>4 DEF CallsExist
  <2>6. Calls(CodeOf(program, stream[t].function)[j], Index(t))  BY <2>4 DEF Calls, CodeOf
  <2> HIDE DEF f
  <2>7. cs = PushFrame(call_stack[t], Index(t), VarcOf(program, Index(t)), j)
    BY DEF Called, Function, VarcOf
  <2> HIDE DEF cs
  <2>8. PICK frames \in SUBSET Nat : Chain(program, call_stack[t], stream[t], frames)
    BY <2>1 DEF HasChain
  <2> DEFINE all == frames \cup {call_stack[t].top}
  <2>9. Chain(program, cs, s, all) /\ call_stack[t].top \in Nat
    BY <1>1, <1>5, <2>1, <2>5, <2>6, <2>7, <2>8, ChainPush
  <2>10. all \in SUBSET Nat  BY <2>8, <2>9
  <2> QED  BY <2>9, <2>10 DEF HasChain
<1> HIDE DEF cs
<1>8. s = [function |-> s.function, program_counter |-> s.program_counter]  OBVIOUS
<1> HIDE DEF s
<1> QED  BY <1>1, <1>2, <1>4, <1>6, <1>7, <1>8, ThreadStep

(* The captures of a closure fit, as the words before them do.              *)
LEMMA CapturesOf ==
  ASSUME IInv, NEW a, ClosureIndex(a) \in Indices(program)
  PROVE  /\ DOMAIN Captures(a) = 1 .. program.functions[ClosureIndex(a) + 1].capc
         /\ Len(Captures(a)) = program.functions[ClosureIndex(a) + 1].capc
         /\ program.functions[ClosureIndex(a) + 1].capc \in Nat
<1>1. WellFormed(program)  BY DEF IInv, Shapes
<1>2. program.functions[ClosureIndex(a) + 1].capc \in Nat  BY <1>1, FunctionTypes
<1>3. DOMAIN Captures(a) = 1 .. program.functions[ClosureIndex(a) + 1].capc
  BY DEF Captures, Function
<1>4. Len(Captures(a)) = program.functions[ClosureIndex(a) + 1].capc
  <2> DEFINE capc == program.functions[ClosureIndex(a) + 1].capc
             S == {heap[a + i] : i \in 1 .. capc}
  <2>1. Captures(a) = [i \in 1 .. capc |-> heap[a + i]]  BY DEF Captures, Function
  <2> HIDE DEF capc
  <2>2. \A i \in 1 .. capc : heap[a + i] \in S  OBVIOUS
  <2> HIDE DEF S
  <2>3. capc \in Nat  BY <1>2 DEF capc
  <2>4. Captures(a) \in [1 .. capc -> S]  BY <2>1, <2>2
  <2>5. Captures(a) \in Seq(S)  BY <2>3, <2>4
  <2>6. DOMAIN Captures(a) = 1 .. capc  BY <2>4
  <2>7. Len(Captures(a)) = capc  BY <2>3, <2>5, <2>6
  <2> QED  BY <2>7 DEF capc
<1> QED  BY <1>2, <1>3, <1>4

LEMMA InvokeDynamicStep ==
  ASSUME IInv, NEW t \in Threads, InvokeDynamic(t)
  PROVE  IInv'
<1> DEFINE a == Operand(t, 1)
           index == ClosureIndex(a)
           pushed == Called(t, index)
           cs == StoreLocals(pushed, Captures(a))
           s == [function |-> index, program_counter |-> 0]
<1>1. /\ status[t] = "running" /\ ~ AtEnd(t) /\ Operation(t) = "invoke_dynamic"
      /\ HoldsClosure(a) /\ FrameFits(call_stack[t], Len(Captures(a)))
  BY DEF InvokeDynamic, Executes, Ready, Failure, Undefined
<1>2. /\ program' = program /\ call_stack' = [call_stack EXCEPT ![t] = cs]
      /\ stream' = [stream EXCEPT ![t] = s] /\ status' = status
  BY DEF InvokeDynamic, JumpTo
<1>3. status = [u \in Threads |-> status[u]]  BY DEF IInv, Shapes
<1>4. status' = [status EXCEPT ![t] = status[t]]  BY <1>2, <1>3
<1>5. Shaped(call_stack[t]) /\ WellFormed(program)  BY DEF IInv, Shapes
<1>6. Shaped(pushed) /\ Shaped(cs)
  <2>1. Shaped(pushed)  BY <1>5, KeepShape DEF Called
  <2> HIDE DEF pushed
  <2> QED  BY <2>1, KeepShape
<1>7. index \in Indices(program)  BY <1>1 DEF HoldsClosure, Functions
<1> HIDE DEF a
<1>8. ASSUME SlotsFit(program)  PROVE HasChain(program, cs, s)
  <2> DEFINE j == stream[t].program_counter + 1
  <2>1. /\ HasChain(program, call_stack[t], stream[t])
        /\ stream[t].program_counter < Len(CodeOf(program, stream[t].function))
        /\ Current(t) = CodeOf(program, stream[t].function)[j]
    BY <1>1, <1>8, AtInstruction
  <2>2. Current(t).opcode = "invoke_dynamic"  BY <1>1, <1>8, OpcodeOf DEF Natives
  <2>3. Calls(CodeOf(program, stream[t].function)[j], index)  BY <2>1, <2>2 DEF Calls
  <2>4. Len(Captures(a)) \in Nat  BY <1>7, CapturesOf
  <2>5. FrameFits(call_stack[t], 0)  BY <1>1, <1>5, <2>1, <2>4, FrameRoom, TopOfChain
  <2>6. pushed = PushFrame(call_stack[t], index, VarcOf(program, index), j)
    BY DEF Called, Function, VarcOf
  <2> HIDE DEF pushed, index
  <2>7. PICK frames \in SUBSET Nat : Chain(program, pushed, s, frames)
    <3>1. PICK f \in SUBSET Nat : Chain(program, call_stack[t], stream[t], f)
      BY <2>1 DEF HasChain
    <3> DEFINE all == f \cup {call_stack[t].top}
    <3>2. Chain(program, pushed, s, all) /\ call_stack[t].top \in Nat
      BY <1>5, <1>7, <2>1, <2>3, <2>5, <2>6, <3>1, ChainPush
    <3>3. all \in SUBSET Nat  BY <3>1, <3>2
    <3> QED  BY <3>2, <3>3
  <2>8. DOMAIN Captures(a) = 1 .. program.functions[index + 1].capc
        /\ program.functions[index + 1].capc \in Nat
    BY <1>7, CapturesOf DEF index
  <2> HIDE DEF s
  <2> QED  BY <1>5, <1>6, <2>7, <2>8, ChainStoreLocals DEF HasChain
<1> HIDE DEF cs
<1>9. s = [function |-> s.function, program_counter |-> s.program_counter]  OBVIOUS
<1> HIDE DEF s
<1> QED  BY <1>1, <1>2, <1>4, <1>6, <1>8, <1>9, ThreadStep

LEMMA RetStep ==
  ASSUME IInv, NEW t \in Threads, Ret(t)
  PROVE  IInv'
<1> DEFINE cs == call_stack[t]
           caller == PopFrame(cs)
           s == [function |-> FunctionIndex(caller, caller.frame_pointer),
                 program_counter |-> SavedProgramCounter(cs, cs.frame_pointer)]
<1>1. /\ status[t] = "running" /\ program' = program
      /\ call_stack' = [call_stack EXCEPT ![t] = caller]
  BY DEF Ret, Executes, Ready
<1>2. Shaped(cs) /\ WellFormed(program)  BY DEF IInv, Shapes
<1>3. Shaped(caller)  BY <1>2, KeepShape
<1>4. CASE caller.top = 0
  <2> DEFINE e == [function |-> stream[t].function,
                   program_counter |-> stream[t].program_counter + 1]
  <2>1. status' = [status EXCEPT ![t] = "ended"]  BY <1>4 DEF Ret, Empty
  <2>2. stream' = [stream EXCEPT ![t].program_counter = stream[t].program_counter + 1]
    BY <1>4 DEF Ret, Empty, NextInstruction
  <2>3. stream' = [stream EXCEPT ![t] = e]
    <3>1. PICK f, c : stream[t] = [function |-> f, program_counter |-> c]
      BY DEF IInv, Shapes
    <3>2. stream[t].function = f  BY <3>1
    <3>3. ASSUME NEW pc  PROVE [stream[t] EXCEPT !.program_counter = pc]
                                 = [function |-> stream[t].function, program_counter |-> pc]
      BY <3>1, <3>2
    <3>4. [stream[t] EXCEPT !.program_counter = stream[t].program_counter + 1] = e  BY <3>3
    <3> HIDE DEF e
    <3> QED  BY <2>2, <3>4
  <2>4. e = [function |-> e.function, program_counter |-> e.program_counter]  OBVIOUS
  <2> HIDE DEF e, caller
  <2> QED  BY <1>1, <1>3, <2>1, <2>3, <2>4, ThreadStep DEF Live
<1>5. CASE caller.top # 0
  <2>1. /\ status' = status /\ stream' = [stream EXCEPT ![t] = s]
    BY <1>5 DEF Ret, Empty, JumpTo
  <2>2. status = [u \in Threads |-> status[u]]  BY DEF IInv, Shapes
  <2>3. status' = [status EXCEPT ![t] = status[t]]  BY <2>1, <2>2
  <2>4. s = [function |-> s.function, program_counter |-> s.program_counter]  OBVIOUS
  <2>5. ASSUME SlotsFit(program)  PROVE HasChain(program, caller, s)
    <3>1. HasChain(program, cs, stream[t])  BY <1>1, <2>5 DEF IInv, FramesTile, Live
    <3>2. PICK frames \in SUBSET Nat : Chain(program, cs, stream[t], frames)  BY <3>1 DEF HasChain
    <3> DEFINE rest == frames \ {cs.frame_pointer}
    <3>3. Chain(program, caller, s, rest)  BY <1>2, <1>5, <3>2, ChainPop
    <3>4. rest \in SUBSET Nat  BY <3>2
    <3> QED  BY <3>3, <3>4 DEF HasChain
  <2> HIDE DEF s, caller
  <2> QED  BY <1>1, <1>3, <2>1, <2>3, <2>4, <2>5, ThreadStep
<1> QED  BY <1>4, <1>5

LEMMA StoreStep ==
  ASSUME IInv, NEW t \in Threads, Store(t)
  PROVE  IInv'
<1> DEFINE pc == stream[t].program_counter + 1
           s == [function |-> stream[t].function, program_counter |-> pc]
           cs == StoreLocal(call_stack[t], Index(t), Operand(t, 1))
<1>1. /\ status[t] = "running" /\ ~ AtEnd(t) /\ Operation(t) = "store"
  BY DEF Store, Executes, Ready
<1>2. /\ program' = program /\ call_stack' = [call_stack EXCEPT ![t] = cs] /\ status' = status
      /\ stream' = [stream EXCEPT ![t].program_counter = pc]
  BY DEF Store, NextInstruction
<1>3. status' = [status EXCEPT ![t] = status[t]]
  <2>1. status = [u \in Threads |-> status[u]]  BY DEF IInv, Shapes
  <2> QED  BY <1>2, <2>1
<1>4. stream' = [stream EXCEPT ![t] = s]
  <2>1. PICK f, c : stream[t] = [function |-> f, program_counter |-> c]
    BY DEF IInv, Shapes
  <2>2. stream[t].function = f  BY <2>1
  <2> HIDE DEF pc
  <2>3. [stream[t] EXCEPT !.program_counter = pc] = s  BY <2>1, <2>2
  <2> HIDE DEF s
  <2> QED  BY <1>2, <2>3
<1>5. Shaped(call_stack[t]) /\ WellFormed(program)  BY DEF IInv, Shapes
<1>6. Shaped(cs)  BY <1>5, KeepShape
<1>7. s = [function |-> s.function, program_counter |-> s.program_counter]  OBVIOUS
<1>8. ASSUME SlotsFit(program)  PROVE HasChain(program, cs, s)
  <2> DEFINE f == stream[t].function
  <2>1. /\ HasChain(program, call_stack[t], stream[t]) /\ f \in Indices(program)
        /\ stream[t].program_counter \in Nat
        /\ stream[t].program_counter + 1 \in DOMAIN CodeOf(program, f)
        /\ Current(t) = CodeOf(program, f)[stream[t].program_counter + 1]
    BY <1>1, <1>8, AtInstruction
  <2>2. Current(t).opcode = "store"  BY <1>1, <1>8, OpcodeOf DEF Natives
  <2>3. Index(t) \in 0 .. (VarcOf(program, f) - 1)
    BY <1>5, <1>8, <2>1, <2>2, LocalsFit DEF Index
  <2>4. Index(t) \in Nat  BY <1>5, <2>1, <2>3, FunctionTypes
  <2> DEFINE g == stream[t]
  <2>5. HasChain(program, cs, g)  BY <1>5, <2>1, <2>4, ChainStoreLocal DEF HasChain
  <2>6. s.function = g.function /\ s.program_counter \in Nat  BY <2>1
  <2> HIDE DEF s, cs, g
  <2> QED  BY <2>5, <2>6, ChainAdvance
<1> HIDE DEF s, cs
<1> QED  BY <1>1, <1>2, <1>3, <1>4, <1>6, <1>7, <1>8, ThreadStep

LEMMA BranchStep ==
  ASSUME IInv, NEW t \in Threads, Branch(t)
  PROVE  IInv'
<1>1. /\ status[t] = "running" /\ ~ AtEnd(t) /\ Operation(t) \in {"goto", "if_t", "if_f"}
      /\ program' = program /\ call_stack' = call_stack /\ status' = status
  BY DEF Branch, Executes, Ready
<1>2. status' = [status EXCEPT ![t] = "running"]
  <2>1. status = [u \in Threads |-> status[u]]  BY DEF IInv, Shapes
  <2> QED  BY <1>1, <2>1
<1>3. PICK pc \in {stream[t].program_counter + 1, Index(t)} :
        stream' = [stream EXCEPT ![t].program_counter = pc]
  <2>1. CASE NextInstruction(t)  BY <2>1 DEF NextInstruction
  <2>2. CASE JumpTo(t, stream[t].function, Index(t))
    <3> DEFINE to == Index(t)
               s == [function |-> stream[t].function, program_counter |-> to]
    <3>1. PICK f, c : stream[t] = [function |-> f, program_counter |-> c]
      BY DEF IInv, Shapes
    <3>2. stream[t].function = f  BY <3>1
    <3> HIDE DEF to
    <3>3. [stream[t] EXCEPT !.program_counter = to] = s  BY <3>1, <3>2
    <3>4. stream' = [stream EXCEPT ![t] = s]  BY <2>2 DEF JumpTo, to
    <3> HIDE DEF s
    <3>5. stream' = [stream EXCEPT ![t].program_counter = to]  BY <3>3, <3>4
    <3> QED  BY <3>5 DEF to
  <2> QED  BY <2>1, <2>2 DEF Branch
<1>4. ASSUME SlotsFit(program)  PROVE pc \in Nat
  <2> DEFINE f == program.functions[stream[t].function + 1]
             j == stream[t].program_counter + 1
  <2>1. /\ stream[t].function \in Indices(program)
        /\ stream[t].program_counter \in Nat /\ j \in DOMAIN f.code /\ Current(t) = f.code[j]
        /\ stream[t].function + 1 \in DOMAIN program.functions
    BY <1>1, <1>4, AtInstruction DEF CodeOf
  <2>2. WellFormed(program)  BY DEF IInv, Shapes
  <2>3. JumpsStay(f) /\ Len(f.code) \in Nat  BY <2>1, <2>2, FunctionTypes DEF WellFormed, CodeOf
  <2>4. Current(t).opcode \in {"goto", "if_t", "if_f"}  BY <1>1, <1>4, OpcodeOf DEF Natives
  <2>5. Index(t) \in Nat
    <3> HIDE DEF f, j
    <3>1. f.code[j].index \in 0 .. Len(f.code)  BY <2>1, <2>3, <2>4 DEF JumpsStay
    <3> QED  BY <2>1, <2>3, <3>1 DEF Index
  <2> QED  BY <1>3, <2>1, <2>5
<1> QED  BY <1>1, <1>2, <1>3, <1>4, AdvanceStep DEF Live

(* new_thread moves past the instruction, and starts another thread.        *)
LEMMA NewThreadStep ==
  ASSUME IInv, NEW t \in Threads, NewThread(t)
  PROVE  IInv'
<1> DEFINE a == Operand(t, 1)
           c == CHOOSE x \in Absent : TRUE
           index == ClosureIndex(a)
           pushed == PushFrame(NewCallStack(CallStackSize), index, Function(index).varc, 0)
           cs == StoreLocals(pushed, Captures(a))
           s == [function |-> index, program_counter |-> 0]
           e == [function |-> stream[t].function,
                 program_counter |-> stream[t].program_counter + 1]
<1>1. /\ status[t] = "running" /\ ~ AtEnd(t) /\ program' = program /\ HoldsClosure(a)
  BY DEF NewThread, Executes, Ready, Failure, Undefined
<1>2. c \in Absent  BY DEF NewThread
<1>3. c \in Threads /\ status[c] = "absent" /\ c # t  BY <1>1, <1>2 DEF Absent
<1> HIDE DEF c
<1>4. /\ status' = [status EXCEPT ![c] = "running"]
      /\ call_stack' = [call_stack EXCEPT ![c] = cs]
      /\ stream' = [stream EXCEPT ![t].program_counter = stream[t].program_counter + 1, ![c] = s]
  BY DEF NewThread, Starts, c
<1>5. WellFormed(program) /\ index \in Indices(program)
  BY <1>1 DEF IInv, Shapes, HoldsClosure, Functions
<1>6. Shaped(pushed) /\ Shaped(cs)
  <2>1. Shaped(pushed)  BY NewShape, KeepShape
  <2> HIDE DEF pushed
  <2> QED  BY <2>1, KeepShape
<1> HIDE DEF a
<1>7. HasChain(program, cs, s)
  <2>1. pushed = PushFrame(NewCallStack(CallStackSize), index, VarcOf(program, index), 0)
    BY DEF Function, VarcOf
  <2> HIDE DEF pushed
  <2> DEFINE frames == {0}
  <2>2. Chain(program, pushed, s, frames) /\ frames \in SUBSET Nat  BY <2>1, <1>5, ChainFirst
  <2>3. DOMAIN Captures(a) = 1 .. program.functions[index + 1].capc
        /\ program.functions[index + 1].capc \in Nat
    BY <1>5, CapturesOf
  <2> HIDE DEF s, index, frames
  <2> QED  BY <1>5, <1>6, <2>2, <2>3, ChainStoreLocals DEF HasChain
<1>8. /\ s = [function |-> s.function, program_counter |-> s.program_counter]
      /\ e = [function |-> e.function, program_counter |-> e.program_counter]
      /\ e.function = stream[t].function
      /\ e.program_counter = stream[t].program_counter + 1
  OBVIOUS
<1> HIDE DEF s, cs
<1>9. DOMAIN status = Threads /\ DOMAIN call_stack = Threads /\ DOMAIN stream = Threads
  BY DEF IInv, Shapes
<1>10. stream'[t] = e
  <2>1. PICK f, pc : stream[t] = [function |-> f, program_counter |-> pc]
    BY DEF IInv, Shapes
  <2>2. stream[t].function = f  BY <2>1
  <2>3. ASSUME NEW n  PROVE [stream[t] EXCEPT !.program_counter = n]
                              = [function |-> stream[t].function, program_counter |-> n]
    BY <2>1, <2>2
  <2>4. [stream[t] EXCEPT !.program_counter = stream[t].program_counter + 1] = e  BY <2>3
  <2> HIDE DEF e
  <2> QED  BY <2>4, <1>3, <1>4, <1>9
<1> HIDE DEF e
<1>11. /\ status'[c] = "running" /\ call_stack'[c] = cs /\ stream'[c] = s
       /\ status'[t] = status[t] /\ call_stack'[t] = call_stack[t]
       /\ \A u \in Threads \ {t, c} : /\ call_stack'[u] = call_stack[u]
                                      /\ stream'[u] = stream[u]
                                      /\ status'[u] = status[u]
  BY <1>3, <1>4, <1>9
<1>12. Shapes'
  <2>1. WellFormed(program')  BY <1>1, <1>5
  <2>2. status' = [u \in Threads |-> status'[u]]  BY <1>4, <1>9
  <2>3. call_stack' = [u \in Threads |-> call_stack'[u]]  BY <1>4, <1>9
  <2>4. stream' = [u \in Threads |-> [function |-> stream'[u].function,
                                      program_counter |-> stream'[u].program_counter]]
    <3>1. ASSUME NEW u \in Threads
          PROVE  stream'[u] = [function |-> stream'[u].function,
                               program_counter |-> stream'[u].program_counter]
      <4>1. CASE u = t  BY <4>1, <1>8, <1>10
      <4>2. CASE u = c  BY <4>2, <1>8, <1>11
      <4>3. CASE u # t /\ u # c
        <5>1. stream'[u] = stream[u]  BY <4>3, <1>11
        <5>2. stream[u] = [function |-> stream[u].function,
                           program_counter |-> stream[u].program_counter]
          BY DEF IInv, Shapes
        <5> QED  BY <5>1, <5>2
      <4> QED  BY <4>1, <4>2, <4>3
    <3>2. stream' = [u \in Threads |-> stream'[u]]  BY <1>4, <1>9
    <3> QED  BY <3>1, <3>2, Zenon
  <2>5. \A u \in Threads : Shaped(call_stack'[u])  BY <1>6, <1>11 DEF IInv, Shapes
  <2>6. \A u \in Threads : status'[u] = "absent" => call_stack'[u] = NewCallStack(CallStackSize)
    BY <1>1, <1>11 DEF IInv, Shapes
  <2> QED  BY <2>1, <2>2, <2>3, <2>4, <2>5, <2>6 DEF Shapes
<1>13. FramesTile'
  <2> SUFFICES ASSUME SlotsFit(program'), NEW u \in Threads, Live(status'[u])
               PROVE  HasChain(program', call_stack'[u], stream'[u])
    BY DEF FramesTile
  <2>1. CASE u = t
    <3>1. HasChain(program, call_stack[t], stream[t]) /\ stream[t].program_counter \in Nat
      BY <1>1, AtInstruction
    <3>2. e.program_counter \in Nat  BY <3>1, <1>8
    <3>3. HasChain(program, call_stack[t], e)  BY <3>1, <3>2, <1>8, ChainAdvance
    <3> QED  BY <2>1, <3>3, <1>1, <1>10, <1>11
  <2>2. CASE u = c  BY <2>2, <1>1, <1>7, <1>11
  <2>3. CASE u # t /\ u # c
    <3>1. HasChain(program, call_stack[u], stream[u])
      BY <2>3, <1>1, <1>11 DEF IInv, FramesTile
    <3> QED  BY <2>3, <3>1, <1>1, <1>11
  <2> QED  BY <2>1, <2>2, <2>3
<1> QED  BY <1>12, <1>13 DEF IInv

(* The other steps leave the call stacks alone.                             *)
LEMMA NextStep ==
  ASSUME IInv, NEW t \in Threads, status[t] = "running", ~ AtEnd(t),
         program' = program, call_stack' = call_stack, NextInstruction(t),
         NEW place \in {"running", "sending", "receiving"},
         status' = [status EXCEPT ![t] = place]
  PROVE  IInv'
<1> DEFINE pc == stream[t].program_counter + 1
<1>1. SlotsFit(program) => pc \in Nat  BY AtInstruction
<1>2. stream' = [stream EXCEPT ![t].program_counter = pc]  BY DEF NextInstruction
<1> HIDE DEF pc
<1> QED  BY <1>1, <1>2, AdvanceStep DEF Live

LEMMA StayStep ==
  ASSUME IInv, NEW t \in Threads, Live(status[t]),
         program' = program, call_stack' = call_stack, stream' = stream,
         NEW place \in {"running", "ended"}, status' = [status EXCEPT ![t] = place]
  PROVE  IInv'
<1>1. /\ call_stack = [u \in Threads |-> call_stack[u]]
      /\ stream = [u \in Threads |-> [function |-> stream[u].function,
                                      program_counter |-> stream[u].program_counter]]
      /\ Shaped(call_stack[t])
  BY DEF IInv, Shapes
<1>2. call_stack' = [call_stack EXCEPT ![t] = call_stack[t]]
      /\ stream' = [stream EXCEPT ![t] = stream[t]]
  BY <1>1
<1>3. stream[t] = [function |-> stream[t].function,
                   program_counter |-> stream[t].program_counter]
  BY <1>1
<1>4. SlotsFit(program) => HasChain(program, call_stack[t], stream[t])
  BY DEF IInv, FramesTile
<1> QED  BY <1>1, <1>2, <1>3, <1>4, ThreadStep

LEMMA StutterStep ==
  ASSUME IInv, UNCHANGED <<program, status, stream, call_stack>>
  PROVE  IInv'
<1>1. Shapes'  BY DEF IInv, Shapes
<1>2. FramesTile'  BY DEF IInv, FramesTile
<1> QED  BY <1>1, <1>2 DEF IInv

-----------------------------------------------------------------------------
LEMMA InitIInv == Init => IInv
<1> SUFFICES ASSUME Init  PROVE IInv  OBVIOUS
<1> DEFINE first == PushFrame(NewCallStack(CallStackSize), program.main,
                              Function(program.main).varc, 0)
<1>1. WellFormed(program) /\ program.main \in Indices(program)
  BY ProgramsAssumption DEF Init, WellFormed
<1>2. first = PushFrame(NewCallStack(CallStackSize), program.main,
                        VarcOf(program, program.main), 0)
  BY DEF Function, VarcOf
<1> HIDE DEF first
<1>3. Shaped(first)  BY <1>2, NewShape, KeepShape
<1>4. HasChain(program, first, [function |-> program.main, program_counter |-> 0])
  <2> DEFINE frames == {0}
  <2>1. Chain(program, first, [function |-> program.main, program_counter |-> 0], frames)
        /\ frames \in SUBSET Nat
    BY <1>1, <1>2, ChainFirst
  <2> HIDE DEF frames
  <2> QED  BY <2>1 DEF HasChain
<1>5. \A t \in Threads :
        /\ status[t] = IF t = Main THEN "running" ELSE "absent"
        /\ stream[t] = [function |-> IF t = Main THEN program.main ELSE 0, program_counter |-> 0]
        /\ call_stack[t] = IF t = Main THEN first ELSE NewCallStack(CallStackSize)
  BY DEF Init, first
<1>6. Shapes
  <2>1. /\ status = [t \in Threads |-> status[t]]
        /\ call_stack = [t \in Threads |-> call_stack[t]]
    BY DEF Init
  <2>2. stream = [t \in Threads |-> [function |-> stream[t].function,
                                     program_counter |-> stream[t].program_counter]]
    BY DEF Init
  <2>3. \A t \in Threads : Shaped(call_stack[t])  BY <1>3, <1>5, NewShape
  <2>4. \A t \in Threads : status[t] = "absent" => call_stack[t] = NewCallStack(CallStackSize)
    BY <1>5
  <2> QED  BY <1>1, <2>1, <2>2, <2>3, <2>4 DEF Shapes
<1>7. FramesTile
  <2> SUFFICES ASSUME NEW t \in Threads, Live(status[t])
               PROVE  HasChain(program, call_stack[t], stream[t])
    BY DEF FramesTile
  <2>1. t = Main  BY <1>5 DEF Live
  <2> QED  BY <2>1, <1>4, <1>5
<1> QED  BY <1>6, <1>7 DEF IInv

LEMMA NextIInv == IInv /\ [Next]_vars => IInv'
<1> SUFFICES ASSUME IInv, [Next]_vars  PROVE IInv'  OBVIOUS
<1>1. CASE UNCHANGED vars  BY <1>1, StutterStep DEF vars, local
<1>2. ASSUME NEW t \in Threads, Step(t)  PROVE IInv'
  <2>1. status = [u \in Threads |-> status[u]]  BY DEF IInv, Shapes
  <2>2. [status EXCEPT ![t] = status[t]] = status  BY <2>1
  <2>3. CASE Load(t)
    BY <2>2, <2>3, NextStep DEF Load, Executes, Ready
  <2>4. CASE Store(t)  BY <2>4, StoreStep
  <2>5. CASE Shuffle(t)
    BY <2>2, <2>5, NextStep DEF Shuffle, Executes, Ready
  <2>6. CASE Calculate(t)
    BY <2>2, <2>6, NextStep DEF Calculate, Executes, Ready
  <2>7. CASE Branch(t)  BY <2>7, BranchStep
  <2>8. CASE WLoad(t)
    BY <2>2, <2>8, NextStep DEF WLoad, Executes, Ready
  <2>9. CASE WStore(t)
    BY <2>2, <2>9, NextStep DEF WStore, Executes, Ready
  <2>10. CASE New(t)
    BY <2>2, <2>10, NextStep DEF New, Executes, Ready
  <2>11. CASE InvokeStatic(t)  BY <2>11, InvokeStaticStep
  <2>12. CASE InvokeDynamic(t)  BY <2>12, InvokeDynamicStep
  <2>13. CASE Ret(t)  BY <2>13, RetStep
  <2>14. CASE FallOff(t)
    BY <2>14, StayStep DEF FallOff, Ready, Live
  <2>15. CASE NewThread(t)  BY <2>15, NewThreadStep
  <2>16. CASE NewChan(t)
    BY <2>2, <2>16, NextStep DEF NewChan, Executes, Ready
  <2>17. CASE NewSlice(t)
    BY <2>2, <2>17, NextStep DEF NewSlice, Executes, Ready
  <2>18. CASE ChanSend(t)
    BY <2>18, NextStep DEF ChanSend, Enter, Executes, Ready
  <2>19. CASE ChanRecv(t)
    BY <2>19, NextStep DEF ChanRecv, Enter, Executes, Ready
  <2>20. CASE Send(t)
    BY <2>20, StayStep DEF Send, Leave, Live
  <2>21. CASE Receive(t)
    BY <2>21, StayStep DEF Receive, Leave, Live
  <2>22. CASE PrintValue(t)
    BY <2>2, <2>22, NextStep DEF PrintValue, Executes, Ready
  <2>23. CASE Fail(t)
    BY <2>23, StutterStep DEF Fail, local
  <2> QED
    BY <1>2, <2>3, <2>4, <2>5, <2>6, <2>7, <2>8, <2>9, <2>10, <2>11, <2>12, <2>13, <2>14,
       <2>15, <2>16, <2>17, <2>18, <2>19, <2>20, <2>21, <2>22, <2>23 DEF Step
<1> QED  BY <1>1, <1>2 DEF Next

(* In every program whose locals fit their frames, the words of the call    *)
(* stack of a live thread are always the frames of the calls it is in the   *)
(* middle of, one behind the other, each returning behind the instruction   *)
(* that called it: this is what push_frame and pop_frame promise Thread::run.*)
THEOREM FramesTileTheorem == Spec => []FramesTile
<1>1. IInv => FramesTile  BY DEF IInv
<1> QED  BY <1>1, InitIInv, NextIInv, PTL DEF Spec

-----------------------------------------------------------------------------
(* The frames that a walk down the saved frame pointers meets.              *)

(* The recursion of Frames has a solution: the pointers it follows fall.    *)
LEMMA FramesUnfold ==
  ASSUME NEW cs, NEW size \in Nat, DOMAIN cs.memory = 0 .. (size - 1), ~ Empty(cs)
  PROVE  \E down :
           /\ Frames(cs) = down[cs.frame_pointer]
           /\ \A frame \in 0 .. (size - 1) :
                down[frame] = {frame} \cup IF SavedFramePointer(cs, frame) \in 0 .. (frame - 1)
                                           THEN down[SavedFramePointer(cs, frame)] ELSE {}
<1> DEFINE D == 0 .. (size - 1)
           V == SUBSET D
           saved(frame) == SavedFramePointer(cs, frame)
           Body(g) == [frame \in D |->
                         {frame} \cup IF saved(frame) \in 0 .. (frame - 1)
                                      THEN g[saved(frame)] ELSE {}]
           body == [g \in [D -> V] |-> Body(g)]
           down == CHOOSE g : g = Body(g)
<1>1. D \in SUBSET Nat  OBVIOUS
<1>2. \A frame \in D :
        saved(frame) \in 0 .. (frame - 1) => saved(frame) \in D /\ saved(frame) < frame
  OBVIOUS
<1>3. Frames(cs) = down[cs.frame_pointer]  BY Zenon DEF Frames
<1> HIDE DEF saved
<1>4. ASSUME NEW g \in [D -> V]  PROVE body[g] = Body(g) /\ Body(g) \in [D -> V]
  <2>1. ASSUME NEW frame \in D  PROVE Body(g)[frame] \in V
    BY <1>2, <2>1
  <2> QED  BY <2>1
<1>5. LooksBelow(body, D, V)
  <2>1. ASSUME NEW f \in [D -> V], NEW g \in [D -> V], NEW n \in D,
               \A m \in D : m < n => f[m] = g[m]
        PROVE  body[f][n] = body[g][n]
    BY <1>2, <1>4, <2>1
  <2> HIDE DEF D, V
  <2>2. body \in [[D -> V] -> [D -> V]]  BY <1>4
  <2> HIDE DEF body
  <2> QED  BY <2>1, <2>2 DEF LooksBelow
<1>6. \E f : f = Body(f)
  <2>1. V # {}  OBVIOUS
  <2> HIDE DEF D, V, body, Body
  <2>2. PICK f \in [D -> V] : f = body[f]  BY <1>1, <1>5, <2>1, RecursiveFunction
  <2> QED  BY <2>2, <1>4
<1>7. down = Body(down)  BY <1>6
<1>8. \A frame \in D :
        down[frame] = {frame} \cup IF saved(frame) \in 0 .. (frame - 1)
                                   THEN down[saved(frame)] ELSE {}
  <2> HIDE DEF down
  <2> QED  BY <1>7
<1> QED  BY <1>3, <1>8 DEF saved

(* They are frames of the chain.                                            *)
LEMMA FramesInChain ==
  ASSUME NEW p, WellFormed(p), NEW cs, Shaped(cs), NEW s, NEW frames, Chain(p, cs, s, frames)
  PROVE  Frames(cs) \subseteq frames
<1> DEFINE D == 0 .. (CallStackSize - 1)
           saved(frame) == SavedFramePointer(cs, frame)
<1>1. CallStackSize \in Nat /\ DOMAIN cs.memory = D  BY CallStackAssumption DEF Shaped
<1>2. \A f \in frames : f \in D
  <2> SUFFICES ASSUME NEW f \in frames  PROVE f \in D  OBVIOUS
  <2>1. f \in Nat /\ f + 2 \in 0 .. (CallStackSize - 1)  BY DEF Chain, Newest
  <2> QED  BY <1>1, <2>1
<1>3. \A f \in frames : f # 0 => saved(f) \in frames  BY DEF Chain, Linked
<1>4. CASE Empty(cs)  BY <1>4 DEF Frames
<1>5. CASE ~ Empty(cs)
  <2>1. PICK down :
          /\ Frames(cs) = down[cs.frame_pointer]
          /\ \A frame \in D :
               down[frame] = {frame} \cup IF saved(frame) \in 0 .. (frame - 1)
                                          THEN down[saved(frame)] ELSE {}
    BY <1>1, <1>5, FramesUnfold
  <2> DEFINE S == {f \in D : f \in frames => down[f] \subseteq frames}
  <2>2. ASSUME NEW n \in D, \A m \in D : m < n => m \in S  PROVE n \in S
    <3> SUFFICES ASSUME n \in frames  PROVE down[n] \subseteq frames  OBVIOUS
    <3>1. CASE saved(n) \in 0 .. (n - 1)
      <4>1. n # 0 /\ saved(n) \in frames /\ saved(n) < n  BY <1>3, <3>1
      <4>2. saved(n) \in D  BY <1>2, <4>1
      <4>3. down[saved(n)] \subseteq frames  BY <2>2, <4>1, <4>2
      <4> HIDE DEF D, saved
      <4> QED  BY <2>1, <3>1, <4>3
    <3>2. CASE saved(n) \notin 0 .. (n - 1)
      <4> HIDE DEF D, saved
      <4> QED  BY <2>1, <3>2
    <3> QED  BY <3>1, <3>2
  <2> HIDE DEF S
  <2>3. D \subseteq S
    <3>1. D \in SUBSET Nat  BY <1>1
    <3> HIDE DEF D
    <3> QED  BY <2>2, <3>1, StrongInduction
  <2>4. cs.frame_pointer \in frames  BY DEF Chain
  <2> QED  BY <1>2, <2>1, <2>3, <2>4 DEF S
<1> QED  BY <1>4, <1>5

(* What a debugger would show is true: the call chain read back from raw    *)
(* memory, saved frame pointer by saved frame pointer, is that of the calls *)
(* the thread is in the middle of, so that ret finds its caller.            *)
THEOREM CallChainTheorem == Spec => []CallChain
<1>1. IInv => CallChain
  <2> SUFFICES ASSUME IInv, SlotsFit(program), NEW t \in Threads,
                      status[t] \notin {"absent", "ended"}
               PROVE  /\ stream[t].function = FunctionIndex(call_stack[t], call_stack[t].frame_pointer)
                      /\ call_stack[t].top = call_stack[t].frame_pointer + FrameDataSize
                                               + Function(stream[t].function).varc
                      /\ \A frame \in Frames(call_stack[t]) \ {0} : Follows(call_stack[t], frame)
    BY DEF CallChain
  <2> DEFINE cs == call_stack[t]
  <2>1. Shaped(cs) /\ WellFormed(program)  BY DEF IInv, Shapes
  <2>2. PICK frames \in SUBSET Nat : Chain(program, cs, stream[t], frames)
    BY DEF IInv, FramesTile, Live, HasChain
  <2>3. Frames(cs) \subseteq frames  BY <2>1, <2>2, FramesInChain
  <2>4. ASSUME NEW frame \in Frames(cs) \ {0}  PROVE Follows(cs, frame)
    <3>1. Linked(program, cs, frame, frames)  BY <2>2, <2>3 DEF Chain
    <3> QED  BY <3>1 DEF Linked, Follows, Calls, VarcOf, CodeOf, Function
  <2>5. Newest(program, cs, stream[t])  BY <2>2 DEF Chain
  <2> QED  BY <2>4, <2>5 DEF Newest, VarcOf, Function
<1> QED  BY <1>1, InitIInv, NextIInv, PTL DEF Spec

-----------------------------------------------------------------------------
(* What a step writes.                                                      *)

WritesOwnFrame(cs, after) ==
  \A a \in DOMAIN cs.memory :
    after.memory[a] # cs.memory[a] => a \in after.frame_pointer .. (after.top - 1)

LEMMA PushWrites ==
  ASSUME NEW cs, Shaped(cs), cs.top \in Nat, NEW index, NEW varc \in Nat, NEW pc
  PROVE  WritesOwnFrame(cs, PushFrame(cs, index, varc, pc))
<1> DEFINE after == PushFrame(cs, index, varc, pc)
           new == cs.top
<1>1. /\ after.frame_pointer = new /\ after.top = new + 3 + varc
      /\ after.memory = [cs.memory EXCEPT ![new] = index, ![new + 1] = cs.frame_pointer,
                                          ![new + 2] = pc]
  BY DEF PushFrame, FrameDataSize
<1> HIDE DEF after
<1>2. new \in new .. (new + 3 + varc - 1) /\ new + 1 \in new .. (new + 3 + varc - 1)
      /\ new + 2 \in new .. (new + 3 + varc - 1)
  OBVIOUS
<1> HIDE DEF new
<1>3. ASSUME NEW a \in DOMAIN cs.memory, a # new, a # new + 1, a # new + 2
      PROVE  after.memory[a] = cs.memory[a]
  BY <1>1, <1>3
<1>4. WritesOwnFrame(cs, after)  BY <1>1, <1>2, <1>3 DEF WritesOwnFrame
<1> QED  BY <1>4 DEF after

LEMMA StoreLocalsWrites ==
  ASSUME NEW cs, Shaped(cs), cs.frame_pointer \in Nat, NEW varc \in Nat,
         cs.top = cs.frame_pointer + 3 + varc,
         NEW words, NEW count \in Nat, DOMAIN words = 1 .. count, count <= varc
  PROVE  /\ WritesOwnFrame(cs, StoreLocals(cs, words))
         /\ StoreLocals(cs, words).frame_pointer = cs.frame_pointer
         /\ StoreLocals(cs, words).top = cs.top
<1> DEFINE after == StoreLocals(cs, words)
           first == cs.frame_pointer + 3
<1>1. /\ after.frame_pointer = cs.frame_pointer /\ after.top = cs.top
      /\ after.memory = [b \in DOMAIN cs.memory |->
           IF b - first + 1 \in DOMAIN words THEN words[b - first + 1] ELSE cs.memory[b]]
  <2>1. LocalAddress(cs, 0) = first  BY DEF LocalAddress, FrameDataSize
  <2> HIDE DEF first
  <2> QED  BY <2>1 DEF StoreLocals, Shaped
<1> HIDE DEF after
<1>2. ASSUME NEW a \in DOMAIN cs.memory, after.memory[a] # cs.memory[a]
      PROVE  a \in after.frame_pointer .. (after.top - 1)
  <2>1. a \in 0 .. (CallStackSize - 1)  BY <1>2 DEF Shaped
  <2> HIDE DEF first
  <2>2. a - first + 1 \in 1 .. count  BY <1>1, <1>2
  <2> USE DEF first
  <2> QED  BY <1>1, <2>1, <2>2
<1> QED  BY <1>1, <1>2 DEF WritesOwnFrame, after

LEMMA StoreLocalWrites ==
  ASSUME NEW cs, Shaped(cs), cs.frame_pointer \in Nat, NEW varc \in Nat,
         cs.top = cs.frame_pointer + 3 + varc, NEW index \in 0 .. (varc - 1), NEW word
  PROVE  WritesOwnFrame(cs, StoreLocal(cs, index, word))
<1> DEFINE after == StoreLocal(cs, index, word)
           address == cs.frame_pointer + 3 + index
<1>1. /\ after.frame_pointer = cs.frame_pointer /\ after.top = cs.top
      /\ after.memory = [cs.memory EXCEPT ![address] = word]
  BY DEF StoreLocal, Shaped, LocalAddress, FrameDataSize
<1> HIDE DEF after
<1>2. address \in cs.frame_pointer .. (cs.top - 1)  OBVIOUS
<1> HIDE DEF address
<1>3. ASSUME NEW a \in DOMAIN cs.memory, a # address  PROVE after.memory[a] = cs.memory[a]
  BY <1>1, <1>3
<1>4. WritesOwnFrame(cs, after)  BY <1>1, <1>2, <1>3 DEF WritesOwnFrame
<1> QED  BY <1>4 DEF after

(* push_frame, and the captures that become locals of the new frame.        *)
LEMMA PushThenStoreWrites ==
  ASSUME NEW p, WellFormed(p), SlotsFit(p), NEW index \in Indices(p),
         NEW cs, Shaped(cs), cs.top \in Nat, NEW pc,
         NEW words, DOMAIN words = 1 .. p.functions[index + 1].capc
  PROVE  WritesOwnFrame(cs, StoreLocals(PushFrame(cs, index, VarcOf(p, index), pc), words))
<1> DEFINE pushed == PushFrame(cs, index, VarcOf(p, index), pc)
           after == StoreLocals(pushed, words)
           count == p.functions[index + 1].capc
           varc == VarcOf(p, index)
<1>1. varc \in Nat /\ count \in Nat /\ count <= varc  BY FunctionTypes, LocalsFit
<1>2. pushed.frame_pointer = cs.top /\ pushed.top = cs.top + 3 + varc
  BY DEF PushFrame, FrameDataSize
<1>3. WritesOwnFrame(cs, pushed) /\ Shaped(pushed)  BY <1>1, PushWrites, KeepShape
<1>4. DOMAIN words = 1 .. count  OBVIOUS
<1> HIDE DEF pushed, count, varc
<1>5. /\ WritesOwnFrame(pushed, after)
      /\ after.frame_pointer = pushed.frame_pointer /\ after.top = pushed.top
  BY <1>1, <1>2, <1>3, <1>4, StoreLocalsWrites
<1>6. DOMAIN pushed.memory = DOMAIN cs.memory  BY <1>3 DEF Shaped
<1> HIDE DEF after
<1>7. WritesOwnFrame(cs, after)
  BY <1>3, <1>5, <1>6 DEF WritesOwnFrame
<1> QED  BY <1>7 DEF after, pushed, varc

OwnFrames ==
  SlotsFit(program) => \A t \in Threads : \A a \in DOMAIN call_stack[t].memory :
    call_stack'[t].memory[a] # call_stack[t].memory[a] =>
      a \in call_stack'[t].frame_pointer .. (call_stack'[t].top - 1)

(* A step changes the call stack of one thread.                             *)
LEMMA OneWrites ==
  ASSUME IInv, NEW t \in Threads, NEW cs, call_stack' = [call_stack EXCEPT ![t] = cs],
         SlotsFit(program) => WritesOwnFrame(call_stack[t], cs)
  PROVE  OwnFrames
<1>1. DOMAIN call_stack = Threads  BY DEF IInv, Shapes
<1>2. call_stack'[t] = cs /\ \A u \in Threads \ {t} : call_stack'[u] = call_stack[u]
  BY <1>1
<1> QED  BY <1>2 DEF OwnFrames, WritesOwnFrame

LEMMA NoneWrites == UNCHANGED call_stack => OwnFrames
BY DEF OwnFrames

LEMMA NextOwnFrames == IInv /\ [Next]_vars => OwnFrames
<1> SUFFICES ASSUME IInv, [Next]_vars  PROVE OwnFrames  OBVIOUS
<1>1. CASE UNCHANGED vars  BY <1>1, NoneWrites DEF vars, local
<1>2. ASSUME NEW t \in Threads, Step(t)  PROVE OwnFrames
  <2> DEFINE cs == call_stack[t]
  <2>1. Shaped(cs) /\ WellFormed(program)  BY DEF IInv, Shapes
  <2>2. CASE Store(t)
    <3> DEFINE after == StoreLocal(cs, Index(t), Operand(t, 1))
               f == stream[t].function
    <3>1. /\ status[t] = "running" /\ ~ AtEnd(t) /\ Operation(t) = "store"
          /\ call_stack' = [call_stack EXCEPT ![t] = after]
      BY <2>2 DEF Store, Executes, Ready
    <3>2. ASSUME SlotsFit(program)  PROVE WritesOwnFrame(cs, after)
      <4>1. /\ HasChain(program, cs, stream[t]) /\ f \in Indices(program)
            /\ stream[t].program_counter + 1 \in DOMAIN CodeOf(program, f)
            /\ Current(t) = CodeOf(program, f)[stream[t].program_counter + 1]
        BY <3>1, <3>2, AtInstruction
      <4>2. Current(t).opcode = "store"  BY <3>1, <3>2, OpcodeOf DEF Natives
      <4>3. Index(t) \in 0 .. (VarcOf(program, f) - 1)
        BY <2>1, <3>2, <4>1, <4>2, LocalsFit DEF Index
      <4>4. VarcOf(program, f) \in Nat  BY <2>1, <4>1, FunctionTypes
      <4>5. cs.frame_pointer \in Nat /\ cs.top = cs.frame_pointer + 3 + VarcOf(program, f)
        BY <2>1, <4>1, TopOfChain
      <4> HIDE DEF cs, f
      <4> QED  BY <2>1, <4>3, <4>4, <4>5, StoreLocalWrites
    <3> HIDE DEF after
    <3> QED  BY <3>1, <3>2, OneWrites
  <2>3. CASE InvokeStatic(t)
    <3> DEFINE after == Called(t, Index(t))
    <3>1. /\ status[t] = "running" /\ ~ AtEnd(t) /\ Operation(t) = "invoke_static"
          /\ call_stack' = [call_stack EXCEPT ![t] = after]
      BY <2>3 DEF InvokeStatic, Executes, Ready
    <3>2. ASSUME SlotsFit(program)  PROVE WritesOwnFrame(cs, after)
      <4> DEFINE f == program.functions[stream[t].function + 1]
                 j == stream[t].program_counter + 1
      <4>1. /\ HasChain(program, cs, stream[t])
            /\ j \in DOMAIN f.code /\ Current(t) = f.code[j]
            /\ stream[t].function + 1 \in DOMAIN program.functions
        BY <3>1, <3>2, AtInstruction DEF CodeOf
      <4>2. Current(t).opcode = "invoke_static"  BY <3>1, <3>2, OpcodeOf DEF Natives
      <4>3. CallsExist(program, f)  BY <2>1, <4>1 DEF WellFormed
      <4> HIDE DEF f
      <4>4. Index(t) \in Indices(program)  BY <4>1, <4>2, <4>3 DEF CallsExist, Index
      <4>5. VarcOf(program, Index(t)) \in Nat  BY <2>1, <4>4, FunctionTypes
      <4>6. cs.top \in Nat  BY <2>1, <4>1, TopOfChain
      <4>7. after = PushFrame(cs, Index(t), VarcOf(program, Index(t)), j)
        BY DEF Called, Function, VarcOf
      <4> HIDE DEF cs, after
      <4> QED  BY <2>1, <4>5, <4>6, <4>7, PushWrites
    <3> HIDE DEF after
    <3> QED  BY <3>1, <3>2, OneWrites
  <2>4. CASE InvokeDynamic(t)
    <3> DEFINE a == Operand(t, 1)
               index == ClosureIndex(a)
               after == StoreLocals(Called(t, index), Captures(a))
    <3>1. /\ status[t] = "running" /\ HoldsClosure(a)
          /\ call_stack' = [call_stack EXCEPT ![t] = after]
      BY <2>4 DEF InvokeDynamic, Executes, Ready, Failure, Undefined
    <3>2. ASSUME SlotsFit(program)  PROVE WritesOwnFrame(cs, after)
      <4>1. HasChain(program, cs, stream[t])
        BY <3>1, <3>2 DEF IInv, FramesTile, Live
      <4>2. cs.top \in Nat  BY <2>1, <4>1, TopOfChain
      <4>3. index \in Indices(program)  BY <3>1 DEF HoldsClosure, Functions
      <4> HIDE DEF a
      <4>4. DOMAIN Captures(a) = 1 .. program.functions[index + 1].capc  BY <4>3, CapturesOf
      <4>5. Called(t, index)
              = PushFrame(cs, index, VarcOf(program, index), stream[t].program_counter + 1)
        BY DEF Called, Function, VarcOf
      <4> HIDE DEF cs, index
      <4> QED  BY <2>1, <3>2, <4>2, <4>3, <4>4, <4>5, PushThenStoreWrites
    <3> HIDE DEF after
    <3> QED  BY <3>1, <3>2, OneWrites
  <2>5. CASE Ret(t)
    <3>1. call_stack' = [call_stack EXCEPT ![t] = PopFrame(cs)]  BY <2>5 DEF Ret
    <3>2. PopFrame(cs).memory = cs.memory  BY DEF PopFrame
    <3>3. WritesOwnFrame(cs, PopFrame(cs))  BY <3>2 DEF WritesOwnFrame
    <3> QED  BY <3>1, <3>3, OneWrites
  <2>6. CASE NewThread(t)
    <3> DEFINE a == Operand(t, 1)
               c == CHOOSE x \in Absent : TRUE
               index == ClosureIndex(a)
               fresh == NewCallStack(CallStackSize)
               after == StoreLocals(PushFrame(fresh, index, Function(index).varc, 0), Captures(a))
    <3>1. /\ c \in Absent /\ HoldsClosure(a) /\ call_stack' = [call_stack EXCEPT ![c] = after]
      BY <2>6 DEF NewThread, Starts, Executes, Failure, Undefined
    <3>2. c \in Threads /\ call_stack[c] = fresh  BY <3>1 DEF Absent, IInv, Shapes
    <3>3. ASSUME SlotsFit(program)  PROVE WritesOwnFrame(fresh, after)
      <4>1. index \in Indices(program)  BY <3>1 DEF HoldsClosure, Functions
      <4> HIDE DEF a
      <4>2. DOMAIN Captures(a) = 1 .. program.functions[index + 1].capc  BY <4>1, CapturesOf
      <4>3. Function(index).varc = VarcOf(program, index)  BY DEF Function, VarcOf
      <4>4. fresh.top \in Nat /\ Shaped(fresh)  BY NewShape DEF NewCallStack
      <4> HIDE DEF index, fresh
      <4> QED  BY <2>1, <3>3, <4>1, <4>2, <4>3, <4>4, PushThenStoreWrites
    <3> HIDE DEF after, c, fresh
    <3> QED  BY <3>1, <3>2, <3>3, OneWrites
  <2>7. CASE UNCHANGED call_stack  BY <2>7, NoneWrites
  <2>8. \/ Store(t) \/ InvokeStatic(t) \/ InvokeDynamic(t) \/ Ret(t) \/ NewThread(t)
        \/ UNCHANGED call_stack
    BY <1>2 DEF Step, Load, Shuffle, Calculate, Branch, WLoad, WStore, New, FallOff, NewChan,
                NewSlice, ChanSend, ChanRecv, Enter, Send, Receive, Leave, PrintValue, Fail, local
  <2> QED  BY <2>2, <2>3, <2>4, <2>5, <2>6, <2>7, <2>8
<1> QED  BY <1>1, <1>2 DEF Next

(* Whatever a function does, and whatever it calls, the locals of the       *)
(* functions that wait for it to return are as they left them: store_local, *)
(* push_frame and the captures of a closure write in the newest frame only. *)
THEOREM CallersKeepLocalsTheorem == Spec => CallersKeepLocals
<1>1. IInv /\ [Next]_vars => [OwnFrames]_vars  BY NextOwnFrames
<1> QED  BY <1>1, InitIInv, NextIInv, PTL DEF Spec, CallersKeepLocals, OwnFrames

-----------------------------------------------------------------------------
(* The types of the variables: no number leaves the range of a word, no     *)
(* stack and no buffer grows beyond its bound, and the channels threads     *)
(* wait in exist.                                                           *)

(* The conjuncts of TypeOK, by what the steps change.                       *)
StackType == [memory : Memory(CallStackSize), top : Nat, frame_pointer : Nat]
StreamType == [function : Functions, program_counter : Nat]
ChannelType == [capacity : UnsignedWord, buffer : Seq(Word)]

ThreadsTyped ==
  /\ status \in [Threads -> Statuses]
  /\ stream \in [Threads -> StreamType]
  /\ call_stack \in [Threads -> StackType]

OperandsTyped ==
  /\ operands \in [Threads -> Seq(Word)]
  /\ \A t \in Threads : Depth(t) <= OperandStackSize

WaitsTyped ==
  /\ waiting \in [Threads -> [channel : Nat, item : Word]]
  /\ \A t \in Threads :
       /\ status[t] \in {"sending", "receiving"} => waiting[t].channel + 1 \in DOMAIN channels
       /\ status[t] = "receiving" => Depth(t) < OperandStackSize

HeapTyped ==
  /\ heap \in Memory(HeapSize)
  /\ top \in 0 .. HeapSize

ChannelsTyped ==
  /\ channels \in Seq(ChannelType)
  /\ \A i \in DOMAIN channels : Len(channels[i].buffer) <= channels[i].capacity

EndTyped ==
  /\ output \in Seq(Word)
  /\ fault \in Faults \cup {"none"}

Typed ==
  /\ ThreadsTyped /\ OperandsTyped /\ WaitsTyped /\ HeapTyped /\ ChannelsTyped /\ EndTyped

TypeInv == IInv /\ FitsWords(program) /\ (SlotsFit(program) => Typed)

LEMMA TypedIsTypeOK == Typed => TypeOK
BY DEF Typed, ThreadsTyped, OperandsTyped, WaitsTyped, HeapTyped, ChannelsTyped, EndTyped,
       TypeOK, StackType, StreamType, ChannelType

-----------------------------------------------------------------------------
(* Facts about words and about the operations of CallStack.                 *)

LEMMA SmallWords ==
  /\ 0 \in Word /\ 1 \in Word
  /\ Word \subseteq Int
  /\ \A n \in Nat, m \in Word : n <= m => n \in Word
<1>1. Truth(TRUE) \in Word /\ Truth(FALSE) \in Word  BY TruthWord
<1>2. 0 \in Word /\ 1 \in Word  BY <1>1 DEF Truth
<1> QED  BY <1>2, WordRange

LEMMA CallStackTypes ==
  ASSUME NEW cs \in StackType
  PROVE  /\ \A index \in Word, varc \in Nat, pc \in Word :
              cs.frame_pointer \in Word => PushFrame(cs, index, varc, pc) \in StackType
         /\ SavedFramePointer(cs, cs.frame_pointer) \in Nat => PopFrame(cs) \in StackType
         /\ \A index, word \in Word : StoreLocal(cs, index, word) \in StackType
         /\ \A words : (\A i \in DOMAIN words : words[i] \in Word)
                          => StoreLocals(cs, words) \in StackType
<1> DEFINE D == 0 .. (CallStackSize - 1)
<1>1. /\ cs.memory \in [D -> Word] /\ cs.top \in Nat /\ cs.frame_pointer \in Nat
      /\ cs = [memory |-> cs.memory, top |-> cs.top, frame_pointer |-> cs.frame_pointer]
  BY DEF StackType, Memory
<1> HIDE DEF D
<1>2. ASSUME NEW m \in [D -> Word], NEW high \in Nat, NEW frame \in Nat
      PROVE  [memory |-> m, top |-> high, frame_pointer |-> frame] \in StackType
  BY <1>2 DEF StackType, Memory, D
<1>3. ASSUME NEW index \in Word, NEW varc \in Nat, NEW pc \in Word, cs.frame_pointer \in Word
      PROVE  PushFrame(cs, index, varc, pc) \in StackType
  <2> DEFINE m == [cs.memory EXCEPT ![cs.top] = index, ![cs.top + 1] = cs.frame_pointer,
                                    ![cs.top + 2] = pc]
  <2>1. m \in [D -> Word]  BY <1>1, <1>3
  <2>2. cs.top + FrameDataSize + varc \in Nat  BY <1>1 DEF FrameDataSize
  <2>3. PushFrame(cs, index, varc, pc)
          = [memory |-> m, top |-> cs.top + FrameDataSize + varc, frame_pointer |-> cs.top]
    BY DEF PushFrame
  <2> HIDE DEF m
  <2> QED  BY <1>1, <1>2, <2>1, <2>2, <2>3
<1>4. ASSUME SavedFramePointer(cs, cs.frame_pointer) \in Nat  PROVE PopFrame(cs) \in StackType
  BY <1>1, <1>2, <1>4 DEF PopFrame
<1>5. ASSUME NEW index, NEW word \in Word  PROVE StoreLocal(cs, index, word) \in StackType
  <2> DEFINE m == [cs.memory EXCEPT ![LocalAddress(cs, index)] = word]
  <2>1. m \in [D -> Word]  BY <1>1
  <2>2. StoreLocal(cs, index, word)
          = [memory |-> m, top |-> cs.top, frame_pointer |-> cs.frame_pointer]
    BY <1>1 DEF StoreLocal
  <2> HIDE DEF m
  <2> QED  BY <1>1, <1>2, <2>1, <2>2
<1>6. ASSUME NEW words, \A i \in DOMAIN words : words[i] \in Word
      PROVE  StoreLocals(cs, words) \in StackType
  <2> DEFINE first == LocalAddress(cs, 0)
             m == [a \in DOMAIN cs.memory |->
                     IF a - first + 1 \in DOMAIN words
                     THEN words[a - first + 1] ELSE cs.memory[a]]
  <2>1. m \in [D -> Word]
    <3> HIDE DEF first
    <3> QED  BY <1>1, <1>6
  <2>2. StoreLocals(cs, words)
          = [memory |-> m, top |-> cs.top, frame_pointer |-> cs.frame_pointer]
    BY <1>1 DEF StoreLocals
  <2> HIDE DEF m
  <2> QED  BY <1>1, <1>2, <2>1, <2>2
<1> QED  BY <1>3, <1>4, <1>5, <1>6

LEMMA NewCallStackType == NewCallStack(CallStackSize) \in StackType
BY SmallWords DEF NewCallStack, StackType, Memory

-----------------------------------------------------------------------------
(* Facts about the instruction a thread executes.                           *)

LEMMA Succeeds ==
  ASSUME NEW t \in Threads, NEW operations, Executes(t, operations)
  PROVE  /\ fault = "none" /\ status[t] = "running" /\ ~ AtEnd(t)
         /\ Operation(t) \in operations
         /\ ~ (Depth(t) < Pops(t)) /\ ~ Undefined(t) /\ ~ Exhausted(t)
         /\ ~ (Depth(t) - Pops(t) + Pushes(t) > OperandStackSize)
BY DEF Executes, Ready, Failure

(* What a program of words gives the thread that executes it.               *)
LEMMA InstructionWords ==
  ASSUME TypeInv, SlotsFit(program), NEW t \in Threads, status[t] = "running", ~ AtEnd(t)
  PROVE  /\ stream[t].function \in Functions
         /\ stream[t].program_counter \in Nat
         /\ stream[t].program_counter + 1 \in Word
         /\ Index(t) \in Word
         /\ Operation(t) = "new" => Index(t) \in Nat
         /\ Operation(t) = "invoke_static" => Index(t) \in Functions
         /\ Operation(t) \in {"goto", "if_t", "if_f"} => Index(t) \in Nat
<1> DEFINE f == program.functions[stream[t].function + 1]
           j == stream[t].program_counter + 1
<1>1. WellFormed(program) /\ IInv  BY DEF TypeInv, IInv, Shapes
<1>2. /\ stream[t].function \in Functions
      /\ stream[t].program_counter \in Nat
      /\ j \in DOMAIN f.code /\ Current(t) = f.code[j]
      /\ stream[t].function + 1 \in DOMAIN program.functions
  BY <1>1, AtInstruction DEF CodeOf, Functions
<1>3. f.code \in Seq(Instructions) /\ Len(f.code) \in Nat
  BY <1>1, <1>2, FunctionTypes DEF CodeOf, Functions
<1>4. Len(f.code) \in Word /\ f.code[j].index \in Word
  <2>1. FitsWords(program)  BY DEF TypeInv
  <2> QED  BY <1>2, <2>1 DEF FitsWords
<1>5. JumpsStay(f) /\ CallsExist(program, f) /\ TypesHaveSizes(f)
  BY <1>1, <1>2 DEF WellFormed
<1> HIDE DEF f
<1>6. j \in 1 .. Len(f.code)  BY <1>2, <1>3
<1>7. j \in Nat /\ j <= Len(f.code)  BY <1>3, <1>6
<1>8. j \in Word  BY <1>4, <1>7, SmallWords
<1>9. Operation(t) \in {"new", "invoke_static", "goto", "if_t", "if_f"}
        => Current(t).opcode = Operation(t)
  BY <1>1, OpcodeOf DEF Natives
<1>10. Index(t) = f.code[j].index /\ Current(t).opcode = f.code[j].opcode
  BY <1>2 DEF Index
<1>11. Operation(t) = "new" => Index(t) \in Nat
  BY <1>2, <1>5, <1>9, <1>10 DEF TypesHaveSizes
<1>12. Operation(t) = "invoke_static" => Index(t) \in Functions
  BY <1>2, <1>5, <1>9, <1>10 DEF CallsExist, Functions
<1>13. Operation(t) \in {"goto", "if_t", "if_f"} => Index(t) \in 0 .. Len(f.code)
  BY <1>2, <1>5, <1>9, <1>10 DEF JumpsStay
<1> QED  BY <1>2, <1>3, <1>4, <1>8, <1>10, <1>11, <1>12, <1>13

LEMMA OperandWord ==
  ASSUME OperandsTyped, NEW t \in Threads, NEW i \in Nat, 1 <= i, ~ (Depth(t) < i)
  PROVE  Operand(t, i) \in Word
<1>1. operands[t] \in Seq(Word)  BY DEF OperandsTyped
<1>2. Depth(t) \in Nat /\ Depth(t) = Len(operands[t])  BY <1>1 DEF Depth
<1>3. Depth(t) - i + 1 \in 1 .. Len(operands[t])  BY <1>2
<1> QED  BY <1>1, <1>3 DEF Operand

LEMMA HeapWord ==
  ASSUME HeapTyped, NEW a, Mapped(a)
  PROVE  heap[a] \in Word
BY DEF HeapTyped, Memory, Mapped

(* The captures of a closure are words, and its arguments are counted.      *)
LEMMA ClosureTypes ==
  ASSUME TypeInv, HeapTyped, NEW a, HoldsClosure(a)
  PROVE  /\ ClosureIndex(a) \in Functions /\ ClosureIndex(a) \in Word
         /\ Function(ClosureIndex(a)).varc \in Nat
         /\ Function(ClosureIndex(a)).argc \in Nat
         /\ (\A b \in ClosureWords(a) : Mapped(b))
               => \A i \in DOMAIN Captures(a) : Captures(a)[i] \in Word
<1>1. WellFormed(program) /\ IInv  BY DEF TypeInv, IInv, Shapes
<1>2. ClosureIndex(a) \in Indices(program) /\ Mapped(a)  BY DEF HoldsClosure, Functions
<1>3. ClosureIndex(a) \in Word  BY <1>2, HeapWord DEF ClosureIndex
<1>4. Function(ClosureIndex(a)).varc \in Nat  BY <1>1, <1>2, FunctionTypes DEF Function, VarcOf
<1>5. Function(ClosureIndex(a)).argc \in Nat
  <2>1. ClosureIndex(a) + 1 \in DOMAIN program.functions  BY <1>1, <1>2, FunctionTypes
  <2>2. program.functions \in Seq(FunctionRecords)  BY <1>1 DEF WellFormed
  <2>3. program.functions[ClosureIndex(a) + 1] \in FunctionRecords  BY <2>1, <2>2
  <2> QED  BY <2>3 DEF Function, FunctionRecords
<1>6. ASSUME \A b \in ClosureWords(a) : Mapped(b), NEW i \in DOMAIN Captures(a)
      PROVE  Captures(a)[i] \in Word
  <2> DEFINE capc == Function(ClosureIndex(a)).capc
  <2>1. capc \in Nat /\ i \in 1 .. capc
    BY <1>1, <1>2, <1>6, CapturesOf DEF Function
  <2>2. Captures(a)[i] = heap[a + i]  BY <2>1 DEF Captures
  <2>3. a \in Int  BY <1>2 DEF Mapped, HeapTyped, Memory
  <2>4. ClosureWords(a) = a .. (a + capc)  BY DEF ClosureWords
  <2> HIDE DEF capc
  <2>5. a + i \in a .. (a + capc)  BY <2>1, <2>3
  <2>6. Mapped(a + i)  BY <1>6, <2>4, <2>5
  <2> QED  BY <2>2, <2>6, HeapWord
<1> QED  BY <1>2, <1>3, <1>4, <1>5, <1>6 DEF Functions

-----------------------------------------------------------------------------
(* What the building blocks of the actions keep.                            *)

LEMMA PopPushTypes ==
  ASSUME OperandsTyped, NEW t \in Threads, NEW n \in Nat, ~ (Depth(t) < n),
         NEW words \in Seq(Word), PopPush(t, n, words),
         ~ (Depth(t) - n + Len(words) > OperandStackSize)
  PROVE  /\ OperandsTyped'
         /\ Len(operands'[t]) = Depth(t) - n + Len(words)
         /\ \A u \in Threads \ {t} : operands'[u] = operands[u]
<1>1. /\ DOMAIN operands = Threads /\ operands[t] \in Seq(Word)
      /\ \A u \in Threads : operands[u] \in Seq(Word) /\ Len(operands[u]) <= OperandStackSize
  BY DEF OperandsTyped, Depth
<1>2. Depth(t) \in Nat /\ Depth(t) = Len(operands[t]) /\ Len(words) \in Nat
  BY <1>1 DEF Depth
<1>3. Depth(t) - n \in 0 .. Len(operands[t])  BY <1>2
<1> DEFINE rest == SubSeq(operands[t], 1, Depth(t) - n)
           now == rest \o words
<1>4. rest \in Seq(Word) /\ Len(rest) = Depth(t) - n
  <2> DEFINE m == Depth(t) - n
  <2>1. m \in Nat /\ m <= Len(operands[t])  BY <1>2, <1>3
  <2> HIDE DEF m
  <2>2. SubSeq(operands[t], 1, m) \in Seq(Word) /\ Len(SubSeq(operands[t], 1, m)) = m
    BY <1>1, <2>1
  <2> QED  BY <2>2 DEF m
<1>5. operands' = [operands EXCEPT ![t] = now]  BY DEF PopPush, Rest
<1> HIDE DEF rest
<1>6. now \in Seq(Word) /\ Len(now) = Depth(t) - n + Len(words)  BY <1>4
<1> HIDE DEF now
<1>7. operands' \in [Threads -> Seq(Word)]
  <2>1. operands \in [Threads -> Seq(Word)]  BY DEF OperandsTyped
  <2> QED  BY <1>5, <1>6, <2>1
<1>8. operands'[t] = now /\ \A u \in Threads \ {t} : operands'[u] = operands[u]  BY <1>1, <1>5
<1>9. Len(now) <= OperandStackSize  BY <1>2, <1>6, SizesAssumption
<1>10. \A u \in Threads : Len(operands'[u]) <= OperandStackSize  BY <1>1, <1>8, <1>9
<1> QED  BY <1>6, <1>7, <1>8, <1>10 DEF OperandsTyped, Depth

(* The operands of another thread than those in Waits are free to change.   *)
LEMMA WaitsKeep ==
  ASSUME WaitsTyped, OperandsTyped, NEW t \in Threads, status[t] = "running",
         \A u \in Threads \ {t} : operands'[u] = operands[u] /\ status'[u] = status[u],
         status'[t] \notin {"sending", "receiving"}, waiting' = waiting,
         DOMAIN channels \subseteq DOMAIN channels'
  PROVE  WaitsTyped'
BY DEF WaitsTyped, Depth

LEMMA NextThreads ==
  ASSUME ThreadsTyped, NEW t \in Threads, NextInstruction(t), call_stack' = call_stack,
         NEW place \in Statuses, status' = [status EXCEPT ![t] = place], program' = program
  PROVE  ThreadsTyped'
BY DEF ThreadsTyped, NextInstruction, StreamType, Functions

LEMMA SameStatus ==
  ASSUME ThreadsTyped, NEW t \in Threads
  PROVE  status = [status EXCEPT ![t] = status[t]]
BY DEF ThreadsTyped

(* How many words an instruction takes and gives back.                      *)
LEMMA Counts ==
  ASSUME NEW t
  PROVE  /\ Operation(t) \in {"load", "push", "new"} => Pops(t) = 0 /\ Pushes(t) = 1
         /\ Operation(t) \in {"goto", "invoke_static", "ret"} => Pops(t) = 0 /\ Pushes(t) = 0
         /\ Operation(t) \in {"store", "pop", "if_t", "if_f", "invoke_dynamic", "chan_recv",
                             "iprint", "fprint", "sprint"} => Pops(t) = 1 /\ Pushes(t) = 0
         /\ Operation(t) \in Unary \cup {"wload", "new_chan", "new_slice"}
               => Pops(t) = 1 /\ Pushes(t) = 1
         /\ Operation(t) = "dup" => Pops(t) = 1 /\ Pushes(t) = 2
         /\ Operation(t) = "swap" => Pops(t) = 2 /\ Pushes(t) = 2
         /\ Operation(t) \in Binary => Pops(t) = 2 /\ Pushes(t) = 1
         /\ Operation(t) \in {"wstore", "chan_send"} => Pops(t) = 2 /\ Pushes(t) = 0
         /\ Operation(t) = "new_thread" => Pops(t) = 1 + Arguments(t) /\ Pushes(t) = 0
<1> DEFINE op == Operation(t)
<1>1. Pops(t) = (CASE op \in {"load", "push", "goto", "invoke_static", "ret", "new"} -> 0
                   [] op \in Binary \cup {"swap", "wstore", "chan_send"} -> 2
                   [] OTHER -> 1)
                + IF op = "new_thread" THEN Arguments(t) ELSE 0
  BY DEF Pops, Taken
<1>2. Pushes(t) = CASE op \in {"dup", "swap"} -> 2
                    [] op \in Binary \cup Unary
                         \cup {"load", "push", "wload", "new", "new_chan", "new_slice"} -> 1
                    [] OTHER -> 0
  BY DEF Pushes, Given
<1> HIDE DEF op
<1> DEFINE pops == Pops(t)
           pushes == Pushes(t)
<1> HIDE DEF pops, pushes
<1> QED  BY <1>1, <1>2 DEF Binary, Unary, op, pops, pushes

-----------------------------------------------------------------------------
(* The steps.  In what follows a thread executes an instruction in a        *)
(* program whose locals are in their frames.                                *)

(* Instructions that change the stacks of t only, but not its place.        *)
LEMMA LocalTypes ==
  ASSUME Typed, NEW t \in Threads, status[t] = "running",
         UNCHANGED <<program, status, waiting, memory, channels, output, fault>>,
         ThreadsTyped', OperandsTyped', \A u \in Threads \ {t} : operands'[u] = operands[u]
  PROVE  Typed'
<1>1. WaitsTyped'  BY WaitsKeep DEF Typed
<1>2. HeapTyped' /\ ChannelsTyped' /\ EndTyped'
  BY DEF Typed, HeapTyped, ChannelsTyped, EndTyped, memory
<1> QED  BY <1>1, <1>2 DEF Typed

LEMMA SingleWord == ASSUME NEW w \in Word  PROVE <<w>> \in Seq(Word) /\ Len(<<w>>) = 1
OBVIOUS

LEMMA NoWord == <<>> \in Seq(Word) /\ Len(<<>>) = 0
OBVIOUS

(* The common case: it pops n words, pushes some, and moves on.             *)
LEMMA MoveOnTypes ==
  ASSUME Typed, NEW t \in Threads, status[t] = "running", NextInstruction(t),
         UNCHANGED <<program, status, call_stack, waiting, memory, channels, output, fault>>,
         NEW n \in Nat, ~ (Depth(t) < n), NEW words \in Seq(Word), PopPush(t, n, words),
         ~ (Depth(t) - n + Len(words) > OperandStackSize)
  PROVE  Typed'
<1>1. status' = [status EXCEPT ![t] = "running"]  BY SameStatus DEF Typed
<1>2. ThreadsTyped'  BY <1>1, NextThreads DEF Typed, Statuses
<1>3. OperandsTyped' /\ \A u \in Threads \ {t} : operands'[u] = operands[u]
  BY PopPushTypes DEF Typed
<1> QED  BY <1>2, <1>3, LocalTypes

LEMMA LoadTypes ==
  ASSUME TypeInv, Typed, NEW t \in Threads, Load(t)
  PROVE  Typed'
<1> DEFINE w == LoadLocal(call_stack[t], Index(t))
<1>1. /\ Executes(t, {"load"}) /\ PopPush(t, 0, <<w>>) /\ NextInstruction(t)
      /\ UNCHANGED <<program, status, call_stack, waiting, memory, channels, output, fault>>
  BY DEF Load
<1>2. /\ status[t] = "running" /\ Operation(t) = "load" /\ ~ Undefined(t)
      /\ ~ (Depth(t) < 0) /\ ~ (Depth(t) - 0 + 1 > OperandStackSize)
  BY <1>1, Succeeds, Counts
<1>3. InBounds(call_stack[t], LocalAddress(call_stack[t], Index(t)))  BY <1>2 DEF Undefined
<1>4. call_stack[t] \in StackType  BY DEF Typed, ThreadsTyped
<1>5. w \in Word  BY <1>3, <1>4 DEF InBounds, StackType, Memory, LoadLocal
<1> HIDE DEF w
<1> QED  BY <1>1, <1>2, <1>5, SingleWord, MoveOnTypes

LEMMA StoreTypes ==
  ASSUME TypeInv, Typed, SlotsFit(program), NEW t \in Threads, Store(t)
  PROVE  Typed'
<1> DEFINE cs == StoreLocal(call_stack[t], Index(t), Operand(t, 1))
<1>1. /\ Executes(t, {"store"}) /\ PopPush(t, 1, <<>>) /\ NextInstruction(t)
      /\ call_stack' = [call_stack EXCEPT ![t] = cs]
      /\ UNCHANGED <<program, status, waiting, memory, channels, output, fault>>
  BY DEF Store
<1>2. /\ status[t] = "running" /\ ~ AtEnd(t)
      /\ ~ (Depth(t) < 1) /\ ~ (Depth(t) - 1 + 0 > OperandStackSize)
  BY <1>1, Succeeds, Counts
<1>3. call_stack[t] \in StackType  BY DEF Typed, ThreadsTyped
<1>4. Operand(t, 1) \in Word  BY <1>2, OperandWord DEF Typed
<1>5. cs \in StackType  BY <1>2, <1>3, <1>4, InstructionWords, CallStackTypes
<1> HIDE DEF cs
<1>6. ThreadsTyped'
  <2>1. StreamType' = StreamType /\ StackType' = StackType
    BY <1>1 DEF StreamType, Functions, StackType, Memory
  <2>2. stream' \in [Threads -> StreamType]
    BY <1>1 DEF Typed, ThreadsTyped, NextInstruction, StreamType
  <2>3. call_stack' \in [Threads -> StackType]  BY <1>1, <1>5 DEF Typed, ThreadsTyped
  <2> QED  BY <1>1, <2>1, <2>2, <2>3 DEF Typed, ThreadsTyped
<1>7. OperandsTyped' /\ \A u \in Threads \ {t} : operands'[u] = operands[u]
  BY <1>1, <1>2, NoWord, PopPushTypes DEF Typed
<1> QED  BY <1>1, <1>2, <1>6, <1>7, LocalTypes

LEMMA ShuffleTypes ==
  ASSUME TypeInv, Typed, SlotsFit(program), NEW t \in Threads, Shuffle(t)
  PROVE  Typed'
<1>1. /\ NextInstruction(t)
      /\ UNCHANGED <<program, status, call_stack, waiting, memory, channels, output, fault>>
  BY DEF Shuffle
<1>2. CASE Executes(t, {"push"}) /\ PopPush(t, 0, <<Index(t)>>)
  <2>1. /\ status[t] = "running" /\ ~ AtEnd(t)
        /\ ~ (Depth(t) < 0) /\ ~ (Depth(t) - 0 + 1 > OperandStackSize)
    BY <1>2, Succeeds, Counts
  <2>2. Index(t) \in Word  BY <2>1, InstructionWords
  <2> QED  BY <1>1, <1>2, <2>1, <2>2, SingleWord, MoveOnTypes
<1>3. CASE Executes(t, {"pop"}) /\ PopPush(t, 1, <<>>)
  <2>1. /\ status[t] = "running" /\ ~ (Depth(t) < 1)
        /\ ~ (Depth(t) - 1 + 0 > OperandStackSize)
    BY <1>3, Succeeds, Counts
  <2> QED  BY <1>1, <1>3, <2>1, NoWord, MoveOnTypes
<1>4. CASE Executes(t, {"dup"}) /\ PopPush(t, 0, <<Operand(t, 1)>>)
  <2>1. /\ status[t] = "running" /\ ~ (Depth(t) < 1)
        /\ ~ (Depth(t) - 1 + 2 > OperandStackSize)
    BY <1>4, Succeeds, Counts
  <2>2. Operand(t, 1) \in Word  BY <2>1, OperandWord DEF Typed
  <2>3. Depth(t) \in Nat  BY DEF Typed, OperandsTyped, Depth
  <2>4. ~ (Depth(t) < 0) /\ ~ (Depth(t) - 0 + 1 > OperandStackSize)
    BY <2>1, <2>3, SizesAssumption
  <2> QED  BY <1>1, <1>4, <2>1, <2>2, <2>4, SingleWord, MoveOnTypes
<1>5. CASE Executes(t, {"swap"}) /\ PopPush(t, 2, <<Operand(t, 1), Operand(t, 2)>>)
  <2>1. /\ status[t] = "running" /\ ~ (Depth(t) < 2)
        /\ ~ (Depth(t) - 2 + 2 > OperandStackSize)
    BY <1>5, Succeeds, Counts
  <2>2. Depth(t) \in Nat  BY DEF Typed, OperandsTyped, Depth
  <2>3. Operand(t, 1) \in Word /\ Operand(t, 2) \in Word
    BY <2>1, <2>2, OperandWord DEF Typed
  <2> DEFINE words == <<Operand(t, 1), Operand(t, 2)>>
  <2>4. words \in Seq(Word) /\ Len(words) = 2  BY <2>3
  <2> HIDE DEF words
  <2>5. PopPush(t, 2, words)  BY <1>5 DEF words
  <2> QED  BY <1>1, <1>5, <2>1, <2>4, <2>5, MoveOnTypes
<1> QED  BY <1>2, <1>3, <1>4, <1>5 DEF Shuffle

LEMMA CalculateTypes ==
  ASSUME TypeInv, Typed, NEW t \in Threads, Calculate(t)
  PROVE  Typed'
<1>1. /\ NextInstruction(t)
      /\ UNCHANGED <<program, status, call_stack, waiting, memory, channels, output, fault>>
  BY DEF Calculate
<1>2. CASE /\ Executes(t, Binary)
           /\ PopPush(t, 2, <<BinaryResult(Operation(t), Operand(t, 2), Operand(t, 1))>>)
  <2> DEFINE w == BinaryResult(Operation(t), Operand(t, 2), Operand(t, 1))
  <2>1. /\ status[t] = "running" /\ Operation(t) \in Binary /\ ~ Undefined(t)
        /\ ~ (Depth(t) < 2) /\ ~ (Depth(t) - 2 + 1 > OperandStackSize)
    BY <1>2, Succeeds, Counts
  <2>2. Depth(t) \in Nat  BY DEF Typed, OperandsTyped, Depth
  <2>3. Operand(t, 1) \in Word /\ Operand(t, 2) \in Word
    BY <2>1, <2>2, OperandWord DEF Typed
  <2>4. ~ Traps(Operation(t), Operand(t, 2), Operand(t, 1))  BY <2>1 DEF Undefined
  <2>5. w \in Word  BY <2>1, <2>3, <2>4, BinaryWord
  <2>6. PopPush(t, 2, <<w>>)  BY <1>2
  <2> HIDE DEF w
  <2> QED  BY <1>1, <2>1, <2>5, <2>6, SingleWord, MoveOnTypes
<1>3. CASE /\ Executes(t, Unary)
           /\ PopPush(t, 1, <<UnaryResult(Operation(t), Operand(t, 1))>>)
  <2> DEFINE w == UnaryResult(Operation(t), Operand(t, 1))
  <2>1. /\ status[t] = "running" /\ Operation(t) \in Unary
        /\ ~ (Depth(t) < 1) /\ ~ (Depth(t) - 1 + 1 > OperandStackSize)
    BY <1>3, Succeeds, Counts
  <2>2. w \in Word  BY <2>1, OperandWord, UnaryWord DEF Typed
  <2>3. PopPush(t, 1, <<w>>)  BY <1>3
  <2> HIDE DEF w
  <2> QED  BY <1>1, <2>1, <2>2, <2>3, SingleWord, MoveOnTypes
<1> QED  BY <1>2, <1>3 DEF Calculate

LEMMA BranchTypes ==
  ASSUME TypeInv, Typed, SlotsFit(program), NEW t \in Threads, Branch(t)
  PROVE  Typed'
<1>1. UNCHANGED <<program, status, call_stack, waiting, memory, channels, output, fault>>
  BY DEF Branch
<1>2. /\ status[t] = "running" /\ ~ AtEnd(t) /\ Operation(t) \in {"goto", "if_t", "if_f"}
  BY Succeeds DEF Branch
<1>3. Index(t) \in Nat /\ stream[t].function \in Functions  BY <1>2, InstructionWords
<1>4. NextInstruction(t) \/ JumpTo(t, stream[t].function, Index(t))  BY DEF Branch
<1>5. ThreadsTyped'
  BY <1>1, <1>3, <1>4
  DEF Typed, ThreadsTyped, NextInstruction, JumpTo, StreamType, Functions
<1>6. CASE Executes(t, {"goto"}) /\ PopPush(t, 0, <<>>)
  <2>1. ~ (Depth(t) < 0) /\ ~ (Depth(t) - 0 + 0 > OperandStackSize)
    BY <1>6, Succeeds, Counts
  <2>2. OperandsTyped' /\ \A u \in Threads \ {t} : operands'[u] = operands[u]
    BY <1>6, <2>1, NoWord, PopPushTypes DEF Typed
  <2> QED  BY <1>1, <1>2, <1>5, <2>2, LocalTypes
<1>7. CASE Executes(t, {"if_t"}) /\ PopPush(t, 1, <<>>)
  <2>1. ~ (Depth(t) < 1) /\ ~ (Depth(t) - 1 + 0 > OperandStackSize)
    BY <1>7, Succeeds, Counts
  <2>2. OperandsTyped' /\ \A u \in Threads \ {t} : operands'[u] = operands[u]
    BY <1>7, <2>1, NoWord, PopPushTypes DEF Typed
  <2> QED  BY <1>1, <1>2, <1>5, <2>2, LocalTypes
<1>8. CASE Executes(t, {"if_f"}) /\ PopPush(t, 1, <<>>)
  <2>1. ~ (Depth(t) < 1) /\ ~ (Depth(t) - 1 + 0 > OperandStackSize)
    BY <1>8, Succeeds, Counts
  <2>2. OperandsTyped' /\ \A u \in Threads \ {t} : operands'[u] = operands[u]
    BY <1>8, <2>1, NoWord, PopPushTypes DEF Typed
  <2> QED  BY <1>1, <1>2, <1>5, <2>2, LocalTypes
<1> QED  BY <1>6, <1>7, <1>8 DEF Branch

-----------------------------------------------------------------------------
(* Instructions that use the heap.                                          *)

LEMMA WLoadTypes ==
  ASSUME TypeInv, Typed, NEW t \in Threads, WLoad(t)
  PROVE  Typed'
<1> DEFINE w == heap[Operand(t, 1) + Index(t)]
<1>1. /\ Executes(t, {"wload"}) /\ PopPush(t, 1, <<w>>) /\ NextInstruction(t)
      /\ UNCHANGED <<program, status, call_stack, waiting, memory, channels, output, fault>>
  BY DEF WLoad
<1>2. /\ status[t] = "running" /\ Operation(t) = "wload" /\ ~ Undefined(t)
      /\ ~ (Depth(t) < 1) /\ ~ (Depth(t) - 1 + 1 > OperandStackSize)
  BY <1>1, Succeeds, Counts
<1>3. Mapped(Operand(t, 1) + Index(t))
  <2>1. Accesses(t) = {Operand(t, 1) + Index(t)}  BY <1>2 DEF Accesses
  <2> QED  BY <1>2, <2>1 DEF Undefined
<1>4. w \in Word  BY <1>3, HeapWord DEF Typed
<1> HIDE DEF w
<1> QED  BY <1>1, <1>2, <1>4, SingleWord, MoveOnTypes

LEMMA WStoreTypes ==
  ASSUME TypeInv, Typed, NEW t \in Threads, WStore(t)
  PROVE  Typed'
<1>1. /\ Executes(t, {"wstore"}) /\ PopPush(t, 2, <<>>) /\ NextInstruction(t)
      /\ heap' = [heap EXCEPT ![Operand(t, 2) + Index(t)] = Operand(t, 1)]
      /\ UNCHANGED <<program, status, call_stack, waiting, top, channels, output, fault>>
  BY DEF WStore
<1>2. /\ status[t] = "running"
      /\ ~ (Depth(t) < 2) /\ ~ (Depth(t) - 2 + 0 > OperandStackSize)
  BY <1>1, Succeeds, Counts
<1>3. Depth(t) \in Nat  BY DEF Typed, OperandsTyped, Depth
<1>4. Operand(t, 1) \in Word  BY <1>2, <1>3, OperandWord DEF Typed
<1>5. HeapTyped'  BY <1>1, <1>4 DEF Typed, HeapTyped, Memory
<1>6. OperandsTyped' /\ \A u \in Threads \ {t} : operands'[u] = operands[u]
  BY <1>1, <1>2, NoWord, PopPushTypes DEF Typed
<1>7. WaitsTyped'  BY <1>1, <1>2, <1>6, WaitsKeep DEF Typed
<1>8. status' = [status EXCEPT ![t] = "running"]  BY <1>1, <1>2, SameStatus DEF Typed
<1>9. ThreadsTyped'  BY <1>1, <1>8, NextThreads DEF Typed, Statuses
<1>10. ChannelsTyped' /\ EndTyped'  BY <1>1 DEF Typed, ChannelsTyped, EndTyped
<1> QED  BY <1>5, <1>6, <1>7, <1>9, <1>10 DEF Typed

(* A new block, whose address is pushed.                                    *)
LEMMA AllocateTypes ==
  ASSUME Typed, NEW t \in Threads, status[t] = "running", NextInstruction(t),
         UNCHANGED <<program, status, call_stack, waiting, output, fault>>,
         NEW n \in Nat, ~ (Depth(t) < n), PopPush(t, n, <<NewAddress>>), NewAddress \in Word,
         ~ (Depth(t) - n + 1 > OperandStackSize),
         HeapTyped', ChannelsTyped', DOMAIN channels \subseteq DOMAIN channels'
  PROVE  Typed'
<1>1. OperandsTyped' /\ \A u \in Threads \ {t} : operands'[u] = operands[u]
  BY SingleWord, PopPushTypes DEF Typed
<1>2. WaitsTyped'  BY <1>1, WaitsKeep DEF Typed
<1>3. status' = [status EXCEPT ![t] = "running"]  BY SameStatus DEF Typed
<1>4. ThreadsTyped'  BY <1>3, NextThreads DEF Typed, Statuses
<1>5. EndTyped'  BY DEF Typed, EndTyped
<1> QED  BY <1>1, <1>2, <1>4, <1>5 DEF Typed

(* Whatever the size of the block, the header that was written lies in the  *)
(* heap, and so does top after it.                                          *)
LEMMA BlockInHeap ==
  ASSUME Typed, NEW t \in Threads, Allocates(t), BlockWords(t) \in Int,
         ~ Undefined(t), ~ Exhausted(t)
  PROVE  /\ EndOfBlock(BlockWords(t)) \in 0 .. HeapSize
         /\ NewAddress \in Word
<1> DEFINE words == BlockWords(t)
<1>1. Fits(words)  BY DEF Exhausted
<1>2. \A a \in Written(t) : Mapped(a)  BY <1>1 DEF Undefined
<1>3. /\ top \in Nat /\ HeapSize \in Nat /\ HeapSize \in Word
      /\ DOMAIN heap = 0 .. (HeapSize - 1)
  BY SizesAssumption DEF Typed, HeapTyped, Memory
<1>4. SizeLimit \in Nat /\ SizeLimit > 0
  <2>1. WordBits - 3 \in Nat  BY WordBitsAssumption, BytesAssumption
  <2> QED  BY <2>1, PowersOfTwo DEF SizeLimit
<1> HIDE DEF words
<1>5. EndOfBlock(words) \in 0 .. HeapSize
  <2> DEFINE end == top + HeaderWords + words
  <2>1. end \in Int  BY <1>3 DEF words, HeaderWords
  <2> HIDE DEF end
  <2>2. end % SizeLimit \in Nat  BY <2>1, <1>4
  <2>3. EndOfBlock(words) = end % SizeLimit  BY DEF EndOfBlock, end
  <2> QED  BY <1>1, <1>3, <2>2, <2>3 DEF Fits
<1>6. top + HeaderWords <= HeapSize
  <2>1. top + 2 \in Written(t)  BY <1>3 DEF Written, NewAddress, HeaderWords
  <2>2. top + 2 \in 0 .. (HeapSize - 1)  BY <1>2, <1>3, <2>1 DEF Mapped
  <2> QED  BY <1>3, <2>2 DEF HeaderWords
<1>7. NewAddress \in Word  BY <1>3, <1>6, SmallWords DEF NewAddress, HeaderWords
<1> QED  BY <1>5, <1>7 DEF words

LEMMA HeaderTypes ==
  ASSUME HeapTyped, NEW element_words \in Word, NEW count \in Word
  PROVE  WithHeader(element_words, count) \in Memory(HeapSize)
BY SmallWords DEF HeapTyped, Memory, WithHeader

LEMMA NewTypes ==
  ASSUME TypeInv, Typed, SlotsFit(program), NEW t \in Threads, New(t)
  PROVE  Typed'
<1>1. /\ Executes(t, {"new"}) /\ PopPush(t, 0, <<NewAddress>>) /\ NextInstruction(t)
      /\ heap' = WithHeader(Index(t), 1) /\ top' = EndOfBlock(Index(t))
      /\ UNCHANGED <<program, status, call_stack, waiting, channels, output, fault>>
  BY DEF New, Advance
<1>2. /\ status[t] = "running" /\ ~ AtEnd(t) /\ Operation(t) = "new"
      /\ ~ Undefined(t) /\ ~ Exhausted(t)
      /\ ~ (Depth(t) < 0) /\ ~ (Depth(t) - 0 + 1 > OperandStackSize)
  BY <1>1, Succeeds, Counts
<1>3. Index(t) \in Word /\ Index(t) \in Int  BY <1>2, InstructionWords, SmallWords
<1>4. Allocates(t) /\ BlockWords(t) = Index(t)  BY <1>2 DEF Allocates, BlockWords
<1>5. top' \in 0 .. HeapSize /\ NewAddress \in Word  BY <1>1, <1>2, <1>3, <1>4, BlockInHeap
<1>6. HeapTyped'  BY <1>1, <1>3, <1>5, HeaderTypes, SmallWords DEF Typed, HeapTyped
<1>7. ChannelsTyped'  BY <1>1 DEF Typed, ChannelsTyped
<1> QED  BY <1>1, <1>2, <1>5, <1>6, <1>7, AllocateTypes

LEMMA NewChanTypes ==
  ASSUME TypeInv, Typed, NEW t \in Threads, NewChan(t)
  PROVE  Typed'
<1> DEFINE channel == [capacity |-> Unsigned(Operand(t, 1)), buffer |-> <<>>]
<1>1. /\ Executes(t, {"new_chan"}) /\ PopPush(t, 1, <<NewAddress>>) /\ NextInstruction(t)
      /\ heap' = [WithHeader(1, 1) EXCEPT ![NewAddress] = Signed(Len(channels))]
      /\ top' = EndOfBlock(1)
      /\ channels' = Append(channels, channel)
      /\ UNCHANGED <<program, status, call_stack, waiting, output, fault>>
  BY DEF NewChan, Advance
<1>2. /\ status[t] = "running" /\ Operation(t) = "new_chan"
      /\ ~ Undefined(t) /\ ~ Exhausted(t)
      /\ ~ (Depth(t) < 1) /\ ~ (Depth(t) - 1 + 1 > OperandStackSize)
  BY <1>1, Succeeds, Counts
<1>3. Allocates(t) /\ BlockWords(t) = 1  BY <1>2 DEF Allocates, BlockWords
<1>4. channels \in Seq(ChannelType) /\ Len(channels) \in Nat  BY DEF Typed, ChannelsTyped
<1>5. top' \in 0 .. HeapSize /\ NewAddress \in Word  BY <1>1, <1>2, <1>3, BlockInHeap
<1>6. HeapTyped'
  <2>1. Signed(Len(channels)) \in Word  BY <1>4, SignedWord
  <2>2. WithHeader(1, 1) \in Memory(HeapSize)  BY HeaderTypes, SmallWords DEF Typed
  <2>3. heap' \in Memory(HeapSize)  BY <1>1, <2>1, <2>2 DEF Memory
  <2> QED  BY <1>5, <2>3 DEF HeapTyped
<1>7. channel \in ChannelType /\ channel.buffer = <<>> /\ channel.capacity \in UnsignedWord
  <2>1. Operand(t, 1) \in Word  BY <1>2, OperandWord DEF Typed
  <2>2. Unsigned(Operand(t, 1)) \in UnsignedWord  BY <2>1, SmallWords, SignedWord
  <2> QED  BY <2>2 DEF ChannelType
<1> HIDE DEF channel
<1>8. /\ channels' \in Seq(ChannelType)
      /\ DOMAIN channels \subseteq DOMAIN channels'
      /\ \A i \in DOMAIN channels' :
           channels'[i] = IF i \in DOMAIN channels THEN channels[i] ELSE channel
  BY <1>1, <1>4, <1>7
<1>9. ChannelsTyped'
  <2>1. Len(channel.buffer) <= channel.capacity  BY <1>7 DEF UnsignedWord
  <2> QED  BY <1>8, <2>1 DEF Typed, ChannelsTyped
<1> QED  BY <1>1, <1>2, <1>5, <1>6, <1>8, <1>9, AllocateTypes

LEMMA NewSliceTypes ==
  ASSUME TypeInv, Typed, NEW t \in Threads, NewSlice(t)
  PROVE  Typed'
<1> DEFINE length == Operand(t, 1)
<1>1. /\ Executes(t, {"new_slice"}) /\ PopPush(t, 1, <<NewAddress>>) /\ NextInstruction(t)
      /\ heap' = WithHeader(1, length) /\ top' = EndOfBlock(length)
      /\ UNCHANGED <<program, status, call_stack, waiting, channels, output, fault>>
  BY DEF NewSlice, Advance
<1>2. /\ status[t] = "running" /\ Operation(t) = "new_slice"
      /\ ~ Undefined(t) /\ ~ Exhausted(t)
      /\ ~ (Depth(t) < 1) /\ ~ (Depth(t) - 1 + 1 > OperandStackSize)
  BY <1>1, Succeeds, Counts
<1>3. length \in Word /\ length \in Int
  <2>1. length \in Word  BY <1>2, OperandWord DEF Typed
  <2> HIDE DEF length
  <2> QED  BY <2>1, SmallWords
<1>4. Allocates(t) /\ BlockWords(t) = length  BY <1>2 DEF Allocates, BlockWords
<1> HIDE DEF length
<1>5. top' \in 0 .. HeapSize /\ NewAddress \in Word  BY <1>1, <1>2, <1>3, <1>4, BlockInHeap
<1>6. HeapTyped'  BY <1>1, <1>3, <1>5, HeaderTypes, SmallWords DEF Typed, HeapTyped
<1>7. ChannelsTyped'  BY <1>1 DEF Typed, ChannelsTyped
<1> QED  BY <1>1, <1>2, <1>5, <1>6, <1>7, AllocateTypes

-----------------------------------------------------------------------------
(* Calls.                                                                   *)

(* A step of t to another place, that changes its two stacks.               *)
LEMMA JumpTypes ==
  ASSUME Typed, NEW t \in Threads, status[t] = "running",
         UNCHANGED <<program, status, waiting, memory, channels, output, fault>>,
         NEW cs \in StackType, call_stack' = [call_stack EXCEPT ![t] = cs],
         NEW function \in Functions, NEW pc \in Nat, JumpTo(t, function, pc),
         OperandsTyped', \A u \in Threads \ {t} : operands'[u] = operands[u]
  PROVE  Typed'
<1>1. ThreadsTyped'
  <2>1. [function |-> function, program_counter |-> pc] \in StreamType  BY DEF StreamType
  <2>2. Functions' = Functions  BY DEF Functions
  <2> QED  BY <2>1, <2>2 DEF Typed, ThreadsTyped, JumpTo, StreamType, StackType
<1> QED  BY <1>1, LocalTypes

(* The frame pointer of a running thread is an address, so that it is a     *)
(* word.                                                                    *)
LEMMA FramePointerWord ==
  ASSUME TypeInv, SlotsFit(program), NEW t \in Threads, status[t] = "running"
  PROVE  call_stack[t].frame_pointer \in Word
<1> DEFINE cs == call_stack[t]
<1>1. HasChain(program, cs, stream[t])  BY DEF TypeInv, IInv, FramesTile, Live
<1>2. PICK frames : Chain(program, cs, stream[t], frames)  BY <1>1 DEF HasChain
<1>3. cs.frame_pointer \in Nat /\ cs.frame_pointer + 2 \in 0 .. (CallStackSize - 1)
  BY <1>2 DEF Chain, Newest
<1>4. CallStackSize \in Nat /\ CallStackSize \in Word
  BY CallStackAssumption, SizesAssumption
<1>5. cs.frame_pointer <= CallStackSize  BY <1>3, <1>4
<1> QED  BY <1>3, <1>4, <1>5, SmallWords

LEMMA InvokeStaticTypes ==
  ASSUME TypeInv, Typed, SlotsFit(program), NEW t \in Threads, InvokeStatic(t)
  PROVE  Typed'
<1> DEFINE cs == Called(t, Index(t))
<1>1. /\ Executes(t, {"invoke_static"}) /\ JumpTo(t, Index(t), 0)
      /\ call_stack' = [call_stack EXCEPT ![t] = cs]
      /\ UNCHANGED <<program, status, operands, waiting, memory, channels, output, fault>>
  BY DEF InvokeStatic
<1>2. status[t] = "running" /\ ~ AtEnd(t) /\ Operation(t) = "invoke_static"
  BY <1>1, Succeeds
<1>3. /\ Index(t) \in Functions /\ Index(t) \in Word
      /\ stream[t].program_counter + 1 \in Word
  BY <1>2, InstructionWords
<1>4. Function(Index(t)).varc \in Nat
  BY <1>3, FunctionTypes DEF TypeInv, IInv, Shapes, Functions, Function, VarcOf
<1>5. call_stack[t] \in StackType  BY DEF Typed, ThreadsTyped
<1>6. cs \in StackType
  BY <1>2, <1>3, <1>4, <1>5, FramePointerWord, CallStackTypes DEF Called
<1> HIDE DEF cs
<1>7. OperandsTyped'  BY <1>1 DEF Typed, OperandsTyped, Depth
<1> QED  BY <1>1, <1>2, <1>3, <1>6, <1>7, JumpTypes

LEMMA InvokeDynamicTypes ==
  ASSUME TypeInv, Typed, SlotsFit(program), NEW t \in Threads, InvokeDynamic(t)
  PROVE  Typed'
<1> DEFINE a == Operand(t, 1)
           index == ClosureIndex(a)
           pushed == Called(t, index)
           cs == StoreLocals(pushed, Captures(a))
<1>1. /\ Executes(t, {"invoke_dynamic"}) /\ PopPush(t, 1, <<>>) /\ JumpTo(t, index, 0)
      /\ call_stack' = [call_stack EXCEPT ![t] = cs]
      /\ UNCHANGED <<program, status, waiting, memory, channels, output, fault>>
  BY DEF InvokeDynamic
<1>2. /\ status[t] = "running" /\ ~ AtEnd(t) /\ Operation(t) = "invoke_dynamic"
      /\ ~ Undefined(t)
      /\ ~ (Depth(t) < 1) /\ ~ (Depth(t) - 1 + 0 > OperandStackSize)
  BY <1>1, Succeeds, Counts
<1>3. HoldsClosure(a) /\ \A b \in ClosureWords(a) : Mapped(b)
  <2>1. Accesses(t) = ClosureWords(a)  BY <1>2 DEF Accesses
  <2> QED  BY <1>2, <2>1 DEF Undefined
<1> HIDE DEF a
<1>4. /\ index \in Functions /\ index \in Word /\ Function(index).varc \in Nat
      /\ \A i \in DOMAIN Captures(a) : Captures(a)[i] \in Word
  BY <1>3, ClosureTypes DEF Typed
<1> HIDE DEF index
<1>5. stream[t].program_counter + 1 \in Word  BY <1>2, InstructionWords
<1>6. call_stack[t] \in StackType  BY DEF Typed, ThreadsTyped
<1>7. pushed \in StackType
  BY <1>2, <1>4, <1>5, <1>6, FramePointerWord, CallStackTypes DEF Called
<1> HIDE DEF pushed
<1>8. cs \in StackType  BY <1>4, <1>7, CallStackTypes
<1> HIDE DEF cs
<1>9. OperandsTyped' /\ \A u \in Threads \ {t} : operands'[u] = operands[u]
  BY <1>1, <1>2, NoWord, PopPushTypes DEF Typed
<1> QED  BY <1>1, <1>2, <1>4, <1>8, <1>9, JumpTypes

(* What ret finds in the newest frame is what push_frame left there.        *)
LEMMA SavedWords ==
  ASSUME TypeInv, SlotsFit(program), NEW t \in Threads, status[t] = "running"
  PROVE  LET cs == call_stack[t]
             caller == PopFrame(cs)
         IN  /\ SavedFramePointer(cs, cs.frame_pointer) \in Nat
             /\ ~ Empty(caller) => /\ FunctionIndex(caller, caller.frame_pointer) \in Functions
                                   /\ SavedProgramCounter(cs, cs.frame_pointer) \in Nat
<1> DEFINE cs == call_stack[t]
           fp == cs.frame_pointer
           below == SavedFramePointer(cs, fp)
           caller == PopFrame(cs)
<1>1. HasChain(program, cs, stream[t]) /\ WellFormed(program)
  BY DEF TypeInv, IInv, FramesTile, Live, Shapes
<1>2. PICK frames \in SUBSET Nat : Chain(program, cs, stream[t], frames)  BY <1>1 DEF HasChain
<1>3. /\ fp \in frames /\ SavedFramePointer(cs, 0) \in Nat
      /\ \A f \in frames : FunctionIndex(cs, f) \in Indices(program)
      /\ \A f \in frames \ {0} : Linked(program, cs, f, frames)
  BY <1>2 DEF Chain
<1>4. caller.frame_pointer = below /\ caller.top = fp /\ caller.memory = cs.memory
  BY DEF PopFrame
<1> HIDE DEF caller
<1>5. CASE fp = 0  BY <1>3, <1>4, <1>5 DEF Empty, caller
<1>6. CASE fp # 0
  <2>1. Linked(program, cs, fp, frames)  BY <1>3, <1>6
  <2>2. below \in frames /\ below \in Nat  BY <2>1 DEF Linked
  <2>3. FunctionIndex(cs, below) \in Indices(program)  BY <1>3, <2>2
  <2>4. Len(CodeOf(program, FunctionIndex(cs, below))) \in Nat  BY <1>1, <2>3, FunctionTypes
  <2>5. SavedProgramCounter(cs, fp) \in 1 .. Len(CodeOf(program, FunctionIndex(cs, below)))
    BY <2>1 DEF Linked
  <2>6. SavedProgramCounter(cs, fp) \in Nat  BY <2>4, <2>5
  <2>7. FunctionIndex(caller, caller.frame_pointer) = FunctionIndex(cs, below)
    BY <1>4 DEF FunctionIndex
  <2> QED  BY <2>2, <2>3, <2>6, <2>7 DEF Functions, caller
<1> QED  BY <1>5, <1>6

LEMMA RetTypes ==
  ASSUME TypeInv, Typed, SlotsFit(program), NEW t \in Threads, Ret(t)
  PROVE  Typed'
<1> DEFINE cs == call_stack[t]
           caller == PopFrame(cs)
           function == FunctionIndex(caller, caller.frame_pointer)
           pc == SavedProgramCounter(cs, cs.frame_pointer)
<1>1. /\ status[t] = "running" /\ call_stack' = [call_stack EXCEPT ![t] = caller]
      /\ UNCHANGED <<program, operands, waiting, memory, channels, output, fault>>
  BY DEF Ret, Executes, Ready
<1>2. \/ Empty(caller) /\ status' = [status EXCEPT ![t] = "ended"] /\ NextInstruction(t)
      \/ ~ Empty(caller) /\ status' = status /\ JumpTo(t, function, pc)
  BY DEF Ret
<1>3. caller \in StackType
  <2>1. cs \in StackType  BY DEF Typed, ThreadsTyped
  <2> QED  BY <1>1, <2>1, SavedWords, CallStackTypes
<1>4. ~ Empty(caller) => function \in Functions /\ pc \in Nat  BY <1>1, SavedWords
<1> HIDE DEF caller, function, pc
<1>5. OperandsTyped'  BY <1>1 DEF Typed, OperandsTyped, Depth
<1>6. CASE ~ Empty(caller)  BY <1>1, <1>2, <1>3, <1>4, <1>5, <1>6, JumpTypes
<1>7. CASE Empty(caller)
  <2>1. status' = [status EXCEPT ![t] = "ended"] /\ NextInstruction(t)  BY <1>2, <1>7
  <2>2. ThreadsTyped'
    BY <1>1, <1>3, <2>1
    DEF Typed, ThreadsTyped, NextInstruction, StreamType, Functions, Statuses
  <2>3. /\ status'[t] = "ended"
        /\ \A u \in Threads \ {t} : status'[u] = status[u] /\ operands'[u] = operands[u]
    BY <1>1, <2>1 DEF Typed, ThreadsTyped
  <2>4. WaitsTyped'  BY <1>1, <2>3, WaitsKeep DEF Typed
  <2>5. HeapTyped' /\ ChannelsTyped' /\ EndTyped'
    BY <1>1 DEF Typed, HeapTyped, ChannelsTyped, EndTyped, memory
  <2> QED  BY <1>5, <2>2, <2>4, <2>5 DEF Typed
<1> QED  BY <1>6, <1>7

LEMMA FallOffTypes ==
  ASSUME Typed, NEW t \in Threads, FallOff(t)
  PROVE  Typed'
<1>1. /\ status[t] = "running" /\ status' = [status EXCEPT ![t] = "ended"]
      /\ UNCHANGED <<program, stream, call_stack, operands, waiting, memory, channels,
                     output, fault>>
  BY DEF FallOff, Ready
<1>2. ThreadsTyped'
  BY <1>1 DEF Typed, ThreadsTyped, StreamType, Functions, Statuses
<1>3. /\ status'[t] = "ended"
      /\ \A u \in Threads \ {t} : status'[u] = status[u] /\ operands'[u] = operands[u]
  BY <1>1 DEF Typed, ThreadsTyped
<1>4. WaitsTyped'  BY <1>1, <1>3, WaitsKeep DEF Typed
<1>5. OperandsTyped' /\ HeapTyped' /\ ChannelsTyped' /\ EndTyped'
  BY <1>1 DEF Typed, OperandsTyped, Depth, HeapTyped, ChannelsTyped, EndTyped, memory
<1> QED  BY <1>2, <1>4, <1>5 DEF Typed

-----------------------------------------------------------------------------
(* Native functions.                                                        *)

(* The arguments of the new thread are words from the stack of t.           *)
LEMMA ArgumentTypes ==
  ASSUME OperandsTyped, NEW t \in Threads, NEW n \in Nat, ~ (Depth(t) < 1 + n)
  PROVE  LET arguments == [i \in 1 .. n |-> Operand(t, 2 + n - i)]
         IN  arguments \in Seq(Word) /\ Len(arguments) = n
<1> DEFINE arguments == [i \in 1 .. n |-> Operand(t, 2 + n - i)]
<1>1. Depth(t) \in Nat  BY DEF OperandsTyped, Depth
<1>2. ASSUME NEW i \in 1 .. n  PROVE Operand(t, 2 + n - i) \in Word
  <2>1. 2 + n - i \in Nat /\ 1 <= 2 + n - i /\ ~ (Depth(t) < 2 + n - i)  BY <1>1
  <2> QED  BY <2>1, OperandWord
<1>3. arguments \in [1 .. n -> Word]  BY <1>2
<1> HIDE DEF arguments
<1>4. arguments \in Seq(Word) /\ Len(arguments) = n  BY <1>3
<1> QED  BY <1>4 DEF arguments

LEMMA NewThreadTypes ==
  ASSUME TypeInv, Typed, SlotsFit(program), NEW t \in Threads, NewThread(t)
  PROVE  Typed'
<1> DEFINE a == Operand(t, 1)
           c == CHOOSE x \in Absent : TRUE
           n == Arguments(t)
           index == ClosureIndex(a)
           pushed == PushFrame(NewCallStack(CallStackSize), index, Function(index).varc, 0)
           cs == StoreLocals(pushed, Captures(a))
           arguments == [i \in 1 .. n |-> Operand(t, 2 + n - i)]
<1>1. /\ Executes(t, {"new_thread"}) /\ Absent # {} /\ Starts(t, c, a, arguments)
      /\ UNCHANGED <<program, waiting, memory, channels, output, fault>>
  BY DEF NewThread
<1>2. /\ status[t] = "running" /\ ~ AtEnd(t) /\ Operation(t) = "new_thread"
      /\ ~ Undefined(t) /\ ~ (Depth(t) < 1 + n)
  BY <1>1, Succeeds, Counts
<1>3. HoldsClosure(a) /\ \A b \in ClosureWords(a) : Mapped(b)
  <2>1. Accesses(t) = ClosureWords(a)  BY <1>2 DEF Accesses
  <2> QED  BY <1>2, <2>1 DEF Undefined
<1>4. c \in Threads /\ status[c] = "absent" /\ c # t  BY <1>1, <1>2 DEF Absent
<1> HIDE DEF c
<1>5. /\ index \in Functions /\ index \in Word /\ Function(index).varc \in Nat
      /\ Function(index).argc \in Nat
      /\ \A i \in DOMAIN Captures(a) : Captures(a)[i] \in Word
  BY <1>3, ClosureTypes DEF Typed
<1>6. n \in Nat  BY <1>5 DEF Arguments
<1> HIDE DEF n
<1>7. arguments \in Seq(Word) /\ Len(arguments) = n  BY <1>2, <1>6, ArgumentTypes DEF Typed
<1>8. /\ status' = [status EXCEPT ![c] = "running"]
      /\ stream' = [stream EXCEPT ![t].program_counter = @ + 1,
                                  ![c] = [function |-> index, program_counter |-> 0]]
      /\ call_stack' = [call_stack EXCEPT ![c] = cs]
      /\ operands' = [operands EXCEPT ![t] = Rest(t, 1 + n), ![c] = arguments]
  BY <1>1, <1>7 DEF Starts
<1> HIDE DEF arguments, a
<1>9. cs \in StackType
  <2>1. NewCallStack(CallStackSize).frame_pointer = 0  BY DEF NewCallStack
  <2>2. pushed \in StackType
    BY <1>5, <2>1, NewCallStackType, SmallWords, CallStackTypes
  <2> HIDE DEF pushed
  <2> QED  BY <1>5, <2>2, CallStackTypes
<1> HIDE DEF cs, index
<1>10. ThreadsTyped'
  <2>1. StreamType' = StreamType /\ StackType' = StackType
    BY <1>1 DEF StreamType, Functions, StackType, Memory
  <2>2. stream' \in [Threads -> StreamType]
    <3>1. [function |-> index, program_counter |-> 0] \in StreamType  BY <1>5 DEF StreamType
    <3>2. [stream EXCEPT ![t].program_counter = @ + 1] \in [Threads -> StreamType]
      BY DEF Typed, ThreadsTyped, StreamType
    <3> QED  BY <1>8, <3>1, <3>2
  <2>3. call_stack' \in [Threads -> StackType]  BY <1>8, <1>9 DEF Typed, ThreadsTyped
  <2>4. status' \in [Threads -> Statuses]  BY <1>8 DEF Typed, ThreadsTyped, Statuses
  <2> QED  BY <2>1, <2>2, <2>3, <2>4 DEF ThreadsTyped
<1>11. /\ operands \in [Threads -> Seq(Word)]
       /\ \A u \in Threads : Len(operands[u]) <= OperandStackSize
       /\ Depth(t) \in Nat /\ Depth(t) = Len(operands[t])
  BY DEF Typed, OperandsTyped, Depth
<1>12. Rest(t, 1 + n) \in Seq(Word) /\ Len(Rest(t, 1 + n)) = Depth(t) - (1 + n)
  <2> DEFINE m == Depth(t) - (1 + n)
  <2>1. m \in Nat /\ m <= Len(operands[t])  BY <1>2, <1>6, <1>11
  <2> HIDE DEF m
  <2>2. SubSeq(operands[t], 1, m) \in Seq(Word) /\ Len(SubSeq(operands[t], 1, m)) = m
    BY <1>11, <2>1
  <2> QED  BY <2>2 DEF Rest, m
<1>13. OperandsTyped'
  <2>1. operands' \in [Threads -> Seq(Word)]  BY <1>7, <1>8, <1>11, <1>12
  <2>2. operands'[c] = arguments /\ operands'[t] = Rest(t, 1 + n)
        /\ \A u \in Threads \ {t, c} : operands'[u] = operands[u]
    BY <1>4, <1>8, <1>11
  <2>3. Len(arguments) <= OperandStackSize /\ Len(Rest(t, 1 + n)) <= OperandStackSize
    BY <1>2, <1>6, <1>7, <1>11, <1>12, SizesAssumption
  <2>4. \A u \in Threads : Len(operands'[u]) <= OperandStackSize  BY <1>11, <2>2, <2>3
  <2> QED  BY <2>1, <2>4 DEF OperandsTyped, Depth
<1>14. WaitsTyped'
  <2>1. /\ status'[c] = "running" /\ status'[t] = "running"
        /\ \A u \in Threads \ {t, c} : status'[u] = status[u] /\ operands'[u] = operands[u]
    BY <1>2, <1>4, <1>8, <1>11 DEF Typed, ThreadsTyped
  <2> QED  BY <1>1, <1>4, <2>1 DEF Typed, WaitsTyped, Depth
<1>15. HeapTyped' /\ ChannelsTyped' /\ EndTyped'
  BY <1>1 DEF Typed, HeapTyped, ChannelsTyped, EndTyped, memory
<1> QED  BY <1>10, <1>13, <1>14, <1>15 DEF Typed

(* A thread enters a channel that exists.                                   *)
LEMMA EnterTypes ==
  ASSUME TypeInv, Typed, NEW t \in Threads, status[t] = "running",
         NEW place \in {"sending", "receiving"}, NEW channel \in Nat,
         channel + 1 \in DOMAIN channels, NEW item \in Word, Enter(t, place, channel, item),
         NEW n \in Nat, n = Pops(t), 1 <= n, ~ (Depth(t) < n)
  PROVE  Typed'
<1>1. /\ status' = [status EXCEPT ![t] = place] /\ NextInstruction(t)
      /\ waiting' = [waiting EXCEPT ![t] = [channel |-> channel, item |-> item]]
      /\ PopPush(t, n, <<>>)
      /\ UNCHANGED <<program, call_stack, memory, channels, output, fault>>
  BY DEF Enter
<1>2. Depth(t) \in Nat /\ Depth(t) <= OperandStackSize  BY DEF Typed, OperandsTyped, Depth
<1>3. /\ OperandsTyped' /\ Len(operands'[t]) = Depth(t) - n
      /\ \A u \in Threads \ {t} : operands'[u] = operands[u]
  <2>1. ~ (Depth(t) - n + 0 > OperandStackSize)  BY <1>2, SizesAssumption
  <2>2. Len(operands'[t]) = Depth(t) - n + 0 /\ OperandsTyped'
        /\ \A u \in Threads \ {t} : operands'[u] = operands[u]
    BY <1>1, <2>1, NoWord, PopPushTypes DEF Typed
  <2> QED  BY <1>2, <2>2
<1>4. ThreadsTyped'  BY <1>1, NextThreads DEF Typed, Statuses
<1>5. WaitsTyped'
  <2>1. [channel |-> channel, item |-> item] \in [channel : Nat, item : Word]  OBVIOUS
  <2>2. Depth(t)' < OperandStackSize  BY <1>2, <1>3, SizesAssumption DEF Depth
  <2>3. waiting' \in [Threads -> [channel : Nat, item : Word]]
    BY <1>1, <2>1 DEF Typed, WaitsTyped
  <2>4. /\ status'[t] = place /\ waiting'[t].channel = channel
        /\ \A u \in Threads \ {t} :
             status'[u] = status[u] /\ waiting'[u] = waiting[u] /\ Depth(u)' = Depth(u)
    BY <1>1, <1>3 DEF Typed, ThreadsTyped, WaitsTyped, Depth
  <2>5. /\ \A u \in Threads : status[u] \in {"sending", "receiving"}
                                => waiting[u].channel + 1 \in DOMAIN channels
        /\ \A u \in Threads : status[u] = "receiving" => Depth(u) < OperandStackSize
    BY DEF Typed, WaitsTyped
  <2> QED  BY <1>1, <2>2, <2>3, <2>4, <2>5 DEF WaitsTyped
<1>6. HeapTyped' /\ ChannelsTyped' /\ EndTyped'
  BY <1>1 DEF Typed, HeapTyped, ChannelsTyped, EndTyped, memory
<1> QED  BY <1>3, <1>4, <1>5, <1>6 DEF Typed

LEMMA ChannelIndex ==
  ASSUME HeapTyped, ChannelsTyped, NEW a, Mapped(a), IsChannel(a)
  PROVE  Unsigned(heap[a]) \in Nat /\ Unsigned(heap[a]) + 1 \in DOMAIN channels
<1>1. channels \in Seq(ChannelType)  BY DEF ChannelsTyped
<1>2. Unsigned(heap[a]) \in Nat
  <2>1. heap[a] \in Int  BY SmallWords, HeapWord
  <2> QED  BY <2>1, SignedWord DEF UnsignedWord
<1>3. Unsigned(heap[a]) < Len(channels)  BY DEF IsChannel
<1> QED  BY <1>1, <1>2, <1>3

LEMMA ChanSendTypes ==
  ASSUME TypeInv, Typed, NEW t \in Threads, ChanSend(t)
  PROVE  Typed'
<1>1. Executes(t, {"chan_send"}) /\ Enter(t, "sending", Unsigned(heap[Operand(t, 2)]), Operand(t, 1))
  BY DEF ChanSend
<1>2. /\ status[t] = "running" /\ Operation(t) = "chan_send" /\ ~ Undefined(t)
      /\ ~ (Depth(t) < 2) /\ Pops(t) = 2
  BY <1>1, Succeeds, Counts
<1>3. Mapped(Operand(t, 2)) /\ IsChannel(Operand(t, 2))
  <2>1. Operand(t, 2) \in Accesses(t)  BY <1>2 DEF Accesses
  <2> QED  BY <1>2, <2>1 DEF Undefined
<1>4. /\ Unsigned(heap[Operand(t, 2)]) \in Nat
      /\ Unsigned(heap[Operand(t, 2)]) + 1 \in DOMAIN channels
  BY <1>3, ChannelIndex DEF Typed
<1>5. Depth(t) \in Nat  BY DEF Typed, OperandsTyped, Depth
<1>6. Operand(t, 1) \in Word  BY <1>2, <1>5, OperandWord DEF Typed
<1> QED  BY <1>1, <1>2, <1>4, <1>6, EnterTypes

LEMMA ChanRecvTypes ==
  ASSUME TypeInv, Typed, NEW t \in Threads, ChanRecv(t)
  PROVE  Typed'
<1>1. Executes(t, {"chan_recv"}) /\ Enter(t, "receiving", Unsigned(heap[Operand(t, 1)]), 0)
  BY DEF ChanRecv
<1>2. /\ status[t] = "running" /\ Operation(t) = "chan_recv" /\ ~ Undefined(t)
      /\ ~ (Depth(t) < 1) /\ Pops(t) = 1
  BY <1>1, Succeeds, Counts
<1>3. Mapped(Operand(t, 1)) /\ IsChannel(Operand(t, 1))
  <2>1. Operand(t, 1) \in Accesses(t)  BY <1>2 DEF Accesses
  <2> QED  BY <1>2, <2>1 DEF Undefined
<1>4. /\ Unsigned(heap[Operand(t, 1)]) \in Nat
      /\ Unsigned(heap[Operand(t, 1)]) + 1 \in DOMAIN channels
  BY <1>3, ChannelIndex DEF Typed
<1> QED  BY <1>1, <1>2, <1>4, SmallWords, EnterTypes

(* A buffer changes, and stays within its capacity.                         *)
LEMMA BufferTypes ==
  ASSUME ChannelsTyped, NEW k \in DOMAIN channels, NEW buffer \in Seq(Word),
         Len(buffer) <= channels[k].capacity,
         channels' = [channels EXCEPT ![k].buffer = buffer]
  PROVE  ChannelsTyped' /\ Len(channels') = Len(channels)
<1>1. channels \in Seq(ChannelType) /\ Len(channels) \in Nat
      /\ DOMAIN channels = 1 .. Len(channels)
  BY DEF ChannelsTyped
<1>2. channels[k] \in ChannelType  BY <1>1
<1> DEFINE changed == [channels[k] EXCEPT !.buffer = buffer]
<1>3. /\ changed \in ChannelType /\ changed.buffer = buffer
      /\ changed.capacity = channels[k].capacity
  BY <1>2 DEF ChannelType
<1>4. channels' = [channels EXCEPT ![k] = changed]  OBVIOUS
<1> HIDE DEF changed
<1>5. channels' \in Seq(ChannelType) /\ Len(channels') = Len(channels)
  BY <1>1, <1>3, <1>4
<1>6. DOMAIN channels' = DOMAIN channels  BY <1>4
<1>7. \A i \in DOMAIN channels : channels'[i] = IF i = k THEN changed ELSE channels[i]
  BY <1>4
<1>8. \A i \in DOMAIN channels' : Len(channels'[i].buffer) <= channels'[i].capacity
  BY <1>3, <1>6, <1>7 DEF ChannelsTyped
<1> QED  BY <1>5, <1>8 DEF ChannelsTyped

(* A thread leaves its channel.                                             *)
LEMMA LeaveTypes ==
  ASSUME Typed, NEW t \in Threads, Leave(t), OperandsTyped',
         \A u \in Threads \ {t} : operands'[u] = operands[u],
         ChannelsTyped', Len(channels') = Len(channels)
  PROVE  Typed'
<1>1. /\ status' = [status EXCEPT ![t] = "running"]
      /\ waiting' = [waiting EXCEPT ![t] = NoWait]
      /\ UNCHANGED <<program, stream, call_stack, memory, output, fault>>
  BY DEF Leave
<1>2. ThreadsTyped'
  BY <1>1 DEF Typed, ThreadsTyped, StreamType, Functions, Statuses
<1>3. WaitsTyped'
  <2>1. NoWait \in [channel : Nat, item : Word]  BY SmallWords DEF NoWait
  <2>2. waiting' \in [Threads -> [channel : Nat, item : Word]]
    BY <1>1, <2>1 DEF Typed, WaitsTyped
  <2>3. DOMAIN channels' = DOMAIN channels
    <3>1. channels \in Seq(ChannelType) /\ channels' \in Seq(ChannelType)
      BY DEF Typed, ChannelsTyped
    <3> QED  BY <3>1
  <2>4. /\ status'[t] = "running"
        /\ \A u \in Threads \ {t} :
             status'[u] = status[u] /\ waiting'[u] = waiting[u] /\ Depth(u)' = Depth(u)
    BY <1>1 DEF Typed, ThreadsTyped, WaitsTyped, Depth
  <2> QED  BY <2>2, <2>3, <2>4 DEF Typed, WaitsTyped
<1>4. HeapTyped'  BY <1>1 DEF Typed, HeapTyped, memory
<1>5. EndTyped'  BY <1>1 DEF Typed, EndTyped
<1> QED  BY <1>2, <1>3, <1>4, <1>5 DEF Typed

LEMMA SendTypes ==
  ASSUME Typed, NEW t \in Threads, Send(t)
  PROVE  Typed'
<1> DEFINE k == waiting[t].channel + 1
           old == channels[k].buffer
           buffer == Append(old, waiting[t].item)
<1>1. /\ status[t] = "sending" /\ Leave(t) /\ operands' = operands
      /\ channels' = [channels EXCEPT ![k].buffer = buffer]
      /\ Len(old) < channels[k].capacity
  BY DEF Send, SetBuffer, HasRoom, Channel
<1>2. k \in DOMAIN channels /\ waiting[t].item \in Word
  BY <1>1 DEF Typed, WaitsTyped
<1>3. channels[k] \in ChannelType  BY <1>2 DEF Typed, ChannelsTyped
<1> HIDE DEF k
<1>4. old \in Seq(Word) /\ channels[k].capacity \in Int
  BY <1>3 DEF ChannelType, UnsignedWord
<1> HIDE DEF old
<1>5. buffer \in Seq(Word) /\ Len(buffer) = Len(old) + 1  BY <1>2, <1>4
<1>6. Len(buffer) <= channels[k].capacity  BY <1>1, <1>4, <1>5
<1> HIDE DEF buffer
<1>7. ChannelsTyped' /\ Len(channels') = Len(channels)
  BY <1>1, <1>2, <1>5, <1>6, BufferTypes DEF Typed
<1>8. OperandsTyped'  BY <1>1 DEF Typed, OperandsTyped, Depth
<1> QED  BY <1>1, <1>7, <1>8, LeaveTypes

LEMMA ReceiveTypes ==
  ASSUME Typed, NEW t \in Threads, Receive(t)
  PROVE  Typed'
<1> DEFINE k == waiting[t].channel + 1
           old == channels[k].buffer
<1>1. /\ status[t] = "receiving" /\ Leave(t) /\ old # <<>>
      /\ channels' = [channels EXCEPT ![k].buffer = Tail(old)]
      /\ PopPush(t, 0, <<Head(old)>>)
  BY DEF Receive, SetBuffer, HasItem, Channel
<1>2. k \in DOMAIN channels /\ Depth(t) < OperandStackSize
  BY <1>1 DEF Typed, WaitsTyped
<1>3. channels[k] \in ChannelType /\ Len(channels[k].buffer) <= channels[k].capacity
  BY <1>2 DEF Typed, ChannelsTyped
<1> HIDE DEF k
<1>4. old \in Seq(Word) /\ channels[k].capacity \in Int /\ Len(old) <= channels[k].capacity
  BY <1>3 DEF ChannelType, UnsignedWord
<1> HIDE DEF old
<1>5. Tail(old) \in Seq(Word) /\ Len(Tail(old)) = Len(old) - 1 /\ Head(old) \in Word
      /\ Len(old) \in Nat
  BY <1>1, <1>4
<1> DEFINE buffer == Tail(old)
           w == Head(old)
<1>6. Len(buffer) <= channels[k].capacity  BY <1>4, <1>5
<1> HIDE DEF buffer, w
<1>7. ChannelsTyped' /\ Len(channels') = Len(channels)
  <2>1. channels' = [channels EXCEPT ![k].buffer = buffer] /\ buffer \in Seq(Word)
    BY <1>1, <1>5 DEF buffer
  <2> QED  BY <1>2, <1>6, <2>1, BufferTypes DEF Typed
<1>8. OperandsTyped' /\ \A u \in Threads \ {t} : operands'[u] = operands[u]
  <2>1. w \in Word /\ PopPush(t, 0, <<w>>)  BY <1>1, <1>5 DEF w
  <2>2. Depth(t) \in Nat  BY DEF Typed, OperandsTyped, Depth
  <2>3. ~ (Depth(t) < 0) /\ ~ (Depth(t) - 0 + 1 > OperandStackSize)
    BY <1>2, <2>2, SizesAssumption
  <2> QED  BY <2>1, <2>3, SingleWord, PopPushTypes DEF Typed
<1> QED  BY <1>1, <1>7, <1>8, LeaveTypes

LEMMA PrintValueTypes ==
  ASSUME TypeInv, Typed, NEW t \in Threads, PrintValue(t)
  PROVE  Typed'
<1>1. /\ PopPush(t, 1, <<>>) /\ NextInstruction(t)
      /\ UNCHANGED <<program, status, call_stack, waiting, memory, channels, fault>>
  BY DEF PrintValue
<1>2. /\ status[t] = "running" /\ ~ Undefined(t)
      /\ ~ (Depth(t) < 1) /\ ~ (Depth(t) - 1 + 0 > OperandStackSize)
  BY Succeeds, Counts DEF PrintValue
<1>3. PICK w \in Word : output' = Append(output, w)
  <2>1. CASE output' = Append(output, Operand(t, 1))
    BY <1>2, <2>1, OperandWord DEF Typed
  <2>2. CASE Executes(t, {"sprint"}) /\ output' = Append(output, heap[Operand(t, 1)])
    <3>1. Operation(t) = "sprint"  BY <2>2, Succeeds
    <3>2. Accesses(t) = {Operand(t, 1)}  BY <3>1 DEF Accesses
    <3>3. Mapped(Operand(t, 1))  BY <1>2, <3>2 DEF Undefined
    <3> QED  BY <2>2, <3>3, HeapWord DEF Typed
  <2> QED  BY <2>1, <2>2 DEF PrintValue
<1>4. OperandsTyped' /\ \A u \in Threads \ {t} : operands'[u] = operands[u]
  BY <1>1, <1>2, NoWord, PopPushTypes DEF Typed
<1>5. WaitsTyped'  BY <1>1, <1>2, <1>4, WaitsKeep DEF Typed
<1>6. status' = [status EXCEPT ![t] = "running"]  BY <1>1, <1>2, SameStatus DEF Typed
<1>7. ThreadsTyped'  BY <1>1, <1>6, NextThreads DEF Typed, Statuses
<1>8. HeapTyped' /\ ChannelsTyped'  BY <1>1 DEF Typed, HeapTyped, ChannelsTyped, memory
<1>9. EndTyped'  BY <1>1, <1>3 DEF Typed, EndTyped
<1> QED  BY <1>4, <1>5, <1>7, <1>8, <1>9 DEF Typed

LEMMA StutterTypes ==
  ASSUME Typed, UNCHANGED <<program, local, memory, channels, output>>,
         fault' \in Faults \cup {"none"}
  PROVE  Typed'
BY DEF Typed, ThreadsTyped, StreamType, Functions, OperandsTyped, Depth, WaitsTyped,
       HeapTyped, ChannelsTyped, EndTyped, local, memory

LEMMA FailTypes ==
  ASSUME Typed, NEW t \in Threads, Fail(t)
  PROVE  Typed'
<1>1. Failure(t) \in Faults  BY DEF Fail, Failure, Faults
<1> QED  BY <1>1, StutterTypes DEF Fail

-----------------------------------------------------------------------------
(* Runtime::start leaves empty stacks, but for the frame of main, and a     *)
(* heap of zeros.                                                           *)
LEMMA InitTypes == Init => TypeInv
<1> SUFFICES ASSUME Init  PROVE TypeInv  OBVIOUS
<1> DEFINE first == PushFrame(NewCallStack(CallStackSize), program.main,
                              Function(program.main).varc, 0)
<1>1. WellFormed(program) /\ FitsWords(program) /\ program.main \in Functions
  BY ProgramsAssumption DEF Init, WellFormed, Functions
<1>2. /\ program.main \in Nat /\ Function(program.main).varc \in Nat
      /\ program.main <= Len(program.functions) - 1
      /\ Len(program.functions) - 1 \in Word
  <2>1. Len(program.functions) \in Nat  BY <1>1 DEF WellFormed
  <2>2. program.main \in 0 .. (Len(program.functions) - 1)
    BY <1>1 DEF Functions, Indices
  <2>3. Function(program.main).varc \in Nat
    BY <1>1, FunctionTypes DEF Functions, Function, VarcOf
  <2>4. Len(program.functions) - 1 \in Word  BY <1>1 DEF FitsWords
  <2> QED  BY <2>1, <2>2, <2>3, <2>4
<1>3. program.main \in Word  BY <1>2, SmallWords
<1>4. first \in StackType
  <2>1. NewCallStack(CallStackSize).frame_pointer = 0  BY DEF NewCallStack
  <2> QED  BY <1>2, <1>3, <2>1, NewCallStackType, SmallWords, CallStackTypes
<1>5. /\ status = [t \in Threads |-> IF t = Main THEN "running" ELSE "absent"]
      /\ stream = [t \in Threads |->
           [function |-> IF t = Main THEN program.main ELSE 0, program_counter |-> 0]]
      /\ call_stack = [t \in Threads |->
           IF t = Main THEN first ELSE NewCallStack(CallStackSize)]
      /\ operands = [t \in Threads |-> <<>>]
      /\ waiting = [t \in Threads |-> NoWait]
      /\ heap = [a \in 0 .. (HeapSize - 1) |-> 0]
      /\ top = 0 /\ channels = <<>> /\ output = <<>> /\ fault = "none"
  BY DEF Init
<1> HIDE DEF first
<1>6. ThreadsTyped
  <2>1. 0 \in Functions  BY <1>2 DEF Functions, Indices
  <2>2. \A t \in Threads : stream[t] \in StreamType  BY <1>1, <1>5, <2>1 DEF StreamType
  <2>3. stream \in [Threads -> StreamType]  BY <1>5, <2>2
  <2> QED  BY <1>4, <1>5, <2>3, NewCallStackType DEF ThreadsTyped, Statuses
<1>7. OperandsTyped  BY <1>5, NoWord, SizesAssumption DEF OperandsTyped, Depth
<1>8. WaitsTyped  BY <1>5, SmallWords DEF WaitsTyped, NoWait
<1>9. HeapTyped  BY <1>5, SmallWords, SizesAssumption DEF HeapTyped, Memory
<1>10. ChannelsTyped  BY <1>5 DEF ChannelsTyped
<1>11. EndTyped  BY <1>5 DEF EndTyped
<1> QED
  BY <1>1, <1>6, <1>7, <1>8, <1>9, <1>10, <1>11, InitIInv DEF TypeInv, Typed

LEMMA NextTypes == TypeInv /\ [Next]_vars => TypeInv'
<1> SUFFICES ASSUME TypeInv, [Next]_vars  PROVE TypeInv'  OBVIOUS
<1>1. program' = program
  BY DEF Next, vars, Step, Load, Store, Shuffle, Calculate, Branch, WLoad, WStore, New,
         InvokeStatic, InvokeDynamic, Ret, FallOff, NewThread, NewChan, NewSlice, ChanSend,
         ChanRecv, Enter, Send, Receive, Leave, PrintValue, Fail
<1>2. IInv'  BY NextIInv DEF TypeInv
<1>3. FitsWords(program)'  BY <1>1 DEF TypeInv, FitsWords
<1>4. ASSUME SlotsFit(program)  PROVE Typed'
  <2>1. Typed  BY <1>4 DEF TypeInv
  <2>2. CASE UNCHANGED vars
    <3>1. fault' \in Faults \cup {"none"}  BY <2>1, <2>2 DEF vars, Typed, EndTyped
    <3> QED  BY <2>1, <2>2, <3>1, StutterTypes DEF vars
  <2>3. ASSUME NEW t \in Threads, Step(t)  PROVE Typed'
    BY <1>4, <2>1, <2>3, LoadTypes, StoreTypes, ShuffleTypes, CalculateTypes, BranchTypes,
       WLoadTypes, WStoreTypes, NewTypes, InvokeStaticTypes, InvokeDynamicTypes, RetTypes,
       FallOffTypes, NewThreadTypes, NewChanTypes, NewSliceTypes, ChanSendTypes,
       ChanRecvTypes, SendTypes, ReceiveTypes, PrintValueTypes, FailTypes
    DEF Step
  <2> QED  BY <2>2, <2>3 DEF Next
<1>5. SlotsFit(program') = SlotsFit(program)  BY <1>1
<1> QED  BY <1>2, <1>3, <1>4, <1>5 DEF TypeInv

(* In every program whose locals are in their frames, however long it runs  *)
(* and whatever its goroutines do: the arithmetic of Thread::run stays in   *)
(* words, an operand stack holds no more than OperandStack::push lets in, a *)
(* channel no more than its capacity, ret finds a function and a place in   *)
(* the code behind the words it takes from raw memory, and the index a      *)
(* thread has of its channel is one that ChannelManager knows.              *)
THEOREM TypeOKTheorem == Spec => [](SlotsFit(program) => TypeOK)
<1>1. TypeInv => (SlotsFit(program) => TypeOK)  BY TypedIsTypeOK DEF TypeInv
<1> QED  BY <1>1, InitTypes, NextTypes, PTL DEF Spec
=============================================================================
