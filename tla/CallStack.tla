------------------------------ MODULE CallStack ------------------------------
(***************************************************************************)
(* src/src/CallStack.hpp: the frames of a thread, laid out in one block of *)
(* memory that nothing clears between two calls.  A frame is its FrameData *)
(* followed by the local variables; frame_pointer is the address of the    *)
(* newest frame and each FrameData holds the address of the one before.    *)
(* Addresses are in words.  No operation tests the bounds of the memory:   *)
(* InBounds says when they would leave it.                                 *)
(***************************************************************************)
EXTENDS Integers

FrameDataSize == 3

(* The three words of FrameData. *)
FunctionIndex(cs, frame) == cs.memory[frame]
SavedFramePointer(cs, frame) == cs.memory[frame + 1]
SavedProgramCounter(cs, frame) == cs.memory[frame + 2]

LocalAddress(cs, index) == cs.frame_pointer + FrameDataSize + index

InBounds(cs, address) == address \in DOMAIN cs.memory

(* std::make_unique<std::byte[]> zeroes the memory. *)
NewCallStack(size) ==
  [memory |-> [a \in 0 .. (size - 1) |-> 0], top |-> 0, frame_pointer |-> 0]

Empty(cs) == cs.top = 0

LoadLocal(cs, index) == cs.memory[LocalAddress(cs, index)]

StoreLocal(cs, index, word) == [cs EXCEPT !.memory[LocalAddress(cs, index)] = word]

(* store_local for locals 0, 1, ...: words[i] goes to local i - 1. *)
StoreLocals(cs, words) ==
  [cs EXCEPT !.memory = [a \in DOMAIN cs.memory |->
     LET i == a - LocalAddress(cs, 0) + 1
     IN  IF i \in DOMAIN words THEN words[i] ELSE cs.memory[a]]]

(* Faulty variant: the size of the frame leaves out its FrameData. *)
PushFrameLocalsOnly(cs, function_index, varc, program_counter) ==
  [memory |-> [cs.memory EXCEPT ![cs.top] = function_index,
                                ![cs.top + 1] = cs.frame_pointer,
                                ![cs.top + 2] = program_counter],
   top |-> cs.top + varc,
   frame_pointer |-> cs.top]

(* push_frame writes the FrameData at top and leaves room for the locals,  *)
(* which keep whatever an earlier frame left there.                        *)
PushFrame(cs, function_index, varc, program_counter) ==
  [memory |-> [cs.memory EXCEPT ![cs.top] = function_index,
                                ![cs.top + 1] = cs.frame_pointer,
                                ![cs.top + 2] = program_counter],
   top |-> cs.top + FrameDataSize + varc,
   frame_pointer |-> cs.top]

(* Faulty variant: the caller's frame pointer is not restored. *)
PopFrameTopOnly(cs) == [cs EXCEPT !.top = cs.frame_pointer]

PopFrame(cs) ==
  [memory |-> cs.memory,
   top |-> cs.frame_pointer,
   frame_pointer |-> SavedFramePointer(cs, cs.frame_pointer)]

(* The addresses of the frames, found as a debugger would: by following    *)
(* the saved frame pointers down.                                          *)
Frames(cs) ==
  LET down[frame \in DOMAIN cs.memory] ==
        {frame} \cup IF SavedFramePointer(cs, frame) \in 0 .. (frame - 1)
                     THEN down[SavedFramePointer(cs, frame)] ELSE {}
  IN  IF Empty(cs) THEN {} ELSE down[cs.frame_pointer]
=============================================================================
