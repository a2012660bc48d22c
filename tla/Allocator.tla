------------------------------ MODULE Allocator ------------------------------
(***************************************************************************)
(* What src/src/Heap.hpp promises the interpreter: every block it hands    *)
(* out lies inside the heap and overlaps no block handed out before, and   *)
(* "out of memory!" is thrown only when no room is left for the request.   *)
(* There is no free: nothing in src/src reclaims memory.                   *)
(***************************************************************************)
EXTENDS Integers

CONSTANTS
  Threads,    \* the platform threads that allocate
  Size,       \* words in the heap
  BlockSizes  \* the sizes of blocks programs ask for, in words, header included

VARIABLES
  allocated,  \* the blocks handed out: [owner, first, words]
  exhausted   \* "out of memory!" was thrown, and the process with it ended

vars == <<allocated, exhausted>>

Words(first, words) == first .. (first + words - 1)

Free(first, words) ==
  \A b \in allocated : Words(b.first, b.words) \cap Words(first, words) = {}

Init ==
  /\ allocated = {}
  /\ exhausted = FALSE

Grant(t, words) ==
  /\ ~ exhausted
  /\ \E first \in 0 .. (Size - words) :
       /\ Free(first, words)
       /\ allocated' = allocated \cup {[owner |-> t, first |-> first, words |-> words]}
  /\ UNCHANGED exhausted

Throw(words) ==
  /\ ~ exhausted
  /\ \A first \in 0 .. (Size - words) : ~ Free(first, words)
  /\ exhausted' = TRUE
  /\ UNCHANGED allocated

Next ==
  \E words \in BlockSizes : Throw(words) \/ \E t \in Threads : Grant(t, words)

Spec == Init /\ [][Next]_vars
=============================================================================
