-------------------------------- MODULE Heap --------------------------------
(***************************************************************************)
(* src/src/Heap.hpp and Heap.cpp: the bump allocator all goroutines share. *)
(* Heap::new_block tests the free space and computes the address it will   *)
(* return before it locks the mutex; only the header and the new value of  *)
(* top are written under it.  Each unlocked access is a step of its own,   *)
(* the locked section is one step.  Sizes and addresses are in words, and  *)
(* no sum of them wraps around: Interpreter has the blocks where one does. *)
(***************************************************************************)
EXTENDS Integers, FiniteSets

CONSTANTS
  Threads,      \* the platform threads that allocate
  Size,         \* heap_size
  BlockSizes,   \* sizeof(BlockHeader) + type.size * count, for what programs allocate
  HeaderSize,   \* sizeof(BlockHeader)
  Overlapping   \* FALSE: the program lets no two goroutines allocate at once

ASSUME SizeAssumption == Size \in Nat
ASSUME HeaderAssumption == HeaderSize \in Nat \ {0}
ASSUME BlockSizesAssumption == \A s \in BlockSizes : s \in Nat /\ s >= HeaderSize
ASSUME OverlappingAssumption == Overlapping \in BOOLEAN

VARIABLES
  top,      \* Heap::top
  headers,  \* the block headers in memory: [first, words]
  objects,  \* what new_block returned so far: [owner, address, words]
  pc,       \* pc[t]: where t is in new_block
  want,     \* want[t]: its block_size
  seen,     \* seen[t]: the value of top that enough_space read
  address   \* address[t]: the address new_block is going to return

vars == <<top, headers, objects, pc, want, seen, address>>

(***************************************************************************)
(*   "idle"     not allocating                                             *)
(*   "check"    about to call enough_space                                 *)
(*   "address"  about to compute address from top                          *)
(*   "commit"   about to lock, write the header and advance top            *)
(*   "thrown"   threw "out of memory!", which ends the process             *)
(***************************************************************************)
Places == {"idle", "check", "address", "commit", "thrown"}

Alive == \A t \in Threads : pc[t] # "thrown"

Goto(t, place) == pc' = [pc EXCEPT ![t] = place]

Init ==
  /\ top = 0
  /\ headers = {}
  /\ objects = {}
  /\ pc = [t \in Threads |-> "idle"]
  /\ want = [t \in Threads |-> 0]
  /\ seen = [t \in Threads |-> 0]
  /\ address = [t \in Threads |-> 0]

-----------------------------------------------------------------------------
(* Faulty variant: block_size is never computed.                            *)
NewBlockUnsized(t) ==
  /\ Alive
  /\ pc[t] = "idle"
  /\ Overlapping \/ \A u \in Threads : pc[u] = "idle"
  /\ Goto(t, "check")
  /\ UNCHANGED <<top, headers, objects, want, seen, address>>

(* allocate calls new_block, which computes block_size. *)
NewBlock(t) ==
  /\ Alive
  /\ pc[t] = "idle"
  /\ Overlapping \/ \A u \in Threads : pc[u] = "idle"
  /\ \E s \in BlockSizes : want' = [want EXCEPT ![t] = s]
  /\ Goto(t, "check")
  /\ UNCHANGED <<top, headers, objects, seen, address>>

(* Faulty variant: the header is not counted.                               *)
EnoughSpaceForPayload(t) == top + want[t] - HeaderSize <= Size

(* enough_space(block_size), without the mutex. *)
EnoughSpace(t) == top + want[t] <= Size

CheckSpace(t) ==
  /\ Alive
  /\ pc[t] = "check"
  /\ IF EnoughSpace(t) THEN Goto(t, "address") ELSE Goto(t, "thrown")
  /\ seen' = [seen EXCEPT ![t] = top]
  /\ UNCHANGED <<top, headers, objects, want, address>>

(* Faulty variant: the address of the header is returned.                   *)
ReadHeaderAddress(t) ==
  /\ Alive
  /\ pc[t] = "address"
  /\ \E base \in {top, seen[t]} : address' = [address EXCEPT ![t] = base]
  /\ Goto(t, "commit")
  /\ UNCHANGED <<top, headers, objects, want, seen>>

(* address = top + sizeof(BlockHeader), still without the mutex.  The two   *)
(* reads of top are unsynchronised: the compiler may keep the first value.  *)
ReadAddress(t) ==
  /\ Alive
  /\ pc[t] = "address"
  /\ \E base \in {top, seen[t]} : address' = [address EXCEPT ![t] = base + HeaderSize]
  /\ Goto(t, "commit")
  /\ UNCHANGED <<top, headers, objects, want, seen>>

(* The locals of new_block end with it. *)
Forget(t) ==
  /\ want' = [want EXCEPT ![t] = 0]
  /\ seen' = [seen EXCEPT ![t] = 0]
  /\ address' = [address EXCEPT ![t] = 0]

(* Faulty variant: the header is written where address was computed.        *)
CommitAtAddress(t) ==
  /\ Alive
  /\ pc[t] = "commit"
  /\ headers' = headers \cup {[first |-> address[t] - HeaderSize, words |-> want[t]]}
  /\ top' = top + want[t]
  /\ objects' = objects \cup {[owner |-> t, address |-> address[t], words |-> want[t]]}
  /\ Goto(t, "idle")
  /\ Forget(t)

(* Faulty variant: top advances by the payload, not by the whole block.     *)
CommitPayload(t) ==
  /\ Alive
  /\ pc[t] = "commit"
  /\ headers' = headers \cup {[first |-> top, words |-> want[t]]}
  /\ top' = top + want[t] - HeaderSize
  /\ objects' = objects \cup {[owner |-> t, address |-> address[t], words |-> want[t]]}
  /\ Goto(t, "idle")
  /\ Forget(t)

(* Under the mutex the header is written at top, wherever top is by now,    *)
(* and top advances; new_block returns the address computed before.         *)
Commit(t) ==
  /\ Alive
  /\ pc[t] = "commit"
  /\ headers' = headers \cup {[first |-> top, words |-> want[t]]}
  /\ top' = top + want[t]
  /\ objects' = objects \cup {[owner |-> t, address |-> address[t], words |-> want[t]]}
  /\ Goto(t, "idle")
  /\ Forget(t)

Next ==
  \E t \in Threads :
    NewBlock(t) \/ CheckSpace(t) \/ ReadAddress(t) \/ Commit(t)

Spec == Init /\ [][Next]_vars

-----------------------------------------------------------------------------
TypeOK ==
  /\ top \in Nat
  /\ headers \subseteq [first : Nat, words : BlockSizes]
  /\ objects \subseteq [owner : Threads, address : Nat, words : BlockSizes]
  /\ pc \in [Threads -> Places]
  /\ want \in [Threads -> BlockSizes \cup {0}]
  /\ seen \in [Threads -> Nat]
  /\ address \in [Threads -> Nat]
  /\ \A t \in Threads : pc[t] # "idle" => want[t] \in BlockSizes

(* The headers tile the used part of the heap: walking from 0 by the sizes  *)
(* they hold meets every header and ends at top.  It holds however many     *)
(* threads allocate at once, because header and top change together.        *)
Covers(h, a) == h.first <= a /\ a < h.first + h.words

HeadersTile ==
  /\ \A a \in 0 .. (top - 1) : \E h \in headers : Covers(h, a)
  /\ \A h \in headers : h.first >= 0 /\ h.first + h.words <= top
  /\ \A h, i \in headers : h # i => h.first + h.words <= i.first \/ i.first + i.words <= h.first

(* An address that was returned is the first word behind some header, even  *)
(* when top moved between the reading of it and the commit: threads that    *)
(* race can be given the same block, never the middle of one.               *)
AddressesAreBlocks ==
  \A o \in objects : \E h \in headers : o.address = h.first + HeaderSize

(* "out of memory!" is thrown instead of growing past the end of the heap.  *)
(* Only true of programs whose allocations do not overlap.                  *)
NoOvercommit == top <= Size

(* With overlapping allocations, top passes the end by at most one block    *)
(* for every other thread: each was let through by a test made before.      *)
OvercommitBounded ==
  \E largest \in BlockSizes :
    /\ \A s \in BlockSizes : s <= largest
    /\ top <= Size + (Cardinality(Threads) - 1) * largest

(* The heap is an Allocator, for programs whose allocations do not overlap. *)
AbstractAllocator ==
  INSTANCE Allocator
    WITH allocated <- {[owner |-> o.owner, first |-> o.address - HeaderSize,
                        words |-> o.words] : o \in objects},
         exhausted <- ~ Alive

ImplementsAllocator == AbstractAllocator!Spec
=============================================================================
