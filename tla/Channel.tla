------------------------------- MODULE Channel -------------------------------
(***************************************************************************)
(* What src/src/BlockingQueue.hpp promises its callers: a bounded FIFO     *)
(* whose four operations take effect in one atomic step each, somewhere    *)
(* between the call and the return.  There are no condition variables      *)
(* here; a blocking operation simply is not enabled until it can succeed.  *)
(* BlockingQueue.tla is the mutex-and-condition-variable code, and is      *)
(* shown to implement this module.                                         *)
(***************************************************************************)
EXTENDS Naturals, Sequences

CONSTANTS
  Threads,   \* the platform threads that hold a reference to the queue
  Items,     \* the words that travel through it (heap addresses in the code)
  Capacity,  \* the capacity given to the constructor
  NoItem     \* no argument and no result

VARIABLES
  buffer,    \* the items in the channel, oldest first
  phase,     \* phase[t]: the operation t is in, and whether it took effect
  item       \* item[t]: the argument or the result of that operation

vars == <<buffer, phase, item>>

Init ==
  /\ buffer = <<>>
  /\ phase = [t \in Threads |-> "idle"]
  /\ item = [t \in Threads |-> NoItem]

(* A thread enters one of the four operations. *)
Call(t, op, v) ==
  /\ phase[t] = "idle"
  /\ phase' = [phase EXCEPT ![t] = op]
  /\ item' = [item EXCEPT ![t] = v]
  /\ UNCHANGED buffer

CallSend(t) == \E op \in {"push", "try_push"}, v \in Items : Call(t, op, v)
CallReceive(t) == \E op \in {"pop", "try_pop"} : Call(t, op, NoItem)

(* push and a successful try_push: the item joins the end of the buffer. *)
Send(t) ==
  /\ phase[t] \in {"push", "try_push"}
  /\ Len(buffer) < Capacity
  /\ buffer' = Append(buffer, item[t])
  /\ phase' = [phase EXCEPT ![t] = "done"]
  /\ UNCHANGED item

(* pop and a successful try_pop: the oldest item becomes the result. *)
Receive(t) ==
  /\ phase[t] \in {"pop", "try_pop"}
  /\ buffer # <<>>
  /\ item' = [item EXCEPT ![t] = Head(buffer)]
  /\ buffer' = Tail(buffer)
  /\ phase' = [phase EXCEPT ![t] = "done"]

(* try_push on a full buffer, try_pop on an empty one: nothing happens. *)
Refuse(t) ==
  /\ \/ phase[t] = "try_push" /\ Len(buffer) >= Capacity
     \/ phase[t] = "try_pop" /\ buffer = <<>>
  /\ phase' = [phase EXCEPT ![t] = "idle"]
  /\ item' = [item EXCEPT ![t] = NoItem]
  /\ UNCHANGED buffer

(* The operation returns and hands its result to the caller. *)
Return(t) ==
  /\ phase[t] = "done"
  /\ phase' = [phase EXCEPT ![t] = "idle"]
  /\ item' = [item EXCEPT ![t] = NoItem]
  /\ UNCHANGED buffer

Next ==
  \E t \in Threads :
    \/ CallSend(t) \/ CallReceive(t)
    \/ Send(t) \/ Receive(t) \/ Refuse(t)
    \/ Return(t)

Spec == Init /\ [][Next]_vars
=============================================================================
