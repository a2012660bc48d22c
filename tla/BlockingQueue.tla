---------------------------- MODULE BlockingQueue ----------------------------
(***************************************************************************)
(* src/src/BlockingQueue.hpp: a bounded queue guarded by one mutex and two *)
(* condition variables, the object behind every goat channel.              *)
(*                                                                         *)
(* Everything done while the mutex is held is one step: content is touched *)
(* nowhere else, so no thread can see the middle of a critical section.    *)
(* What is kept apart is what the code does outside of it: going to sleep  *)
(* on a condition variable, notify_one after the mutex was released, and   *)
(* the second test of the predicate after waking up.                       *)
(***************************************************************************)
EXTENDS Naturals, Sequences, FiniteSets

CONSTANTS
  Threads,   \* the platform threads that hold a reference to the queue
  Items,     \* the words that travel through it (heap addresses in the code)
  Capacity,  \* BlockingQueue(u64 capacity); 0 is a capacity a program can ask for
  NoItem     \* no argument and no result

ASSUME ThreadsAssumption == IsFiniteSet(Threads)
ASSUME CapacityAssumption == Capacity \in Nat
ASSUME NoItemAssumption == NoItem \notin Items

VARIABLES
  content,   \* std::deque<u64> content, front first
  pc,        \* pc[t]: where thread t is
  item       \* item[t]: the argument or the result of its operation

vars == <<content, pc, item>>

(***************************************************************************)
(* The places a thread can be in:                                          *)
(*   "idle"       outside of the queue                                     *)
(*   "push"       in push, about to lock the mutex and test size < capacity*)
(*   "not_full"   in push, asleep on the condition variable not_full       *)
(*   "try_push"   in try_push, about to lock the mutex                     *)
(*   "pushed"     item stored, mutex released, not_empty.notify_one() next *)
(*   "pop", "not_empty", "try_pop", "popped"  the same four for pop        *)
(***************************************************************************)
Places == {"idle", "push", "not_full", "try_push", "pushed",
           "pop", "not_empty", "try_pop", "popped"}

At(place) == {t \in Threads : pc[t] = place}
Count(place) == Cardinality(At(place))

Goto(t, place) == pc' = [pc EXCEPT ![t] = place]

Init ==
  /\ content = <<>>
  /\ pc = [t \in Threads |-> "idle"]
  /\ item = [t \in Threads |-> NoItem]

-----------------------------------------------------------------------------
(* Entering an operation.  The callers (chan_send and chan_recv, and any   *)
(* user of the two try_ functions) may do so at any time.                  *)

(* Faulty variant: the item is not passed on, push stores an empty word. *)
CallSendWithoutItem(t) ==
  /\ pc[t] = "idle"
  /\ \E place \in {"push", "try_push"} : Goto(t, place)
  /\ UNCHANGED <<content, item>>

CallSend(t) ==
  /\ pc[t] = "idle"
  /\ \E place \in {"push", "try_push"} : Goto(t, place)
  /\ \E v \in Items : item' = [item EXCEPT ![t] = v]
  /\ UNCHANGED content

CallReceive(t) ==
  /\ pc[t] = "idle"
  /\ \E place \in {"pop", "try_pop"} : Goto(t, place)
  /\ UNCHANGED <<content, item>>

-----------------------------------------------------------------------------
(* The critical sections. *)

(* content.push_back(item), then the mutex is released. *)
PushBack(t) ==
  /\ content' = Append(content, item[t])
  /\ Goto(t, "pushed")
  /\ UNCHANGED item

(* Faulty variant: the front is read but pop_front is forgotten. *)
PopFrontKeeps(t) ==
  /\ item' = [item EXCEPT ![t] = Head(content)]
  /\ Goto(t, "popped")
  /\ UNCHANGED content

(* item = content.front(); content.pop_front(), then the mutex is released. *)
PopFront(t) ==
  /\ item' = [item EXCEPT ![t] = Head(content)]
  /\ content' = Tail(content)
  /\ Goto(t, "popped")

(* Faulty variant: an off-by-one in the predicate. *)
PushStoreOffByOne(t) ==
  /\ pc[t] = "push"
  /\ Len(content) <= Capacity
  /\ PushBack(t)

(* not_full.wait(lock, ...) finds its predicate true, now or after a wake-up. *)
PushStore(t) ==
  /\ pc[t] = "push"
  /\ Len(content) < Capacity
  /\ PushBack(t)

(* not_full.wait(lock, ...) finds it false: unlock and sleep, atomically. *)
PushSleep(t) ==
  /\ pc[t] = "push"
  /\ ~ (Len(content) < Capacity)
  /\ Goto(t, "not_full")
  /\ UNCHANGED <<content, item>>

PopTake(t) ==
  /\ pc[t] = "pop"
  /\ content # <<>>
  /\ PopFront(t)

PopSleep(t) ==
  /\ pc[t] = "pop"
  /\ content = <<>>
  /\ Goto(t, "not_empty")
  /\ UNCHANGED <<content, item>>

(* try_push tests size == capacity, where push tests size < capacity. *)
TryPushStore(t) ==
  /\ pc[t] = "try_push"
  /\ Len(content) # Capacity
  /\ PushBack(t)

TryPopTake(t) ==
  /\ pc[t] = "try_pop"
  /\ content # <<>>
  /\ PopFront(t)

(* The early return false of try_push and try_pop: nobody is notified. *)
TryFail(t) ==
  /\ \/ pc[t] = "try_push" /\ Len(content) = Capacity
     \/ pc[t] = "try_pop" /\ content = <<>>
  /\ Goto(t, "idle")
  /\ item' = [item EXCEPT ![t] = NoItem]
  /\ UNCHANGED content

-----------------------------------------------------------------------------
(* Outside of the mutex. *)

(* notify_one wakes one of the threads asleep at cv, if there is one; the   *)
(* woken thread goes back to testing its predicate.  t returns.             *)
NotifyOne(t, cv, wakeAt) ==
  IF At(cv) = {}
  THEN Goto(t, "idle")
  ELSE \E u \in At(cv) : pc' = [pc EXCEPT ![t] = "idle", ![u] = wakeAt]

(* Faulty variant: receivers are only notified when the queue was empty. *)
PushNotifyFirstOnly(t) ==
  /\ pc[t] = "pushed"
  /\ IF Len(content) = 1 THEN NotifyOne(t, "not_empty", "pop") ELSE Goto(t, "idle")
  /\ item' = [item EXCEPT ![t] = NoItem]
  /\ UNCHANGED content

PushNotify(t) ==
  /\ pc[t] = "pushed"
  /\ NotifyOne(t, "not_empty", "pop")
  /\ item' = [item EXCEPT ![t] = NoItem]
  /\ UNCHANGED content

(* Faulty variant: pop notifies the receivers' condition variable. *)
PopNotifyWrongQueue(t) ==
  /\ pc[t] = "popped"
  /\ NotifyOne(t, "not_empty", "pop")
  /\ item' = [item EXCEPT ![t] = NoItem]
  /\ UNCHANGED content

PopNotify(t) ==
  /\ pc[t] = "popped"
  /\ NotifyOne(t, "not_full", "push")
  /\ item' = [item EXCEPT ![t] = NoItem]
  /\ UNCHANGED content

(* std::condition_variable may wake a sleeper without any notification. *)
SpuriousWakeup(t) ==
  /\ \/ pc[t] = "not_full" /\ Goto(t, "push")
     \/ pc[t] = "not_empty" /\ Goto(t, "pop")
  /\ UNCHANGED <<content, item>>

-----------------------------------------------------------------------------
(* The steps t takes on its own once it is inside an operation. *)
Step(t) ==
  \/ PushStore(t) \/ PushSleep(t) \/ PushNotify(t)
  \/ PopTake(t) \/ PopSleep(t) \/ PopNotify(t)
  \/ TryPushStore(t) \/ TryPopTake(t) \/ TryFail(t)

Next ==
  \E t \in Threads :
    CallSend(t) \/ CallReceive(t) \/ Step(t) \/ SpuriousWakeup(t)

Spec == Init /\ [][Next]_vars

(* The operating system keeps running a thread that is inside an operation, *)
(* and the mutex is only ever held for one of the short sections above.     *)
(* Nothing makes a caller call, and nothing makes a wake-up spurious.       *)
FairSpec == Spec /\ \A t \in Threads : WF_vars(Step(t))

-----------------------------------------------------------------------------
TypeOK ==
  /\ content \in Seq(Items)
  /\ pc \in [Threads -> Places]
  /\ item \in [Threads -> Items \cup {NoItem}]

(* The queue never holds more than its capacity.  try_push relies on it: it *)
(* compares with ==, so a queue past its capacity would never look full     *)
(* again.                                                                   *)
CapacityRespected == Len(content) <= Capacity

(* No wake-up is lost.  While somebody sleeps on not_empty, every item in   *)
(* the queue is accounted for by a thread that will take it or wake a       *)
(* sleeper: one about to test pop's predicate, or one that has pushed and   *)
(* not notified yet.  The same for free slots and sleepers on not_full.     *)
(* The notify_one calls come after the mutex is released, so this is where  *)
(* the design could leak a wake-up.                                         *)
NoLostWakeup ==
  /\ At("not_empty") # {} =>
       Len(content) <= Count("pop") + Count("pushed")
  /\ At("not_full") # {} =>
       Capacity <= Len(content) + Count("push") + Count("popped")

(* A receiver is not left asleep beside an item: it wakes up, or the item   *)
(* goes to another receiver.                                                *)
ReceiverNotStranded ==
  \A t \in Threads :
    (pc[t] = "not_empty" /\ content # <<>>)
      ~> (pc[t] # "not_empty" \/ content = <<>>)

(* A sender is not left asleep beside a free slot. *)
SenderNotStranded ==
  \A t \in Threads :
    (pc[t] = "not_full" /\ Len(content) < Capacity)
      ~> (pc[t] # "not_full" \/ Len(content) = Capacity)

(* The queue is a Channel: its operations take effect in their critical     *)
(* sections, and sleeping, waking and notifying cannot be seen from outside.*)
ChannelPhase(place) ==
  CASE place = "not_full" -> "push"
    [] place = "not_empty" -> "pop"
    [] place \in {"pushed", "popped"} -> "done"
    [] OTHER -> place

AbstractChannel ==
  INSTANCE Channel
    WITH buffer <- content, phase <- [t \in Threads |-> ChannelPhase(pc[t])]

ImplementsChannel == AbstractChannel!Spec
=============================================================================
