------------------------- MODULE BlockingQueueProofs -------------------------
(***************************************************************************)
(* Proofs about BlockingQueue, for every finite set of threads, every set  *)
(* of items and every capacity: its type invariant, that no wake-up is     *)
(* lost, and that it implements Channel.                                   *)
(***************************************************************************)
EXTENDS BlockingQueue, FiniteSetTheorems, TLAPS

-----------------------------------------------------------------------------
(* A thread that moves from one place to another changes the two sets of   *)
(* threads concerned by itself alone, and their sizes by one.              *)
LEMMA MoveSets ==
  ASSUME pc \in [Threads -> Places],
         NEW t \in Threads, NEW from \in Places, NEW to \in Places \ {from},
         pc[t] = from, Goto(t, to)
  PROVE  /\ pc' \in [Threads -> Places]
         /\ At(to)' = At(to) \cup {t}
         /\ At(from)' = At(from) \ {t}
         /\ \A other \in Places \ {from, to} : At(other)' = At(other)
  BY DEF Goto, At

LEMMA AtFinite ==
  ASSUME NEW place
  PROVE  IsFiniteSet(At(place)) /\ IsFiniteSet(At(place)')
<1>1. At(place) \in SUBSET Threads /\ At(place)' \in SUBSET Threads
  BY DEF At
<1>2. QED
  BY <1>1, ThreadsAssumption, FS_Subset

LEMMA CountType ==
  ASSUME NEW place
  PROVE  Count(place) \in Nat /\ Count(place)' \in Nat
  BY AtFinite, FS_CardinalityType DEF Count

LEMMA MoveCounts ==
  ASSUME pc \in [Threads -> Places],
         NEW t \in Threads, NEW from \in Places, NEW to \in Places \ {from},
         pc[t] = from, Goto(t, to)
  PROVE  /\ Count(to)' = Count(to) + 1
         /\ Count(from)' = Count(from) - 1
         /\ \A other \in Places \ {from, to} : Count(other)' = Count(other)
<1>1. /\ At(to)' = At(to) \cup {t}
      /\ At(from)' = At(from) \ {t}
      /\ \A other \in Places \ {from, to} : At(other)' = At(other)
  BY MoveSets
<1>2. t \notin At(to) /\ t \in At(from)
  BY DEF At
<1>3. IsFiniteSet(At(to)) /\ IsFiniteSet(At(from))
  BY AtFinite
<1>4. Cardinality(At(to) \cup {t}) = Cardinality(At(to)) + 1
  BY <1>2, <1>3, FS_AddElement
<1>5. Cardinality(At(from) \ {t}) = Cardinality(At(from)) - 1
  BY <1>2, <1>3, FS_RemoveElement
<1>6. QED
  BY <1>1, <1>4, <1>5 DEF Count

(* A notification moves two threads at once: the notifier goes home and    *)
(* the sleeper goes to test its predicate.                                 *)
Wakes(t, u, place) == pc' = [pc EXCEPT ![t] = "idle", ![u] = place]

LEMMA WakeCounts ==
  ASSUME pc \in [Threads -> Places],
         NEW t \in Threads, NEW notifying \in Places, pc[t] = notifying,
         NEW u \in Threads, NEW asleep \in Places, pc[u] = asleep,
         NEW awake \in Places,
         Wakes(t, u, awake),
         notifying # asleep, "idle" \notin {notifying, asleep, awake},
         awake \notin {notifying, asleep}
  PROVE  /\ Count(notifying)' = Count(notifying) - 1
         /\ Count(awake)' = Count(awake) + 1
         /\ At(asleep)' = At(asleep) \ {u}
         /\ \A other \in Places \ {notifying, asleep, awake, "idle"} :
               Count(other)' = Count(other) /\ At(other)' = At(other)
<1>1. /\ At(notifying)' = At(notifying) \ {t}
      /\ At(awake)' = At(awake) \cup {u}
      /\ At(asleep)' = At(asleep) \ {u}
      /\ \A other \in Places \ {notifying, asleep, awake, "idle"} :
            At(other)' = At(other)
  BY DEF At, Places, Wakes
<1>2. t \in At(notifying) /\ u \notin At(awake)
  BY DEF At
<1>3. IsFiniteSet(At(notifying)) /\ IsFiniteSet(At(awake))
  BY AtFinite
<1>4. Cardinality(At(notifying) \ {t}) = Cardinality(At(notifying)) - 1
  BY <1>2, <1>3, FS_RemoveElement
<1>5. Cardinality(At(awake) \cup {u}) = Cardinality(At(awake)) + 1
  BY <1>2, <1>3, FS_AddElement
<1>6. QED
  BY <1>1, <1>4, <1>5 DEF Count

-----------------------------------------------------------------------------
(* The type invariant.  PushBack stores item[t], so that content only ever *)
(* holds items needs that a thread inside a push has an item to store; a   *)
(* thread outside of every operation holds none.                           *)
ArgumentOK ==
  \A t \in Threads :
    /\ pc[t] \in {"push", "not_full", "try_push"} => item[t] \in Items
    /\ pc[t] = "idle" => item[t] = NoItem

TypeInv == TypeOK /\ ArgumentOK

LEMMA TypeInit == Init => TypeInv
  BY DEF Init, TypeInv, TypeOK, ArgumentOK, Places

LEMMA TypeNext == TypeInv /\ [Next]_vars => TypeInv'
<1> SUFFICES ASSUME TypeInv, [Next]_vars
             PROVE  TypeInv'
  OBVIOUS
<1> USE DEF TypeInv, TypeOK, ArgumentOK, Places, Goto
<1>1. ASSUME NEW t \in Threads, CallSend(t) \/ CallReceive(t)
      PROVE  TypeInv'
  BY <1>1 DEF CallSend, CallReceive
<1>2. ASSUME NEW t \in Threads, PushStore(t) \/ TryPushStore(t)
      PROVE  TypeInv'
  <2>1. item[t] \in Items
    BY <1>2 DEF PushStore, TryPushStore
  <2>2. Append(content, item[t]) \in Seq(Items)
    BY <2>1
  <2>3. QED
    BY <1>2, <2>2 DEF PushStore, TryPushStore, PushBack
<1>3. ASSUME NEW t \in Threads, PopTake(t) \/ TryPopTake(t)
      PROVE  TypeInv'
  <2>1. Head(content) \in Items /\ Tail(content) \in Seq(Items)
    BY <1>3 DEF PopTake, TryPopTake
  <2>2. QED
    BY <1>3, <2>1 DEF PopTake, TryPopTake, PopFront
<1>4. ASSUME NEW t \in Threads, PushSleep(t) \/ PopSleep(t) \/ TryFail(t)
      PROVE  TypeInv'
  BY <1>4 DEF PushSleep, PopSleep, TryFail
<1>5. ASSUME NEW t \in Threads, PushNotify(t)
      PROVE  TypeInv'
  BY <1>5 DEF PushNotify, NotifyOne, At
<1>6. ASSUME NEW t \in Threads, PopNotify(t)
      PROVE  TypeInv'
  BY <1>6 DEF PopNotify, NotifyOne, At
<1>7. ASSUME NEW t \in Threads, SpuriousWakeup(t)
      PROVE  TypeInv'
  BY <1>7 DEF SpuriousWakeup
<1>8. CASE UNCHANGED vars
  BY <1>8 DEF vars
<1>9. QED
  BY <1>1, <1>2, <1>3, <1>4, <1>5, <1>6, <1>7, <1>8 DEF Next, Step

(* content, pc and item keep their types: in particular only items that a  *)
(* caller passed to push or try_push ever enter the deque.                 *)
THEOREM TypeCorrect == Spec => []TypeOK
<1>1. TypeInv => TypeOK
  BY DEF TypeInv
<1>2. QED
  BY <1>1, TypeInit, TypeNext, PTL DEF Spec

-----------------------------------------------------------------------------
(* NoLostWakeup is inductive together with the type invariant and the      *)
(* bound on the queue's length.                                            *)
WakeupInv == TypeInv /\ CapacityRespected /\ NoLostWakeup

LEMMA WakeupInit == Init => WakeupInv
<1>1. Init => CapacityRespected
  BY CapacityAssumption DEF Init, CapacityRespected
<1>2. Init => NoLostWakeup
  BY DEF Init, NoLostWakeup, At
<1>3. QED
  BY <1>1, <1>2, TypeInit DEF WakeupInv

(* A step that leaves content alone and moves no thread that counts. *)
LEMMA WakeupCall ==
  ASSUME WakeupInv, NEW t \in Threads, CallSend(t) \/ CallReceive(t) \/ TryFail(t)
  PROVE  CapacityRespected' /\ NoLostWakeup'
<1>t. pc \in [Threads -> Places] /\ content \in Seq(Items)
  BY DEF WakeupInv, TypeInv, TypeOK
<1>w. CapacityRespected /\ NoLostWakeup
  BY DEF WakeupInv
<1>1. content' = content /\ CapacityRespected'
  BY <1>t, <1>w DEF CallSend, CallReceive, TryFail, CapacityRespected
<1>2. PICK from \in {"idle", "try_push", "try_pop"},
           to \in {"idle", "push", "try_push", "pop", "try_pop"} :
             to # from /\ pc[t] = from /\ Goto(t, to)
  BY <1>t, <1>w DEF CallSend, CallReceive, TryFail
<1>3. /\ At("not_empty")' = At("not_empty") /\ At("not_full")' = At("not_full")
      /\ Count("pushed")' = Count("pushed") /\ Count("popped")' = Count("popped")
  BY <1>t, <1>2, MoveSets, MoveCounts DEF Places
<1>4. Count("pop")' >= Count("pop") /\ Count("push")' >= Count("push")
  BY <1>t, <1>2, MoveCounts, CountType DEF Places
<1>5. QED
  BY <1>w, <1>1, <1>3, <1>4, CountType, CapacityAssumption DEF NoLostWakeup

(* A store adds one item and one thread that owes a notification. *)
LEMMA WakeupStore ==
  ASSUME WakeupInv, NEW t \in Threads, PushStore(t) \/ TryPushStore(t)
  PROVE  CapacityRespected' /\ NoLostWakeup'
<1>t. pc \in [Threads -> Places] /\ content \in Seq(Items)
  BY DEF WakeupInv, TypeInv, TypeOK
<1>w. CapacityRespected /\ NoLostWakeup
  BY DEF WakeupInv
<1>1. /\ Len(content) \in Nat /\ Len(content') = Len(content) + 1
      /\ Len(content) < Capacity
  BY <1>t, <1>w, CapacityAssumption
  DEF PushStore, TryPushStore, PushBack, CapacityRespected
<1>2. PICK from \in {"push", "try_push"} : pc[t] = from /\ Goto(t, "pushed")
  BY <1>t, <1>w DEF PushStore, TryPushStore, PushBack
<1>3. /\ At("not_empty")' = At("not_empty") /\ At("not_full")' = At("not_full")
      /\ Count("pushed")' = Count("pushed") + 1 /\ Count("popped")' = Count("popped")
      /\ Count("pop")' = Count("pop") /\ Count("push")' >= Count("push") - 1
  BY <1>t, <1>2, MoveSets, MoveCounts, CountType DEF Places
<1>4. QED
  BY <1>w, <1>1, <1>3, CountType, CapacityAssumption DEF NoLostWakeup, CapacityRespected

(* A take frees one slot and adds one thread that owes a notification. *)
LEMMA WakeupTake ==
  ASSUME WakeupInv, NEW t \in Threads, PopTake(t) \/ TryPopTake(t)
  PROVE  CapacityRespected' /\ NoLostWakeup'
<1>t. pc \in [Threads -> Places] /\ content \in Seq(Items)
  BY DEF WakeupInv, TypeInv, TypeOK
<1>w. CapacityRespected /\ NoLostWakeup
  BY DEF WakeupInv
<1>1. Len(content) \in Nat /\ Len(content') = Len(content) - 1 /\ Len(content) > 0
  BY <1>t, <1>w DEF PopTake, TryPopTake, PopFront
<1>2. PICK from \in {"pop", "try_pop"} : pc[t] = from /\ Goto(t, "popped")
  BY <1>t, <1>w DEF PopTake, TryPopTake, PopFront
<1>3. /\ At("not_empty")' = At("not_empty") /\ At("not_full")' = At("not_full")
      /\ Count("popped")' = Count("popped") + 1 /\ Count("pushed")' = Count("pushed")
      /\ Count("push")' = Count("push") /\ Count("pop")' >= Count("pop") - 1
  BY <1>t, <1>2, MoveSets, MoveCounts, CountType DEF Places
<1>4. CapacityRespected'
  BY <1>w, <1>1, CapacityAssumption DEF CapacityRespected
<1>5. ASSUME At("not_empty") # {}
      PROVE  Len(content') <= Count("pop")' + Count("pushed")'
  BY <1>w, <1>1, <1>3, <1>5, CountType DEF NoLostWakeup
<1>6. ASSUME At("not_full") # {}
      PROVE  Capacity <= Len(content') + Count("push")' + Count("popped")'
  BY <1>w, <1>1, <1>3, <1>6, CountType, CapacityAssumption DEF NoLostWakeup
<1>7. QED
  BY <1>3, <1>4, <1>5, <1>6 DEF NoLostWakeup

(* A thread falls asleep only when there is nothing to be woken for. *)
LEMMA WakeupSleep ==
  ASSUME WakeupInv, NEW t \in Threads, PushSleep(t) \/ PopSleep(t)
  PROVE  CapacityRespected' /\ NoLostWakeup'
<1>t. pc \in [Threads -> Places] /\ content \in Seq(Items)
  BY DEF WakeupInv, TypeInv, TypeOK
<1>w. CapacityRespected /\ NoLostWakeup
  BY DEF WakeupInv
<1>1. content' = content /\ Len(content) \in Nat /\ CapacityRespected'
  BY <1>t, <1>w DEF PushSleep, PopSleep, CapacityRespected
<1>2. CASE PushSleep(t)
  <2>1. Capacity = Len(content)
    BY <1>1, <1>2, CapacityAssumption DEF PushSleep, CapacityRespected
  <2>2. /\ At("not_empty")' = At("not_empty")
        /\ Count("pop")' = Count("pop") /\ Count("pushed")' = Count("pushed")
    BY <1>t, <1>2, MoveSets, MoveCounts DEF Places, PushSleep
  <2>3. Count("push")' \in Nat /\ Count("popped")' \in Nat
    BY <1>t, <1>2, MoveCounts, CountType DEF Places, PushSleep
  <2>4. QED
    BY <1>w, <1>1, <2>1, <2>2, <2>3 DEF NoLostWakeup
<1>3. CASE PopSleep(t)
  <2>1. Len(content) = 0
    BY <1>3 DEF PopSleep
  <2>2. /\ At("not_full")' = At("not_full")
        /\ Count("push")' = Count("push") /\ Count("popped")' = Count("popped")
    BY <1>t, <1>3, MoveSets, MoveCounts DEF Places, PopSleep
  <2>3. Count("pop")' \in Nat /\ Count("pushed")' \in Nat
    BY <1>t, <1>3, MoveCounts, CountType DEF Places, PopSleep
  <2>4. QED
    BY <1>w, <1>1, <2>1, <2>2, <2>3 DEF NoLostWakeup
<1>4. QED
  BY <1>2, <1>3

(* A notification hands the debt of the notifier to the thread it wakes;   *)
(* when there is nobody to wake, there is nobody to be owed anything.      *)
LEMMA WakeupPushNotify ==
  ASSUME WakeupInv, NEW t \in Threads, PushNotify(t)
  PROVE  CapacityRespected' /\ NoLostWakeup'
<1>t. pc \in [Threads -> Places] /\ content \in Seq(Items)
  BY DEF WakeupInv, TypeInv, TypeOK
<1>w. CapacityRespected /\ NoLostWakeup
  BY DEF WakeupInv
<1>1. content' = content /\ Len(content) \in Nat /\ CapacityRespected'
  BY <1>t, <1>w DEF PushNotify, CapacityRespected
<1>2. CASE At("not_empty") = {}
  <2>1. pc[t] = "pushed" /\ Goto(t, "idle")
    BY <1>2 DEF PushNotify, NotifyOne
  <2>2. /\ At("not_empty")' = {} /\ At("not_full")' = At("not_full")
        /\ Count("push")' = Count("push") /\ Count("popped")' = Count("popped")
    BY <1>t, <1>2, <2>1, MoveSets, MoveCounts DEF Places
  <2>3. QED
    BY <1>w, <1>1, <2>2 DEF NoLostWakeup
<1>3. ASSUME NEW u \in At("not_empty"),
             Wakes(t, u, "pop")
      PROVE  NoLostWakeup'
  <2>1. pc[t] = "pushed" /\ pc[u] = "not_empty" /\ u \in Threads
    BY <1>t, <1>w DEF PushNotify, At
  <2>2. /\ Count("pushed")' = Count("pushed") - 1 /\ Count("pop")' = Count("pop") + 1
        /\ At("not_empty")' \subseteq At("not_empty")
        /\ At("not_full")' = At("not_full")
        /\ Count("push")' = Count("push") /\ Count("popped")' = Count("popped")
    BY <1>t, <1>3, <2>1, WakeCounts DEF Places
  <2>3. QED
    BY <1>w, <1>1, <2>2, CountType DEF NoLostWakeup
<1>4. QED
  BY <1>1, <1>2, <1>3 DEF PushNotify, NotifyOne, Wakes

LEMMA WakeupPopNotify ==
  ASSUME WakeupInv, NEW t \in Threads, PopNotify(t)
  PROVE  CapacityRespected' /\ NoLostWakeup'
<1>t. pc \in [Threads -> Places] /\ content \in Seq(Items)
  BY DEF WakeupInv, TypeInv, TypeOK
<1>w. CapacityRespected /\ NoLostWakeup
  BY DEF WakeupInv
<1>1. content' = content /\ Len(content) \in Nat /\ CapacityRespected'
  BY <1>t, <1>w DEF PopNotify, CapacityRespected
<1>2. CASE At("not_full") = {}
  <2>1. pc[t] = "popped" /\ Goto(t, "idle")
    BY <1>2 DEF PopNotify, NotifyOne
  <2>2. /\ At("not_full")' = {} /\ At("not_empty")' = At("not_empty")
        /\ Count("pop")' = Count("pop") /\ Count("pushed")' = Count("pushed")
    BY <1>t, <1>2, <2>1, MoveSets, MoveCounts DEF Places
  <2>3. QED
    BY <1>w, <1>1, <2>2 DEF NoLostWakeup
<1>3. ASSUME NEW u \in At("not_full"),
             Wakes(t, u, "push")
      PROVE  NoLostWakeup'
  <2>1. pc[t] = "popped" /\ pc[u] = "not_full" /\ u \in Threads
    BY <1>t, <1>w DEF PopNotify, At
  <2>2. /\ Count("popped")' = Count("popped") - 1 /\ Count("push")' = Count("push") + 1
        /\ At("not_full")' \subseteq At("not_full")
        /\ At("not_empty")' = At("not_empty")
        /\ Count("pop")' = Count("pop") /\ Count("pushed")' = Count("pushed")
    BY <1>t, <1>3, <2>1, WakeCounts DEF Places
  <2>3. QED
    BY <1>w, <1>1, <2>2, CountType, CapacityAssumption DEF NoLostWakeup
<1>4. QED
  BY <1>1, <1>2, <1>3 DEF PopNotify, NotifyOne, Wakes

(* A spurious wake-up only adds a thread that will test its predicate. *)
LEMMA WakeupSpurious ==
  ASSUME WakeupInv, NEW t \in Threads, SpuriousWakeup(t)
  PROVE  CapacityRespected' /\ NoLostWakeup'
<1>t. pc \in [Threads -> Places] /\ content \in Seq(Items)
  BY DEF WakeupInv, TypeInv, TypeOK
<1>w. CapacityRespected /\ NoLostWakeup
  BY DEF WakeupInv
<1>1. content' = content /\ Len(content) \in Nat /\ CapacityRespected'
  BY <1>t, <1>w DEF SpuriousWakeup, CapacityRespected
<1>2. PICK from \in {"not_full", "not_empty"}, to \in {"push", "pop"} :
        pc[t] = from /\ Goto(t, to)
  BY <1>t, <1>w DEF SpuriousWakeup
<1>3. /\ At("not_empty")' \subseteq At("not_empty")
      /\ At("not_full")' \subseteq At("not_full")
      /\ Count("pop")' >= Count("pop") /\ Count("push")' >= Count("push")
      /\ Count("pushed")' = Count("pushed") /\ Count("popped")' = Count("popped")
  BY <1>t, <1>2, MoveSets, MoveCounts, CountType DEF Places
<1>4. QED
  BY <1>w, <1>1, <1>3, CountType, CapacityAssumption DEF NoLostWakeup

LEMMA WakeupNext == WakeupInv /\ [Next]_vars => WakeupInv'
<1> SUFFICES ASSUME WakeupInv, [Next]_vars
             PROVE  WakeupInv'
  OBVIOUS
<1>1. TypeInv'
  BY TypeNext DEF WakeupInv
<1>2. ASSUME NEW t \in Threads,
             CallSend(t) \/ CallReceive(t) \/ Step(t) \/ SpuriousWakeup(t)
      PROVE  CapacityRespected' /\ NoLostWakeup'
  BY <1>2, WakeupCall, WakeupStore, WakeupTake, WakeupSleep, WakeupPushNotify,
     WakeupPopNotify, WakeupSpurious
  DEF Step
<1>3. CASE UNCHANGED vars
  <2>1. pc' = pc /\ content' = content
    BY <1>3 DEF vars
  <2>2. /\ At("not_empty")' = At("not_empty") /\ At("not_full")' = At("not_full")
        /\ At("pop")' = At("pop") /\ At("pushed")' = At("pushed")
        /\ At("push")' = At("push") /\ At("popped")' = At("popped")
    BY <2>1 DEF At
  <2>3. /\ Count("pop")' = Count("pop") /\ Count("pushed")' = Count("pushed")
        /\ Count("push")' = Count("push") /\ Count("popped")' = Count("popped")
    BY <2>2 DEF Count
  <2>4. QED
    BY <1>1, <2>1, <2>2, <2>3 DEF WakeupInv, CapacityRespected, NoLostWakeup
<1>4. QED
  BY <1>1, <1>2, <1>3 DEF Next, WakeupInv

(* The queue never holds more than its capacity: try_push's test for       *)
(* equality is enough.                                                     *)
THEOREM CapacityTheorem == Spec => []CapacityRespected
<1>1. WakeupInv => CapacityRespected
  BY DEF WakeupInv
<1>2. QED
  BY <1>1, WakeupInit, WakeupNext, PTL DEF Spec

(* However many threads push, pop, sleep, wake up and are overtaken, an    *)
(* item in the queue is never left with every receiver asleep and nobody   *)
(* about to wake one, and likewise a free slot and the senders: calling    *)
(* notify_one after the mutex was released loses no wake-up.               *)
THEOREM WakeupTheorem == Spec => []NoLostWakeup
<1>1. WakeupInv => NoLostWakeup
  BY DEF WakeupInv
<1>2. QED
  BY <1>1, WakeupInit, WakeupNext, PTL DEF Spec

-----------------------------------------------------------------------------
(* Every step of the queue is a step of the Channel it implements, or one  *)
(* that cannot be seen from outside.                                       *)
AbsPhase == [t \in Threads |-> ChannelPhase(pc[t])]

(* A thread that moves to another place moves to that place's phase. *)
LEMMA PhaseMove ==
  ASSUME pc \in [Threads -> Places], NEW t \in Threads, NEW to, Goto(t, to)
  PROVE  /\ AbsPhase[t] = ChannelPhase(pc[t])
         /\ AbsPhase' = [AbsPhase EXCEPT ![t] = ChannelPhase(to)]
  BY DEF AbsPhase, Goto

(* Seen from outside, a notification only ends the notifier's operation. *)
LEMMA PhaseNotify ==
  ASSUME pc \in [Threads -> Places], NEW t \in Threads, NEW cv, NEW wakeAt,
         NotifyOne(t, cv, wakeAt), pc[t] # cv,
         ChannelPhase(wakeAt) = ChannelPhase(cv)
  PROVE  AbsPhase' = [AbsPhase EXCEPT ![t] = "idle"]
<1>1. CASE At(cv) = {}
  BY <1>1, PhaseMove DEF NotifyOne, ChannelPhase
<1>2. ASSUME NEW u \in At(cv), pc' = [pc EXCEPT ![t] = "idle", ![u] = wakeAt]
      PROVE  AbsPhase' = [AbsPhase EXCEPT ![t] = "idle"]
  <2>1. u \in Threads /\ pc[u] = cv /\ u # t
    BY DEF At
  <2>2. ChannelPhase("idle") = "idle"
    BY DEF ChannelPhase
  <2>3. QED
    BY <1>2, <2>1, <2>2 DEF AbsPhase
<1>3. QED
  BY <1>1, <1>2 DEF NotifyOne

LEMMA RefinementInit == Init => AbstractChannel!Init
  BY DEF Init, AbstractChannel!Init, ChannelPhase

LEMMA RefinementStep ==
  ASSUME WakeupInv, [Next]_vars
  PROVE  [AbstractChannel!Next]_AbstractChannel!vars
<1>t. pc \in [Threads -> Places] /\ content \in Seq(Items)
  BY DEF WakeupInv, TypeInv, TypeOK
<1>1. ASSUME NEW t \in Threads, CallSend(t)
      PROVE  AbstractChannel!CallSend(t)
  <2>1. PICK place \in {"push", "try_push"}, v \in Items :
          pc[t] = "idle" /\ Goto(t, place) /\ item' = [item EXCEPT ![t] = v]
    BY <1>1 DEF CallSend
  <2>2. AbsPhase[t] = "idle" /\ AbsPhase' = [AbsPhase EXCEPT ![t] = place]
    BY <1>t, <2>1, PhaseMove DEF ChannelPhase
  <2>3. QED
    BY <1>1, <2>1, <2>2
    DEF CallSend, AbstractChannel!CallSend, AbstractChannel!Call, AbsPhase
<1>2. ASSUME NEW t \in Threads, CallReceive(t)
      PROVE  AbstractChannel!CallReceive(t)
  <2>1. PICK place \in {"pop", "try_pop"} :
          pc[t] = "idle" /\ Goto(t, place) /\ item[t] = NoItem
    BY <1>2 DEF CallReceive, WakeupInv, TypeInv, ArgumentOK
  <2>2. AbsPhase[t] = "idle" /\ AbsPhase' = [AbsPhase EXCEPT ![t] = place]
    BY <1>t, <2>1, PhaseMove DEF ChannelPhase
  <2>3. item' = [item EXCEPT ![t] = NoItem]
    BY <1>2, <2>1 DEF CallReceive, WakeupInv, TypeInv, TypeOK
  <2>4. QED
    BY <1>2, <2>1, <2>2, <2>3
    DEF CallReceive, AbstractChannel!CallReceive, AbstractChannel!Call, AbsPhase
<1>3. ASSUME NEW t \in Threads, PushStore(t) \/ TryPushStore(t)
      PROVE  AbstractChannel!Send(t)
  <2>1. PICK place \in {"push", "try_push"} : pc[t] = place /\ Goto(t, "pushed")
    BY <1>3 DEF PushStore, TryPushStore, PushBack
  <2>2. AbsPhase[t] = place /\ AbsPhase' = [AbsPhase EXCEPT ![t] = "done"]
    BY <1>t, <2>1, PhaseMove DEF ChannelPhase
  <2>3. Len(content) < Capacity
    BY <1>t, <1>3, CapacityAssumption
    DEF PushStore, TryPushStore, WakeupInv, CapacityRespected
  <2>4. content' = Append(content, item[t]) /\ UNCHANGED item
    BY <1>3 DEF PushStore, TryPushStore, PushBack
  <2>5. QED
    BY <2>2, <2>3, <2>4 DEF AbstractChannel!Send, AbsPhase
<1>4. ASSUME NEW t \in Threads, PopTake(t) \/ TryPopTake(t)
      PROVE  AbstractChannel!Receive(t)
  <2>1. PICK place \in {"pop", "try_pop"} : pc[t] = place /\ Goto(t, "popped")
    BY <1>4 DEF PopTake, TryPopTake, PopFront
  <2>2. AbsPhase[t] = place /\ AbsPhase' = [AbsPhase EXCEPT ![t] = "done"]
    BY <1>t, <2>1, PhaseMove DEF ChannelPhase
  <2>3. /\ content # <<>> /\ content' = Tail(content)
        /\ item' = [item EXCEPT ![t] = Head(content)]
    BY <1>4 DEF PopTake, TryPopTake, PopFront
  <2>4. QED
    BY <2>2, <2>3 DEF AbstractChannel!Receive, AbsPhase
<1>5. ASSUME NEW t \in Threads, TryFail(t)
      PROVE  AbstractChannel!Refuse(t)
  <2>1. PICK place \in {"try_push", "try_pop"} :
          /\ pc[t] = place /\ Goto(t, "idle")
          /\ \/ place = "try_push" /\ Len(content) >= Capacity
             \/ place = "try_pop" /\ content = <<>>
    BY <1>t, <1>5, CapacityAssumption DEF TryFail
  <2>2. AbsPhase[t] = place /\ AbsPhase' = [AbsPhase EXCEPT ![t] = "idle"]
    BY <1>t, <2>1, PhaseMove DEF ChannelPhase
  <2>3. UNCHANGED content /\ item' = [item EXCEPT ![t] = NoItem]
    BY <1>5 DEF TryFail
  <2>4. QED
    BY <2>1, <2>2, <2>3 DEF AbstractChannel!Refuse, AbsPhase
<1>6. ASSUME NEW t \in Threads, PushNotify(t) \/ PopNotify(t)
      PROVE  AbstractChannel!Return(t)
  <2>1. AbsPhase[t] = "done"
    BY <1>6 DEF PushNotify, PopNotify, AbsPhase, ChannelPhase
  <2>2. AbsPhase' = [AbsPhase EXCEPT ![t] = "idle"]
    BY <1>t, <1>6, PhaseNotify DEF PushNotify, PopNotify, ChannelPhase
  <2>3. UNCHANGED content /\ item' = [item EXCEPT ![t] = NoItem]
    BY <1>6 DEF PushNotify, PopNotify
  <2>4. QED
    BY <2>1, <2>2, <2>3 DEF AbstractChannel!Return, AbsPhase
<1>7. ASSUME NEW t \in Threads, PushSleep(t) \/ PopSleep(t) \/ SpuriousWakeup(t)
      PROVE  UNCHANGED AbstractChannel!vars
  <2>1. PICK from \in {"push", "pop", "not_full", "not_empty"},
             to \in {"push", "pop", "not_full", "not_empty"} :
          /\ pc[t] = from /\ Goto(t, to) /\ ChannelPhase(from) = ChannelPhase(to)
    BY <1>7 DEF PushSleep, PopSleep, SpuriousWakeup, ChannelPhase
  <2>2. AbsPhase' = AbsPhase
    BY <1>t, <2>1, PhaseMove DEF AbsPhase
  <2>3. UNCHANGED <<content, item>>
    BY <1>7 DEF PushSleep, PopSleep, SpuriousWakeup
  <2>4. QED
    BY <2>2, <2>3 DEF AbstractChannel!vars, AbsPhase
<1>8. CASE UNCHANGED vars
  BY <1>8 DEF vars, AbstractChannel!vars
<1>9. QED
  BY <1>1, <1>2, <1>3, <1>4, <1>5, <1>6, <1>7, <1>8
  DEF Next, Step, AbstractChannel!Next

(* The queue of BlockingQueue.hpp, with its mutex, its two condition       *)
(* variables and its late notifications, is a bounded FIFO channel.        *)
THEOREM Refinement == Spec => ImplementsChannel
<1>1. WakeupInv /\ [Next]_vars => [AbstractChannel!Next]_AbstractChannel!vars
  BY RefinementStep
<1>2. QED
  BY <1>1, WakeupInit, WakeupNext, RefinementInit, PTL
  DEF Spec, ImplementsChannel, AbstractChannel!Spec
=============================================================================
