---------------------------- MODULE RuntimeProofs ----------------------------
(***************************************************************************)
(* Proofs about Runtime, for every set of threads: its type invariant,     *)
(* that Runtime::start outlives every thread that reached the pool, and,   *)
(* for programs that join their goroutines, that it outlives every thread. *)
(***************************************************************************)
EXTENDS Runtime, TLAPS

-----------------------------------------------------------------------------
LEMMA TypeInit == Init => TypeOK
  BY MainAssumption, NoThreadAssumption
  DEF Init, TypeOK, Places, WaiterPlaces

LEMMA TypeNext == TypeOK /\ [Next]_vars => TypeOK'
<1> SUFFICES ASSUME TypeOK, [Next]_vars
             PROVE  TypeOK'
  OBVIOUS
<1> USE NoThreadAssumption DEF TypeOK, Goto, Places, WaiterPlaces
<1>1. ASSUME NEW t \in Threads, Initialize(t)  PROVE  TypeOK'
  BY <1>1 DEF Initialize
<1>2. ASSUME NEW t \in Threads, NEW c \in Threads, NewThread(t, c)  PROVE  TypeOK'
  BY <1>2 DEF NewThread
<1>3. ASSUME NEW t \in Threads, Report(t) \/ Terminate(t)  PROVE  TypeOK'
  BY <1>3 DEF Report, Terminate
<1>4. ASSUME NEW t \in Threads, Return(t)  PROVE  TypeOK'
  BY <1>4 DEF Return
<1>5. ASSUME NEW t \in Threads, Erase(t)  PROVE  TypeOK'
  BY <1>5 DEF Erase
<1>6. ASSUME NEW t \in Threads, NotifyAll(t)  PROVE  TypeOK'
  BY <1>6 DEF NotifyAll
<1>7. ASSUME TestPool \/ SpuriousWakeup  PROVE  TypeOK'
  BY <1>7 DEF TestPool, SpuriousWakeup
<1>8. CASE UNCHANGED vars
  BY <1>8 DEF vars
<1>9. QED
  BY <1>1, <1>2, <1>3, <1>4, <1>5, <1>6, <1>7, <1>8 DEF Next, Machinery, Program

(* Every variable keeps its type, thread_pool holds exactly the threads    *)
(* between their initialize and their finalize, and thread_pool_mutex is   *)
(* held across steps only by the thread inside finalize.                   *)
THEOREM TypeCorrect == Spec => []TypeOK
  BY TypeInit, TypeNext, PTL DEF Spec

-----------------------------------------------------------------------------
(* While Runtime::start is inside main_thread.start(), main is not gone,   *)
(* and once it has returned nobody is left in the pool or in finalize.     *)
WaiterInv ==
  /\ waiter = "main_thread" <=> place[Main] # "gone"
  /\ place[Main] # "absent"
  /\ waiter = "returned" => pool = {} /\ holder = NoThread

PoolInv == TypeOK /\ WaiterInv

LEMMA PoolInit == Init => PoolInv
  BY TypeInit, MainAssumption DEF Init, PoolInv, WaiterInv

LEMMA PoolNext == PoolInv /\ [Next]_vars => PoolInv'
<1> SUFFICES ASSUME PoolInv, [Next]_vars
             PROVE  WaiterInv'
  BY TypeNext DEF PoolInv
<1> USE NoThreadAssumption, MainAssumption DEF PoolInv, TypeOK, WaiterInv, Goto, Alive
<1>1. ASSUME NEW t \in Threads, Initialize(t)  PROVE  WaiterInv'
  BY <1>1 DEF Initialize
<1>2. ASSUME NEW t \in Threads, NEW c \in Threads, NewThread(t, c)  PROVE  WaiterInv'
  BY <1>2 DEF NewThread
<1>3. ASSUME NEW t \in Threads, Report(t) \/ Terminate(t)  PROVE  WaiterInv'
  BY <1>3 DEF Report, Terminate
<1>4. ASSUME NEW t \in Threads, Return(t)  PROVE  WaiterInv'
  BY <1>4 DEF Return
<1>5. ASSUME NEW t \in Threads, Erase(t)  PROVE  WaiterInv'
  BY <1>5 DEF Erase
<1>6. ASSUME NEW t \in Threads, NotifyAll(t)  PROVE  WaiterInv'
  BY <1>6 DEF NotifyAll, WaiterPlaces
<1>7. ASSUME TestPool \/ SpuriousWakeup  PROVE  WaiterInv'
  BY <1>7 DEF TestPool, SpuriousWakeup
<1>8. CASE UNCHANGED vars
  BY <1>8 DEF vars
<1>9. QED
  BY <1>1, <1>2, <1>3, <1>4, <1>5, <1>6, <1>7, <1>8 DEF Next, Machinery, Program

LEMMA PoolImplies == PoolInv => RuntimeOutlivesPool
  BY NoThreadAssumption
  DEF PoolInv, TypeOK, WaiterInv, RuntimeOutlivesPool, Places

(* Whatever the program does, Runtime::start returns only after every      *)
(* thread that got as far as the pool has finished its finalize.           *)
THEOREM OutlivesPool == Spec => []RuntimeOutlivesPool
  BY PoolInit, PoolNext, PoolImplies, PTL DEF Spec

-----------------------------------------------------------------------------
(* The threads Runtime::start does not know yet: each was started by a     *)
(* thread still in Thread::run, hence in the pool, which cannot return     *)
(* before it has heard from it; and who has reported has been created and  *)
(* initialized.                                                            *)
JoinInv ==
  /\ joined => \A c \in Threads : place[c] = "created" =>
        c = Main \/ (parent[c] \in Threads /\ place[parent[c]] = "running")
  /\ \A c \in reported : place[c] \notin {"absent", "created"}

LEMMA JoinInit == Init => JoinInv
  BY DEF Init, JoinInv

LEMMA JoinNext ==
  ASSUME PoolInv, JoinInv, [Next]_vars
  PROVE  JoinInv'
<1> USE DEF PoolInv, TypeOK, WaiterInv, JoinInv, Goto
<1>1. ASSUME NEW t \in Threads, Initialize(t)  PROVE  JoinInv'
  BY <1>1 DEF Initialize
<1>2. ASSUME NEW t \in Threads, NEW c \in Threads, NewThread(t, c)  PROVE  JoinInv'
  BY <1>2 DEF NewThread
<1>3. ASSUME NEW t \in Threads, Report(t) \/ Terminate(t)  PROVE  JoinInv'
  BY <1>3 DEF Report, Terminate
<1>4. ASSUME NEW t \in Threads, Return(t)  PROVE  JoinInv'
  <2>1. joined' => \A c \in Threads : place[c] = "created" => c = Main \/ parent[c] # t
    BY <1>4 DEF Return, Children
  <2>2. QED
    BY <1>4, <2>1 DEF Return
<1>5. ASSUME NEW t \in Threads, Erase(t)  PROVE  JoinInv'
  BY <1>5 DEF Erase
<1>6. ASSUME NEW t \in Threads, NotifyAll(t)  PROVE  JoinInv'
  BY <1>6 DEF NotifyAll
<1>7. ASSUME TestPool \/ SpuriousWakeup  PROVE  JoinInv'
  BY <1>7 DEF TestPool, SpuriousWakeup
<1>8. CASE UNCHANGED vars
  BY <1>8 DEF vars
<1>9. QED
  BY <1>1, <1>2, <1>3, <1>4, <1>5, <1>6, <1>7, <1>8 DEF Next, Machinery, Program

LEMMA JoinImplies == PoolInv /\ JoinInv => RuntimeOutlivesThreads
<1> SUFFICES ASSUME PoolInv, JoinInv, joined, waiter = "returned", NEW t \in Threads
             PROVE  place[t] \in {"absent", "gone"}
  BY DEF RuntimeOutlivesThreads
<1>1. place[t] \in {"absent", "created", "gone"}
  BY PoolImplies DEF RuntimeOutlivesPool
<1>2. place[t] # "created"
  BY MainAssumption DEF PoolInv, TypeOK, WaiterInv, JoinInv
<1>3. QED
  BY <1>1, <1>2

(* As long as goroutines are joined no thread uses the runtime after main  *)
(* destroyed it, although threads enter the pool late and by their own     *)
(* hand.                                                                   *)
THEOREM OutlivesThreads == Spec => []RuntimeOutlivesThreads
<1>1. Init => PoolInv /\ JoinInv
  BY PoolInit, JoinInit
<1>2. PoolInv /\ JoinInv /\ [Next]_vars => (PoolInv /\ JoinInv)'
  BY PoolNext, JoinNext
<1>3. QED
  BY <1>1, <1>2, JoinImplies, PTL DEF Spec
=============================================================================
