------------------------------- MODULE Runtime -------------------------------
(***************************************************************************)
(* The life of the platform threads behind goroutines, and the end of the  *)
(* process: Runtime::start (Runtime.cpp), Thread::initialize, start and    *)
(* finalize (Thread.cpp) and the detached std::thread of new_thread        *)
(* (Native.cpp).  What a thread does inside Thread::run is reduced to what *)
(* matters here: it may start goroutines, tell its spawner that it is      *)
(* (nearly) done, return, or die of an exception.                          *)
(*                                                                         *)
(* The runtime object holds everything the threads use.  It is destroyed   *)
(* when Runtime::start returns, and Runtime::start knows about a thread    *)
(* only from the moment that thread inserted itself into thread_pool.      *)
(***************************************************************************)
CONSTANTS
  Threads,   \* platform threads the program may use
  Main,      \* the one that runs main_thread inside Runtime::start
  NoThread   \* nobody holds the mutex; no parent

ASSUME MainAssumption == Main \in Threads
ASSUME NoThreadAssumption == NoThread \notin Threads

VARIABLES
  place,     \* place[t]: where thread t is in its life, see Places
  pool,      \* Runtime::thread_pool
  holder,    \* who holds thread_pool_mutex across steps
  parent,    \* parent[t]: the thread whose new_thread created t
  reported,  \* the goroutines that have sent their last message
  waiter,    \* where Runtime::start is, see WaiterPlaces
  aborted,   \* std::terminate was called
  joined     \* for the properties: no goroutine has returned before the last
             \* message of one that it started

vars == <<place, pool, holder, parent, reported, waiter, aborted, joined>>

(***************************************************************************)
(*   "absent"      not created                                             *)
(*   "created"     about to call initialize                                *)
(*   "running"     in Thread::run                                          *)
(*   "finalizing"  Thread::run returned, about to lock the pool            *)
(*   "erased"      in finalize, mutex held, about to test thread_pool      *)
(*   "gone"        finalize returned                                       *)
(***************************************************************************)
Places == {"absent", "created", "running", "finalizing", "erased", "gone"}

(***************************************************************************)
(*   "main_thread" Runtime::start is inside main_thread.start()            *)
(*   "waiting"     about to lock the pool and test whether it is empty     *)
(*   "asleep"      asleep on termination_condition                         *)
(*   "returned"    Runtime::start returned: the runtime is destroyed       *)
(***************************************************************************)
WaiterPlaces == {"main_thread", "waiting", "asleep", "returned"}

Alive == ~ aborted /\ waiter # "returned"

Goto(t, p) == place' = [place EXCEPT ![t] = p]

Init ==
  /\ place = [t \in Threads |-> IF t = Main THEN "created" ELSE "absent"]
  /\ pool = {}
  /\ holder = NoThread
  /\ parent = [t \in Threads |-> NoThread]
  /\ reported = {}
  /\ waiter = "main_thread"
  /\ aborted = FALSE
  /\ joined = TRUE

-----------------------------------------------------------------------------
(* Faulty variant: initialize inserts only the thread that runs main. *)
InitializeMainOnly(t) ==
  /\ Alive
  /\ place[t] = "created"
  /\ holder = NoThread
  /\ pool' = pool \cup ({t} \cap {Main})
  /\ Goto(t, "running")
  /\ UNCHANGED <<holder, parent, reported, waiter, aborted, joined>>

(* Thread::initialize: under the mutex, insert this into the pool. *)
Initialize(t) ==
  /\ Alive
  /\ place[t] = "created"
  /\ holder = NoThread
  /\ pool' = pool \cup {t}
  /\ Goto(t, "running")
  /\ UNCHANGED <<holder, parent, reported, waiter, aborted, joined>>

(* new_thread: a std::thread is started and detached.  The new thread is   *)
(* not in the pool yet, and t does not wait until it is.                   *)
NewThread(t, c) ==
  /\ Alive
  /\ place[t] = "running"
  /\ place[c] = "absent"
  /\ Goto(c, "created")
  /\ parent' = [parent EXCEPT ![c] = t]
  /\ UNCHANGED <<pool, holder, reported, waiter, aborted, joined>>

(* The goroutine sends its last message, the `done <- 1` of the examples. *)
Report(t) ==
  /\ Alive
  /\ place[t] = "running"
  /\ reported' = reported \cup {t}
  /\ UNCHANGED <<place, pool, holder, parent, waiter, aborted, joined>>

(* Thread::run returns.  A program that joins its goroutines has received  *)
(* the last message of each of them by then; nothing makes it do so.       *)
Children(t) == {c \in Threads : parent[c] = t}

Return(t) ==
  /\ Alive
  /\ place[t] = "running"
  /\ Goto(t, "finalizing")
  /\ joined' = (joined /\ Children(t) \subseteq reported)
  /\ UNCHANGED <<pool, holder, parent, reported, waiter, aborted>>

(* "out of memory!", "operand stack underflow!", std::system_error...:     *)
(* nothing catches an exception, in whichever thread it is thrown.         *)
Terminate(t) ==
  /\ Alive
  /\ place[t] = "running"
  /\ aborted' = TRUE
  /\ UNCHANGED <<place, pool, holder, parent, reported, waiter, joined>>

(* Faulty variant: the mutex is released between erase and notify_all. *)
EraseUnlocks(t) ==
  /\ Alive
  /\ place[t] = "finalizing"
  /\ holder = NoThread
  /\ pool' = pool \ {t}
  /\ Goto(t, "erased")
  /\ UNCHANGED <<holder, parent, reported, waiter, aborted, joined>>

(* Faulty variant: finalize forgets to erase this from the pool. *)
EraseNothing(t) ==
  /\ Alive
  /\ place[t] = "finalizing"
  /\ holder = NoThread
  /\ holder' = t
  /\ Goto(t, "erased")
  /\ UNCHANGED <<pool, parent, reported, waiter, aborted, joined>>

(* Thread::finalize, first half: lock, erase. *)
Erase(t) ==
  /\ Alive
  /\ place[t] = "finalizing"
  /\ holder = NoThread
  /\ holder' = t
  /\ pool' = pool \ {t}
  /\ Goto(t, "erased")
  /\ UNCHANGED <<parent, reported, waiter, aborted, joined>>

(* Faulty variant: the test for the last thread is off by one. *)
NotifyAllOffByOne(t) ==
  /\ Alive
  /\ place[t] = "erased"
  /\ waiter' = IF t = Main \/ (waiter = "asleep" /\ \E u \in pool : pool = {u})
               THEN "waiting" ELSE waiter
  /\ holder' = NoThread
  /\ Goto(t, "gone")
  /\ UNCHANGED <<pool, parent, reported, aborted, joined>>

(* Second half: notify_all if the pool is empty, unlock.  The thread that  *)
(* runs main goes on to wait in Runtime::start.                            *)
NotifyAll(t) ==
  /\ Alive
  /\ place[t] = "erased"
  /\ waiter' = IF t = Main \/ (pool = {} /\ waiter = "asleep")
               THEN "waiting" ELSE waiter
  /\ holder' = NoThread
  /\ Goto(t, "gone")
  /\ UNCHANGED <<pool, parent, reported, aborted, joined>>

(* termination_condition.wait(lock, pool is empty), one test of it.  When  *)
(* it is empty Runtime::start returns, and main destroys the runtime.      *)
TestPool ==
  /\ Alive
  /\ waiter = "waiting"
  /\ holder = NoThread
  /\ waiter' = IF pool = {} THEN "returned" ELSE "asleep"
  /\ UNCHANGED <<place, pool, holder, parent, reported, aborted, joined>>

SpuriousWakeup ==
  /\ Alive
  /\ waiter = "asleep"
  /\ waiter' = "waiting"
  /\ UNCHANGED <<place, pool, holder, parent, reported, aborted, joined>>

-----------------------------------------------------------------------------
(* The steps the machinery takes without waiting for the program. *)
Machinery(t) == Initialize(t) \/ Erase(t) \/ NotifyAll(t)

(* The steps that depend on what the goat program does. *)
Program(t) ==
  \/ \E c \in Threads : NewThread(t, c)
  \/ Report(t) \/ Return(t) \/ Terminate(t)

Next ==
  \/ \E t \in Threads : Machinery(t) \/ Program(t)
  \/ TestPool
  \/ SpuriousWakeup

Spec == Init /\ [][Next]_vars

(* Threads are scheduled, and the mutex is only held for the length of     *)
(* finalize, so nobody is kept out of it for ever.  Nothing is assumed of  *)
(* the program: a goroutine may run, or stay blocked, for ever.            *)
FairSpec ==
  /\ Spec
  /\ \A t \in Threads : WF_vars(Machinery(t))
  /\ WF_vars(TestPool)

-----------------------------------------------------------------------------
(* The variables keep their types, the pool holds exactly the threads       *)
(* between their initialize and their finalize, and the mutex is held       *)
(* across steps by the one thread in the middle of its finalize.            *)
TypeOK ==
  /\ place \in [Threads -> Places]
  /\ pool \subseteq Threads
  /\ holder \in Threads \cup {NoThread}
  /\ parent \in [Threads -> Threads \cup {NoThread}]
  /\ reported \subseteq Threads
  /\ waiter \in WaiterPlaces
  /\ aborted \in BOOLEAN
  /\ joined \in BOOLEAN
  /\ \A t \in Threads : t \in pool <=> place[t] \in {"running", "finalizing"}
  /\ \A t \in Threads : holder = t <=> place[t] = "erased"

(* The runtime outlives the threads that use it: when Runtime::start        *)
(* returns, no thread is about to touch thread_pool, its mutex, its         *)
(* condition variable, the heap or the channels again.  It takes an         *)
(* execution in which every goroutine, main included, heard from those it   *)
(* started before it returned (joined), as in the examples: a detached      *)
(* thread is unknown to Runtime::start until it has run initialize.         *)
RuntimeOutlivesThreads ==
  (joined /\ waiter = "returned") => \A t \in Threads : place[t] \in {"absent", "gone"}

(* Without any assumption on the program, the runtime still outlives every  *)
(* thread that reached the pool, to the end of its finalize.                *)
RuntimeOutlivesPool ==
  waiter = "returned" => \A t \in Threads : place[t] \in {"absent", "created", "gone"}

(* The process ends: once Thread::run has returned in every thread there    *)
(* is, Runtime::start returns, whichever thread is the last and whether or  *)
(* not the main thread was already asleep.                                  *)
NothingRuns == \A t \in Threads : place[t] \notin {"created", "running"}

ShutdownCompletes == NothingRuns ~> (waiter = "returned" \/ aborted)
=============================================================================
