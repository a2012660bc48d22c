------------------------------- MODULE Console -------------------------------
(***************************************************************************)
(* What goroutines that print at the same time leave on standard output:   *)
(* sprint, iprint and fprint of Native.cpp, each                           *)
(*                                                                         *)
(*     std::lock_guard{io_mutex};                                          *)
(*     std::cout << value << std::endl;                                    *)
(*                                                                         *)
(* The guard has no name, so it is destroyed at the end of its own         *)
(* statement: the mutex is free again before anything is printed.  Writing *)
(* the value and ending the line are two operations on std::cout.          *)
(***************************************************************************)
EXTENDS Naturals, Sequences, FiniteSets

CONSTANTS
  Threads,   \* the goroutines
  Prints,    \* Prints[t]: the values t prints, one after the other
  EndOfLine, \* std::endl
  Nobody     \* io_mutex is free

Texts(t) == {Prints[t][i] : i \in DOMAIN Prints[t]}

(* For the properties: what a goroutine prints tells which one it is.       *)
ASSUME PrintsAssumption ==
  /\ Prints = [t \in Threads |-> Prints[t]]
  /\ \A t \in Threads : Prints[t] \in Seq(Texts(t)) /\ EndOfLine \notin Texts(t)
  /\ \A t, u \in Threads : t # u => Texts(t) \cap Texts(u) = {}

VARIABLES
  pending,   \* pending[t]: what t still has to print, the line it is at first
  place,     \* place[t]: see Places
  io_mutex,  \* its owner
  console    \* what was written

vars == <<pending, place, io_mutex, console>>

(* "before" the statement of the guard, "guarded" inside it, "behind" it,   *)
(* and "open" between the value and the end of its line.                    *)
Places == {"before", "guarded", "behind", "open"}

Goto(t, from, to) == place[t] = from /\ place' = [place EXCEPT ![t] = to]

Init ==
  /\ pending = Prints
  /\ place = [t \in Threads |-> "before"]
  /\ io_mutex = Nobody
  /\ console = <<>>

Lock(t) ==
  /\ pending[t] # <<>>
  /\ io_mutex = Nobody
  /\ Goto(t, "before", "guarded")
  /\ io_mutex' = t
  /\ UNCHANGED <<pending, console>>

(* Faulty variant: nothing unlocks the mutex.                               *)
UnlockNothing(t) ==
  /\ Goto(t, "guarded", "behind")
  /\ UNCHANGED <<pending, io_mutex, console>>

(* The temporary is destroyed.                                              *)
Unlock(t) ==
  /\ Goto(t, "guarded", "behind")
  /\ io_mutex' = Nobody
  /\ UNCHANGED <<pending, console>>

(* Faulty variant: the newest value is printed first.                       *)
WriteValueLast(t) ==
  /\ Goto(t, "behind", "open")
  /\ console' = Append(console, pending[t][Len(pending[t])])
  /\ UNCHANGED <<pending, io_mutex>>

WriteValue(t) ==
  /\ Goto(t, "behind", "open")
  /\ console' = Append(console, Head(pending[t]))
  /\ UNCHANGED <<pending, io_mutex>>

(* Faulty variant: the value ends without its line.                         *)
EndLineNot(t) ==
  /\ Goto(t, "open", "before")
  /\ pending' = [pending EXCEPT ![t] = Tail(@)]
  /\ UNCHANGED <<io_mutex, console>>

EndLine(t) ==
  /\ Goto(t, "open", "before")
  /\ console' = Append(console, EndOfLine)
  /\ pending' = [pending EXCEPT ![t] = Tail(@)]
  /\ UNCHANGED io_mutex

Step(t) == Lock(t) \/ Unlock(t) \/ WriteValue(t) \/ EndLine(t)

Next == \E t \in Threads : Step(t)

Spec == Init /\ [][Next]_vars

(* The system schedules every thread.  std::mutex promises no order among   *)
(* those that wait for it, but each of them prints only so much.            *)
FairSpec == Spec /\ \A t \in Threads : WF_vars(Step(t))

-----------------------------------------------------------------------------
(* What is among the given texts of a sequence, in its order (SelectSeq, by *)
(* a recursion that proofs can look into).                                  *)
Among(texts, s) ==
  LET among[n \in 0 .. Len(s)] ==
        IF n = 0 THEN <<>>
        ELSE IF s[n] \in texts THEN Append(among[n - 1], s[n]) ELSE among[n - 1]
  IN  among[Len(s)]

Written(texts) == Among(texts, console)
EndedLines == Len(Written({EndOfLine}))
OpenLines == {t \in Threads : place[t] = "open"}

(* Whatever the goroutines do to each other, the values of each appear in   *)
(* the order it printed them, none twice, and none is missing that is no    *)
(* longer pending (iprint of examples/interleaving.goat).                   *)
PrintedInOrder ==
  \A t \in Threads :
    LET unwritten == IF t \in OpenLines THEN Tail(pending[t]) ELSE pending[t]
    IN  Written(Texts(t)) \o unwritten = Prints[t]

(* Every value gets its end of line: there are at most as many values       *)
(* without one as there are goroutines in the middle of a print, so that    *)
(* the lines only mix, and none is lost, when all have printed.             *)
LinesMixBounded ==
  Len(console) - EndedLines = EndedLines + Cardinality(OpenLines)

(* io_mutex is always released: every goroutine prints all it has to.       *)
EverythingIsPrinted == <>(\A t \in Threads : pending[t] = <<>>)

(* What the lock is there for: a value is followed by the end of its line.  *)
LinesWhole ==
  \A i \in 1 .. (Len(console) - 1) :
    console[i] # EndOfLine => console[i + 1] = EndOfLine
=============================================================================
