------------------------------- MODULE Semaphore -------------------------------
(***************************************************************************)
(* Semaphores (threads/synch.cc).  P and V run with interrupts disabled,   *)
(* so each is one step up to the Sleep in the loop of P.  A thread in the  *)
(* queue of a semaphore is asleep; V takes it out and makes it ready, and  *)
(* when it gets the CPU it tests the value again: it is back at the head   *)
(* of the loop, as a thread that has just called P.                        *)
(*                                                                         *)
(* The module is extended by those of the monitors and devices built on    *)
(* semaphores.  Which of the ready threads runs is left to them.           *)
(***************************************************************************)
EXTENDS Integers, SequencesExt

CONSTANTS
  Threads, \* the threads of the kernel
  Sems     \* the semaphores

VARIABLES
  value, \* Semaphore::value
  queue  \* Semaphore::queue, in the order of arrival

semVars == <<value, queue>>

Asleep(t) == \E s \in Sems : t \in Range(queue[s])

\* One turn of the loop of P: the thread sleeps.
PSleeps(t, s) ==
  /\ value[s] = 0
  /\ queue' = [queue EXCEPT ![s] = Append(@, t)]
  /\ UNCHANGED value

\* Mutant of PTakes: the value is not tested.
PTakesUntested(s) ==
  /\ value' = [value EXCEPT ![s] = @ - 1]
  /\ UNCHANGED queue

\* The value was not 0: P consumes it and returns.
PTakes(s) ==
  /\ value[s] > 0
  /\ value' = [value EXCEPT ![s] = @ - 1]
  /\ UNCHANGED queue

\* Mutants of V: sleepers are woken only when the value was not 0; the value goes
\* up only when nobody sleeps.
VWakesIfPositive(s) ==
  /\ value' = [value EXCEPT ![s] = @ + 1]
  /\ queue' = [queue EXCEPT ![s] = IF @ = <<>> \/ value[s] = 0 THEN @ ELSE Tail(@)]
VHandsOff(s) ==
  /\ value' = [value EXCEPT ![s] = IF queue[s] = <<>> THEN @ + 1 ELSE @]
  /\ queue' = [queue EXCEPT ![s] = IF @ = <<>> THEN @ ELSE Tail(@)]

\* The first sleeper becomes ready, whatever the value; it may find the value
\* taken by another thread when it runs.
V(s) ==
  /\ value' = [value EXCEPT ![s] = @ + 1]
  /\ queue' = [queue EXCEPT ![s] = IF @ = <<>> THEN @ ELSE Tail(@)]

SemTypeOK ==
  /\ value \in [Sems -> Nat]
  /\ queue \in [Sems -> Seq(Threads)]
===============================================================================
