------------------------------- MODULE Dispatcher -------------------------------
(***************************************************************************)
(* What the thread system promises, whatever the scheduling policy: the    *)
(* life of the threads that share one CPU.  cpu is the thread on whose     *)
(* stack the kernel runs; it may be asleep, when the machine idles.        *)
(*                                                                         *)
(* Scheduler.tla implements this (Dispatches, checked and proved).   *)
(***************************************************************************)
CONSTANTS Threads, Main

VARIABLES life, cpu

DInit ==
  /\ life = [t \in Threads |-> IF t = Main THEN "running" ELSE "created"]
  /\ cpu = Main

\* The running thread creates or wakes another; a handler wakes a thread, also
\* the one that sleeps on the CPU.
Start(t) ==
  /\ life[cpu] = "running" /\ life[t] = "created"
  /\ life' = [life EXCEPT ![t] = "ready"]
  /\ UNCHANGED cpu

Wake(t) ==
  /\ life[t] = "blocked"
  /\ life' = [life EXCEPT ![t] = "ready"]
  /\ UNCHANGED cpu

\* The running thread sleeps, or is done.
Stop(how) ==
  /\ life[cpu] = "running"
  /\ life' = [life EXCEPT ![cpu] = how]
  /\ UNCHANGED cpu

\* The CPU is taken from the running thread, which stays ready.
Take(next) ==
  /\ life[cpu] = "running" /\ life[next] = "ready"
  /\ life' = [life EXCEPT ![cpu] = "ready", ![next] = "running"]
  /\ cpu' = next

\* A thread that stopped gives the CPU away; it may have been woken since, and
\* may get it back.
Give(next) ==
  /\ life[cpu] # "running" /\ life[next] = "ready"
  /\ life' = [life EXCEPT ![next] = "running"]
  /\ cpu' = next

\* A finished thread is deleted, but not on its own stack.
Bury(t) ==
  /\ life[t] = "finished" /\ t # cpu /\ life[cpu] = "running"
  /\ life' = [life EXCEPT ![t] = "deleted"]
  /\ UNCHANGED cpu

DNext ==
  \/ \E t \in Threads : Start(t) \/ Wake(t) \/ Take(t) \/ Give(t) \/ Bury(t)
  \/ \E how \in {"blocked", "finished"} : Stop(how)

DSpec == DInit /\ [][DNext]_<<life, cpu>>
===============================================================================
