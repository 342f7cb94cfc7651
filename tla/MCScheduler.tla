------------------------------ MODULE MCScheduler ------------------------------
(***************************************************************************)
(* Scheduler on a small instance.  The scale of the safety run is 2, 4, 5  *)
(* and a step of 2 for the code's 50, 100, 149 and 10: a thread of         *)
(* priority 1 ages from below L2Min to above it, as 45 does to 55.         *)
(***************************************************************************)
EXTENDS Scheduler

Symmetry == Permutations(Threads \ {Main})
===============================================================================
