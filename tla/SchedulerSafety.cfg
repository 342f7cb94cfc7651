SPECIFICATION Spec
CONSTANTS
  Main = main
  Threads = {main, a, b}
  Nil = Nil
  Freed = Freed
  InitPriorities = {1}
  Bursts = {0, 1}
  L1Min = 4
  L2Min = 2
  MaxPriority = 5
  AgeStep = 2
  AgeTicks = 2
  MaxWait = 1
SYMMETRY Symmetry
INVARIANTS ReadyListsExact CarcassBuried L1Sorted
PROPERTIES PreemptionJustified Dispatches
CHECK_DEADLOCK FALSE
