SPECIFICATION FairSpec
CONSTANTS
  Main = main
  Threads = {main, a, b}
  Nil = Nil
  Freed = Freed
  InitPriorities = {1, 4}
  Bursts = {0}
  L1Min = 4
  L2Min = 2
  MaxPriority = 4
  AgeStep = 2
  AgeTicks = 1
  MaxWait = 1
PROPERTIES IdleEnds CarcassDeleted
CHECK_DEADLOCK FALSE
