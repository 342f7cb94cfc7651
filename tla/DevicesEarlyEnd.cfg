SPECIFICATION Spec
CONSTANTS
  Threads = {main, a, b}
  Sems <- DeviceSems
  Main = main
  Nil = Nil
  Kernels = {"MP4"}
  SystemTick = 2
  UserTick = 1
  ConsoleTime = 1
  TimerDelays = {3}
  NumSectors = 4
  SectorsPerTrack = 2
  RotationTime = 3
  SeekTime = 2
  Lengths = {2}
  BootCalls = 1
  TestCalls = 1
  PrintCalls = 1
  DiskCalls = 1
INVARIANT DisabledAtEnd
CHECK_DEADLOCK FALSE
