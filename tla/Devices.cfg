SPECIFICATION FairSpec
CONSTANTS
  Threads = {main, a, b}
  Sems <- DeviceSems
  Main = main
  Nil = Nil
  Kernels = {"MP2", "MP4"}
  SystemTick = 2
  UserTick = 1
  ConsoleTime = 1
  TimerDelays = {1, 3}
  NumSectors = 4
  SectorsPerTrack = 2
  RotationTime = 3
  SeekTime = 2
  Lengths = {2}
  BootCalls = 1
  TestCalls = 1
  PrintCalls = 1
  DiskCalls = 2
INVARIANTS AnswersMatched InputMatched ModeRestored OutputTogether HaltIsQuiet LatencyExact
PROPERTIES CallsReturn ReadyRuns MP4Halts
CHECK_DEADLOCK FALSE
