SPECIFICATION Spec
CONSTANTS
  PageSize = 2
  StackSize = 2
  NumPhysPages = 8
  Files <- MCFiles
  Header <- MCHeader
  Text <- MCText
  Executable <- MCExecutable
  Workloads <- MCWorkloads
INVARIANTS FramesOwnedOnce RefusedByWorkload
PROPERTY Isolated
CHECK_DEADLOCK FALSE
