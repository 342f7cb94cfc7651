SPECIFICATION FairSpec
CONSTANTS
  Threads = {a, b, c}
  Mutex = mutex
  Sems = {a, b, c, mutex}
  Nil = Nil
  Items = {x, y}
  MaxCalls = 2
INVARIANTS WakeupsMatched SignalsAccounted
PROPERTIES Implements ItemsDelivered AppendsReturn
CHECK_DEADLOCK FALSE
