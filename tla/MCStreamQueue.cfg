SPECIFICATION MCSpec
CONSTANTS
  Requests = {r1, r2}
  Flushes = {f1, f2}
  MaximumRequests = {none, 1}
  EventsPerFlush = {none, 0, 1}
  Crashes = 1
  MaxMemory = 0
  HasDiskPath = TRUE
  ListKey = list
  Never = 99
  None = none
CHECK_DEADLOCK FALSE
INVARIANTS
  AcceptedIsKept
  QueueIsSound
  
PROPERTIES
  EveryFlushReturns
  FutureIsSet
