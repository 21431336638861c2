SPECIFICATION Spec
CONSTANTS
  Requests = {r1, r2}
  Flushes = {f1}
  MaximumRequests = {none}
  EventsPerFlush = {none}
  Crashes = 1
  MaxMemory = 9
  HasDiskPath = TRUE
  ListKey = list
  Never = 99
  None = none
INVARIANT
  AcceptedIsKept
