SPECIFICATION Spec
CONSTANTS
  Budget = 3
  Request = 1
  Operations = 2
  Ahead = 1
  LastS = 1
  Pause = 1
  Wait = 3
  AppRequest = 2
  Poll = 2
  Tries = 2
  MaxTime = 12
  None = None
INVARIANTS OneJobPerCall AbandonedIsCancelled
PROPERTY CallsEndOnTime
CHECK_DEADLOCK FALSE
