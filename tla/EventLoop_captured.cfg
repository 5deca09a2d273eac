CONSTANTS
  MaxTimers = 1
  Delays = {1, 3}
  Second = 2
  MaxJobs = 1
  Captures = {1}
SPECIFICATION Spec
CHECK_DEADLOCK FALSE
INVARIANTS
  CallbackAlive
