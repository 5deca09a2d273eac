CONSTANTS
  MaxTimers = 1
  Delays = {16}
  Second = 1000
  MaxJobs = 1
  Captures = {}
SPECIFICATION FairSpec
CHECK_DEADLOCK FALSE
PROPERTIES
  CalledWhenDue
