CONSTANTS
  MaxTimers = 2
  Delays <- MCDelays
  Second = 2
  MaxJobs = 1
  Captures = {2}
SPECIFICATION FairSpec
CHECK_DEADLOCK FALSE
INVARIANTS
  TypeOK
  FreedByLastOwner
  EndsWhenDone
PROPERTIES
  ClearedForGood
  TimersServed
