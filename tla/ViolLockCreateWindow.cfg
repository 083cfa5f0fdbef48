CONSTANTS
  Procs <- TwoProcs
  Staleness = 2
  RetryCount = 1
  MaxContenders = 2
  MaxStall = 1
  MaxClock = 3
SPECIFICATION Spec
INVARIANT
  MutualExclusion
CHECK_DEADLOCK FALSE
