CONSTANTS
  InvocationTimeout = 5000
  LockRetryBudget = 2000
  InitialDelay = 75
  Durations = {0, 100, 300, 500, 1900, 4900}
  Releases = {0, 80, 480, 500, 600, 1000, 1400, 9000}
  Workers = {w1, w2}
  CBThreshold = 2
  Window = 2
  MaxTime = 4
  MaxRecords = 3
  Deps = {d1, d2}
  MaxAttempts = 3
  MaxGhFaults = 2
  Tasks = {t1, t2}
  Tolerance = 2
  MaxRetries = 1
  MaxResumes = 1
  MaxLogFaults = 1
  MaxHandoffs = 1
  Nodes <- Four
  Foreign <- Outside
  Inputs <- AllInputs
  Procs <- ThreeProcs
  Staleness = 2
  RetryCount = 1
  MaxContenders = 1
  MaxStall = 1
  MaxClock = 5
  e1 = e1
  e2 = e2
  e3 = e3
  Engines <- ThreeEngines
  LockRetries = 1
  MaxCrashes = 2
  MaxFaults = 1
SPECIFICATION MCSpec
INVARIANTS
  WallBounded
  OutlastsHold
  TripsExactly
  ExitHonest
  NoPRAfterFailure
  ExistingPRSuffices
  InProgressExact
  LockGaugeHonest
  VerdictExact
  MutualExclusion
  HolderKeepsLock
  OneRetryIsEnough
  HolderUndisturbed
  SessionsReachable
  RefusedHoldsNothing
  LockKept
PROPERTIES
  ImplementsBreaker
