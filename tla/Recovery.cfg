CONSTANTS
  Tasks <- PlanAndTwo
  Planner = 1
  Critical = {1}
  MaxWorkers = 2
  MaxRetries = 1
  MaxHandoffs = 1
  GapTolerance = 2
  MaxDowns = 3
  MaxRuns = 2
  MaxReopens = 1
  MaxStrays = 1
  MaxTrips = 1
  MaxSpawnFailures = 1
  MaxOrders = 2
SPECIFICATION MCSpec
INVARIANTS
  Reconciled
  CrashCost
  GapLoss
  ResolvedOnlyReopened
PROPERTIES
  OnlyCheckedDispatched
