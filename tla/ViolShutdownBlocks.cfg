CONSTANTS
  Tasks <- FiveTasks
  Deps <- NoDeps
  Critical = {}
  UnknownRole = {}
  Planners = {}
  MaxWorkers = 1
  MaxRetries = 0
  MaxHandoffs = 0
  GapTolerance = 5
  ExitCodes = {}
  MaxFaults = 0
  CBThreshold = 1
  Scenarios <- Blocking
SPECIFICATION MCSpec
INVARIANT WaitReturns
