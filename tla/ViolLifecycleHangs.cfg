CONSTANTS
  Tasks <- TwoTasks
  Deps <- NoDeps
  Critical = {}
  UnknownRole = {}
  Planners = {}
  MaxWorkers = 1
  MaxRetries = 0
  MaxHandoffs = 1
  GapTolerance = 3
  ExitCodes = {0}
  MaxFaults = 0
  CBThreshold = 2
  Scenarios <- Hanging
SPECIFICATION MCSpec
PROPERTY EveryLifecycleTerminates
