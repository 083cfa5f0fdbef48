CONSTANTS
  Tasks <- TwoTasks
  Deps <- NoDeps
  Critical = {}
  UnknownRole = {}
  Planners = {}
  MaxWorkers = 1
  MaxRetries = 1
  MaxHandoffs = 1
  GapTolerance = 2
  ExitCodes = {0, 3}
  MaxFaults = 1
  CBThreshold = 1
  Scenarios <- Supervised
SPECIFICATION MCSpec
INVARIANTS
  SessionBudget
  OutcomesBounded
PROPERTIES
  DeadSessionNoticed
  SShutdownTerminates
  SLifecycleTerminates
