CONSTANTS
  Tasks <- BranchTasks
  Deps <- BranchDeps
  Critical = {4}
  UnknownRole = {5}
  Planners = {1}
  MaxWorkers = 2
  MaxRetries = 1
  MaxHandoffs = 1
  GapTolerance = 1
  ExitCodes = {0, 2, 3}
  MaxFaults = 1
SPECIFICATION MCSpec
INVARIANTS
  OutcomesCurrent
  DependencyOrdering
  WorkerOwnership
  GapOvershootBounded
  ChannelHasRoom
PROPERTIES
  TerminalIrreversible
