CONSTANTS
  Tasks <- OneTask
  Deps <- NoDeps
  Critical = {}
  UnknownRole = {}
  Planners = {}
  MaxWorkers = 1
  MaxRetries = 0
  MaxHandoffs = 1
  GapTolerance = 3
  ExitCodes = {0, 3}
  MaxFaults = 0
  CBThreshold = 2
  Scenarios <- HandingOff
SPECIFICATION MCSpec
PROPERTY StuckDidNotSucceed
