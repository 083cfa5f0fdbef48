CONSTANTS
  InvocationTimeout = 5000
  LockRetryBudget = 2000
  InitialDelay = 75
  Durations = {0, 100, 300, 500, 1900, 4900}
  Releases = {0, 500, 9000}
SPECIFICATION BdSpec
INVARIANTS
  BudgetIsSleep
