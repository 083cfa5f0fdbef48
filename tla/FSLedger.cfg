CONSTANTS
  NoWorker = NoWorker
  NoTask = NoTask
  NoClient = NoClient
  NoProcess = NoProcess
  c1 = c1
  c2 = c2
  c3 = c3
  p = p
  q = q
  w1 = w1
  w2 = w2
  Tasks <- ThreeTasks
  Workers <- BothWorkers
  InBranch <- ThreeTasks
  Clients <- Trio
  Process <- TrioProcesses
  Requests <- AllRequests
  MaxFaults = 2
SPECIFICATION MCFairSpec
INVARIANTS
  NeverReadyEarly
PROPERTIES
  ImplementsLedger
  CallsReturn
