CONSTANTS
  NoWorker = NoWorker
  NoTask = NoTask
  NoClient = NoClient
  c1 = c1
  c2 = c2
  w1 = w1
  w2 = w2
  Tasks <- Three
  Workers <- BothWorkers
  InBranch <- Two
  Clients <- Pair
  Requests <- AllRequests
  Unlabelled <- ThirdOnly
  UserRequests <- Closing
  MaxFaults = 2
SPECIFICATION MCSpec
INVARIANTS
  ReadyTruthful
PROPERTIES
  ImplementsLedger
