SPECIFICATION FairSpec
CONSTANTS
  CashOuts = {c1}
  Workers = {w1, w2}
  Requests = {q1, q2}
  None = None
  MaxEntries = 2
  SlowSettlement = FALSE
  Funds = 1
  FaultKinds = {"publish", "request", "answer"}
  MaxFaults = 2
INVARIANTS
  ProcessingHasWorker
  ProcessingHasMessage
PROPERTIES
  ApprovalResolves
CHECK_DEADLOCK FALSE
