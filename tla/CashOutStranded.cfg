SPECIFICATION Spec
CONSTANTS
  CashOuts = {c1}
  Workers = {w1}
  Requests = {q1}
  None = None
  MaxEntries = 1
  SlowSettlement = FALSE
  Funds = 1
  FaultKinds = {"record"}
  MaxFaults = 1
SYMMETRY Symmetric
INVARIANTS
  ProcessingHasMessage
CHECK_DEADLOCK FALSE
