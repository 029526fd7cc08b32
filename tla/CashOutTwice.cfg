SPECIFICATION Spec
CONSTANTS
  CashOuts = {c1}
  Workers = {w1}
  Requests = {q1, q2}
  None = None
  MaxEntries = 2
  SlowSettlement = FALSE
  Funds = 1
  FaultKinds = {}
  MaxFaults = 0
SYMMETRY Symmetric
INVARIANTS
  BurnedOnce
CHECK_DEADLOCK FALSE
