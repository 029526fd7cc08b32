SPECIFICATION Spec
CONSTANTS
  Remittances = {r1}
  Workers = {w1}
  Requests = {q1}
  None = None
  MaxEntries = 2
  MaxFaults = 0
  MaxPaid = 2
  SlowSettlement = FALSE
SYMMETRY Symmetric
INVARIANTS
  SubmittedOnce
CHECK_DEADLOCK FALSE
