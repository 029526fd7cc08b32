SPECIFICATION Spec
CONSTANTS
  Remittances = {r1}
  Workers = {w1, w2}
  Requests = {q1, q2}
  None = None
  MaxEntries = 2
  MaxFaults = 2
  MaxPaid = 2
  SlowSettlement = TRUE
SYMMETRY Symmetric
INVARIANTS
  TypeOK
  PaidOutOnce
  PayoutCovered
  FinalStatusTrue
PROPERTIES
  ImplementsDelivery
  ImplementsPayout
CHECK_DEADLOCK FALSE
