SPECIFICATION Spec
CONSTANTS
  CashOuts = {c1, c2}
  Workers = {w1, w2}
  Requests = {q1, q2}
  None = None
  MaxEntries = 2
  SlowSettlement = TRUE
  Funds = 1
  FaultKinds = {"publish", "request", "answer", "record", "loop", "crash"}
  MaxFaults = 1
SYMMETRY Symmetric
CONSTRAINT FaultsWithOne
INVARIANTS
  TypeOK
  DebitedOnce
  FiatBacked
  FinalStatusTrue
  BurnApproved
  OneEnd
PROPERTIES
  ImplementsWithdrawal
CHECK_DEADLOCK FALSE
