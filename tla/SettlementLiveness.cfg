SPECIFICATION FairSpec
CONSTANTS
  Remittances = {r1}
  Workers = {w1, w2, w3}
  Requests = {q1}
  None = None
  MaxEntries = 2
  MaxFaults = 2
  MaxPaid = 1
  SlowSettlement = FALSE
INVARIANTS
  SettlingHasMessage
PROPERTIES
  MessageResolves
CHECK_DEADLOCK FALSE
