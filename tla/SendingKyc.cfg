SPECIFICATION Spec
CONSTANTS
  Applications = {a1, a2}
  Reviews = {v1, v2}
  Quotes = {q1}
  Tasks = {k1}
  DailyLimit = 1
  MonthlyLimit = 1
  QuoteTtl = 1
  Midnights <- TwoDays
  MonthStarts <- OneMonth
  MaxTime = 0
  None = None
  NoRow = NoRow
SYMMETRY Symmetric
INVARIANTS
  StatusesInSync
CHECK_DEADLOCK FALSE
