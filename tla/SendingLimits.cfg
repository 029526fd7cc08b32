SPECIFICATION Spec
CONSTANTS
  Applications = {a1}
  Reviews = {v1, v2}
  Quotes = {q1, q2, q3}
  Tasks = {k1, k2}
  DailyLimit = 1
  MonthlyLimit = 2
  QuoteTtl = 1
  Midnights <- TwoDays
  MonthStarts <- OneMonth
  MaxTime = 1
  None = None
  NoRow = NoRow
SYMMETRY Symmetric
INVARIANTS
  TypeOK
  WithinLimits
  OnlyApprovedSend
  StatusesInSync
CHECK_DEADLOCK FALSE
