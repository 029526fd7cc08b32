SPECIFICATION Spec
CONSTANTS
  u1 = u1
  u2 = u2
  m1 = m1
  m2 = m2
  c1 = c1
  c2 = c2
  c3 = c3
  uctusd = uctusd
  usd = usd
  Users = {u1, u2}
  Currencies = {uctusd, usd}
  Token = uctusd
  Remittances = {m1, m2}
  Sender <- FromU1
  Recipient <- ToU2
  CashOuts = {c1}
  Owner <- OfU2
  Payout <- InDollars
  Sessions = {t1, t2}
  Opened <- OneOpened
  Requested = {}
  Funds = 1
  MaxWrites = 3
  None = None
SYMMETRY Symmetric
INVARIANTS
  EveryBalanceReconstructible
