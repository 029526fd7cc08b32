SPECIFICATION FairSpec
CONSTANTS
  u1 = u1
  u2 = u2
  m1 = m1
  m2 = m2
  c1 = c1
  c2 = c2
  c3 = c3
  uctusd = uctusd
  usd = usd
  Users = {u1, u2}
  Currencies = {uctusd, usd}
  Token = uctusd
  Remittances = {m1, m2}
  Sender <- OneEachWay
  Recipient <- TheOtherWay
  CashOuts = {c1, c2, c3}
  Owner <- OfU1
  Payout <- InDollars
  Sessions = {t1, t2}
  Opened <- OneOpened
  Requested = {c1}
  Funds = 1
  MaxWrites = 2
  None = None
INVARIANTS
  TypeOK
  BalanceReconstructible
  OnlySettlementsDeadlock
PROPERTIES
  ImplementsBalances
  TransactionsEnd
