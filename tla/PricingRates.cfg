SPECIFICATION FairSpec
CONSTANTS
  Requests = {q1, q2}
  Ttl = 1
  MaxStale = 2
  MaxFetch = 1
  MaxTime = 5
  None = None
  Cents = 100
  Units = 1000
  RateUnit = 100
  Bps = 10000
  FixedFee = 2500
  PercentFee = 150
  Margin = 100
  CashOutFee = 100
  SendAmounts <- SomeSends
  CashOutAmounts <- SomeCashOuts
  RateAt <- Market
INVARIANTS
  TypeOK
  FreshEnough
  NoNeedlessFetch
  TokensExact
  NothingFromRounding
PROPERTIES
  RatesAdvance
  RequestsAnswered
CHECK_DEADLOCK FALSE
