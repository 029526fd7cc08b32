---------------------------- MODULE PricingProofs ----------------------------
(***************************************************************************)
(* Proofs about FxRate, Fees and Pricing, for any requests, times, fees,   *)
(* scales, amounts and market.                                             *)
(***************************************************************************)
EXTENDS Pricing, TLAPS

USE NoRequestAssumption, TimesAssumption

-----------------------------------------------------------------------------
(***************************************************************************)
(* Arithmetic of rounding.                                                 *)
(***************************************************************************)

(* The quotient is as large as it can be without exceeding the fraction.   *)
LEMMA Quotient ==
  ASSUME NEW n \in Nat, NEW d \in Nat \ {0}
  PROVE  /\ n \div d \in Nat
         /\ (n \div d) * d <= n
         /\ n < (n \div d + 1) * d
  <1>1. n \div d \in Int /\ n \div d >= 0
    OBVIOUS
  <1>2. (n \div d) * d <= n
    OBVIOUS
  <1>3. n < (n \div d + 1) * d
    OBVIOUS
  <1> QED
    BY <1>1, <1>2, <1>3

(* Products.                                                               *)
LEMMA Product ==
  ASSUME NEW m \in Nat, NEW n \in Nat
  PROVE  m * n \in Nat /\ (m > 0 /\ n > 0 => m * n > 0)
  OBVIOUS

LEMMA ProductPositive ==
  ASSUME NEW m \in Nat \ {0}, NEW n \in Nat \ {0}
  PROVE  m * n \in Nat \ {0}
  OBVIOUS

LEMMA ProductMonotone ==
  ASSUME NEW m \in Int, NEW n \in Int, NEW d \in Nat, m <= n
  PROVE  m * d <= n * d
  OBVIOUS

(* Whatever goes into the fraction is at most the quotient.                *)
LEMMA QuotientLeast ==
  ASSUME NEW n \in Nat, NEW d \in Nat \ {0}, NEW k \in Nat, k * d <= n
  PROVE  k <= n \div d
  <1>1. n \div d \in Nat /\ n < (n \div d + 1) * d
    BY Quotient
  <1> DEFINE q == n \div d
  <1>2. ASSUME q + 1 <= k PROVE FALSE
    <2>1. (q + 1) * d <= k * d
      BY <1>1, <1>2, ProductMonotone
    <2>2. (q + 1) * d \in Int /\ k * d \in Int
      BY <1>1
    <2> QED
      BY <1>1, <2>1, <2>2
  <1> QED
    BY <1>1, <1>2

(* Rounding half up takes nothing from a whole number.                     *)
LEMMA HalfUpFacts ==
  ASSUME NEW n \in Nat, NEW d \in Nat \ {0}
  PROVE  /\ HalfUp(n, d) \in Nat
         /\ \A k \in Nat : k * d <= n => k <= HalfUp(n, d)
  <1>1. 2 * n + d \in Nat /\ 2 * d \in Nat \ {0}
    OBVIOUS
  <1>2. HalfUp(n, d) \in Nat
    BY <1>1, Quotient DEF HalfUp
  <1>3. ASSUME NEW k \in Nat, k * d <= n
        PROVE  k <= HalfUp(n, d)
    <2>1. k * (2 * d) <= 2 * n + d
      <3>1. k * (2 * d) = 2 * (k * d) /\ k * d \in Nat
        OBVIOUS
      <3> QED
        BY <1>3, <3>1
    <2> QED
      BY <1>1, <2>1, QuotientLeast DEF HalfUp
  <1> QED
    BY <1>2, <1>3

-----------------------------------------------------------------------------
(***************************************************************************)
(* Prices.                                                                 *)
(***************************************************************************)

(* Fees and margin are taken from the amount, never added to it.           *)
LEMMA NetConverted ==
  ASSUME NEW a \in Nat
  PROVE  net_converted(a) \in Int /\ net_converted(a) <= a
  <1>1. a * PercentFee \in Nat /\ a * Margin \in Nat /\ FixedFee * Bps \in Nat
    BY FeesAssumption, ScalesAssumption, Product
  <1>2. transaction_fee(a) \in Nat
    BY <1>1, ScalesAssumption, HalfUpFacts DEF transaction_fee
  <1>3. fx_margin(a) \in Nat
    BY <1>1, ScalesAssumption, HalfUpFacts DEF fx_margin
  <1> QED
    BY <1>2, <1>3 DEF net_converted

(* And the fee of a cash-out.                                              *)
LEMMA NetUctusd ==
  ASSUME NEW u \in Nat
  PROVE  net_uctusd(u) \in Int /\ net_uctusd(u) <= u
  <1>1. u * CashOutFee \in Nat
    BY FeesAssumption, ScalesAssumption, Product
  <1>2. cash_out_fee(u) \in Nat
    BY <1>1, ScalesAssumption, Quotient DEF cash_out_fee
  <1> QED
    BY <1>2 DEF net_uctusd

(* Tokens are worth at most what they cost, and one more would be worth    *)
(* more.                                                                   *)
LEMMA TokensFacts ==
  ASSUME NEW net \in Nat, NEW rate \in Nat \ {0}
  PROVE  /\ Tokens(net, rate) \in Nat
         /\ TokenValue(Tokens(net, rate), rate) <= RandValue(net)
         /\ RandValue(net) < TokenValue(Tokens(net, rate) + 1, rate)
  <1>1. net * (Units * RateUnit) \in Nat /\ Cents * rate \in Nat \ {0}
    BY ScalesAssumption, Product, ProductPositive
  <1> QED
    BY <1>1, Quotient DEF Tokens, TokenValue, RandValue

(* A payout is worth at most its tokens, and with one more cent more.      *)
LEMMA PayoutFacts ==
  ASSUME NEW n \in Nat, NEW rate \in Nat \ {0}, NEW currency \in PRICEABLE_PAYOUT_CURRENCIES
  PROVE  LET p == convert_from_uctusd(n, currency, rate) IN
         /\ p \in Nat
         /\ PayoutValue(p, currency, rate) <= TokenValue(n, rate)
         /\ TokenValue(n, rate) < PayoutValue(p + 1, currency, rate)
  <1> DEFINE p == convert_from_uctusd(n, currency, rate)
  <1>1. Cents \in Nat \ {0} /\ Units \in Nat \ {0} /\ RateUnit \in Nat \ {0}
    BY ScalesAssumption
  <1>2. CASE currency = "ZAR"
    <2>1. n * Cents * rate \in Nat /\ Units * RateUnit \in Nat \ {0}
      BY <1>1, Product, ProductPositive
    <2>2. p = (n * Cents * rate) \div (Units * RateUnit)
      BY <1>2 DEF convert_from_uctusd
    <2>3. /\ p \in Nat /\ p * (Units * RateUnit) <= n * Cents * rate
          /\ n * Cents * rate < (p + 1) * (Units * RateUnit)
      BY <2>1, <2>2, Quotient
    <2>4. n * Cents * rate = TokenValue(n, rate)
      BY <1>1 DEF TokenValue
    <2> QED
      BY <1>2, <2>3, <2>4 DEF PayoutValue, RandValue
  <1>3. CASE currency = "USD"
    <2>1. n * Cents \in Nat
      BY <1>1, Product
    <2>2. p = (n * Cents) \div Units
      BY <1>3 DEF convert_from_uctusd
    <2>3. p \in Nat /\ p * Units <= n * Cents /\ n * Cents < (p + 1) * Units
      BY <1>1, <2>1, <2>2, Quotient
    <2>4. (n * Cents) * rate = TokenValue(n, rate)
      BY <1>1 DEF TokenValue
    <2>5. p * Units \in Nat /\ (p + 1) * Units \in Nat
      BY <1>1, <2>3, Product
    <2>6. (p * Units) * rate <= (n * Cents) * rate
      BY <2>1, <2>3, <2>5, ProductMonotone
    <2>7. (n * Cents) * rate < ((p + 1) * Units) * rate
      <3>1. (n * Cents + 1) * rate <= ((p + 1) * Units) * rate
        BY <2>1, <2>3, <2>5, ProductMonotone
      <3>2. (n * Cents + 1) * rate = (n * Cents) * rate + rate
        BY <2>1
      <3> QED
        BY <2>1, <2>5, <3>1, <3>2, Product
    <2> QED
      BY <1>3, <2>3, <2>4, <2>6, <2>7 DEF PayoutValue
  <1>4. CASE currency = "UCTUSD"
    <2>1. p = n
      BY <1>4 DEF convert_from_uctusd
    <2>2. Cents * rate \in Nat \ {0}
      BY <1>1, ProductPositive
    <2>3. n * (Cents * rate) < (n + 1) * (Cents * rate)
      BY <2>2
    <2> QED
      BY <1>4, <2>1, <2>2, <2>3 DEF PayoutValue, TokenValue
  <1> QED
    BY <1>2, <1>3, <1>4 DEF PRICEABLE_PAYOUT_CURRENCIES

(* What the tokens of somebody's cash-out are paid with.                   *)
LEMMA CashOutFacts ==
  ASSUME NEW u \in Nat, NEW rate \in Nat \ {0}, NEW currency \in PRICEABLE_PAYOUT_CURRENCIES,
         CashOutPriced(u)
  PROVE  LET p == payout_amount(u, currency, rate) IN
         /\ p \in Nat
         /\ PayoutValue(p, currency, rate) <= TokenValue(u, rate)
         /\ TokenValue(net_uctusd(u), rate) < PayoutValue(p + 1, currency, rate)
  <1> DEFINE n == net_uctusd(u)
             p == payout_amount(u, currency, rate)
  <1>1. n \in Nat /\ n <= u
    BY NetUctusd DEF CashOutPriced
  <1>2. /\ p \in Nat /\ PayoutValue(p, currency, rate) <= TokenValue(n, rate)
        /\ TokenValue(n, rate) < PayoutValue(p + 1, currency, rate)
    BY <1>1, PayoutFacts DEF payout_amount
  <1>3. Cents * rate \in Nat
    BY ScalesAssumption, Product
  <1>4. TokenValue(n, rate) <= TokenValue(u, rate)
    BY <1>1, <1>3, ProductMonotone DEF TokenValue
  <1>5. /\ TokenValue(n, rate) \in Int /\ TokenValue(u, rate) \in Int
        /\ PayoutValue(p, currency, rate) \in Int
    BY <1>1, <1>2, <1>3, ScalesAssumption DEF TokenValue, PayoutValue, RandValue,
         PRICEABLE_PAYOUT_CURRENCIES
  <1> QED
    BY <1>2, <1>4, <1>5

(* The all-in rate is at least the rate.                                   *)
LEMMA EffectiveRateFacts ==
  ASSUME NEW a \in Nat, NEW rate \in Nat \ {0}, QuotePriced(a, rate)
  PROVE  effective_rate(a, rate) \in Nat /\ rate <= effective_rate(a, rate)
  <1> DEFINE net == net_converted(a)
             u == uctusd_amount(a, rate)
  <1>1. net \in Nat /\ net <= a /\ u > 0
    BY NetConverted DEF QuotePriced
  <1>2. u \in Nat \ {0} /\ TokenValue(u, rate) <= RandValue(net)
    BY <1>1, TokensFacts DEF uctusd_amount
  <1>3. /\ Units * RateUnit \in Nat /\ Cents * u \in Nat \ {0}
        /\ a * (Units * RateUnit) \in Nat
    BY <1>2, ScalesAssumption, Product, ProductPositive
  <1>4. RandValue(net) <= RandValue(a)
    BY <1>1, <1>3, ProductMonotone DEF RandValue
  <1>5. rate * (Cents * u) = TokenValue(u, rate)
    BY <1>2, ScalesAssumption DEF TokenValue
  <1>6. rate * (Cents * u) <= a * (Units * RateUnit)
    <2>1. /\ TokenValue(u, rate) \in Int /\ RandValue(net) \in Int
          /\ RandValue(a) \in Int
      BY <1>1, <1>2, ScalesAssumption DEF TokenValue, RandValue
    <2> QED
      BY <1>2, <1>4, <1>5, <2>1 DEF RandValue
  <1> QED
    BY <1>3, <1>6, HalfUpFacts DEF effective_rate

-----------------------------------------------------------------------------
(***************************************************************************)
(* The cached rate.  Whoever is between taking the lock and giving it back *)
(* holds it; a rate arrives within the timeout of the provider; while      *)
(* somebody fetches, the cache has run out, so that nobody is served from  *)
(* it and every rate served before is older than the one on the way.       *)
(***************************************************************************)
CacheInv ==
  cache # None =>
    /\ cache.rate <= cache.fetched /\ cache.fetched <= clock
    /\ cache.expires = cache.fetched + Ttl
    /\ cache.fetched <= cache.rate + MaxFetch

AnswerInv(q) ==
  /\ answer[q] # None => answer[q].rate <= answer[q].at /\ answer[q].at <= clock
  /\ fpc[q] \in {"recheck", "fetch", "store"} => mutex = q
  /\ Fetching(q) => /\ asked[q] <= clock /\ clock <= asked[q] + MaxFetch
                    /\ cache # None => cache.expires <= asked[q]
  /\ fpc[q] = "store" => asked[q] <= answer[q].rate
  /\ Served(q) => answer[q].at <= answer[q].rate + MaxAge

OrderInv ==
  \A p \in Requests : Served(p) =>
    /\ cache # None => answer[p].rate <= cache.rate
    /\ \A q \in Requests : fpc[q] = "store" => answer[p].rate <= answer[q].rate

FxInv == FxType /\ CacheInv /\ (\A q \in Requests : AnswerInv(q)) /\ OrderInv

FxNext == (\E q \in Requests : RateStep(q)) \/ ResetCache \/ Tick

(* It holds at the start.                                                  *)
LEMMA FxInitInv == FxInit => FxInv
  BY DEF FxInit, FxInv, FxType, FetchPC, CacheInv, AnswerInv, OrderInv, Served, Fetching

(* The ages that the bound is made of.                                     *)
LEMMA MaxAgeFacts ==
  /\ {Ttl, MaxStale, MaxFetch, MaxTime, MaxAge} \subseteq Nat
  /\ Ttl + MaxFetch <= MaxAge /\ MaxStale + MaxFetch <= MaxAge /\ MaxFetch <= MaxAge
  BY DEF MaxAge

(* Types.                                                                  *)
LEMMA FxTypeStep ==
  ASSUME FxInv, FxNext
  PROVE  FxType'
  <1>1. ASSUME NEW q \in Requests, RateStep(q)
        PROVE  FxType'
    <2>1. CASE LookUp(q)
      BY <2>1 DEF LookUp, Fresh, Serve, FxGoto, FxInv, FxType, FetchPC, Cached, Answers
    <2>2. CASE Acquire(q)
      BY <2>2 DEF Acquire, FxGoto, FxInv, FxType, FetchPC, Answers
    <2>3. CASE Recheck(q)
      BY <2>3 DEF Recheck, StartFetch, Fresh, Serve, FxGoto, FxInv, FxType, FetchPC, Cached, Answers
    <2>4. CASE ProviderAnswers(q)
      BY <2>4 DEF ProviderAnswers, FxGoto, FxInv, FxType, FetchPC, Answers
    <2>5. CASE Store(q)
      BY <2>5 DEF Store, Serve, FxInv, FxType, FetchPC, Cached, Answers
    <2>6. CASE FetchFails(q)
      BY <2>6 DEF FetchFails, Usable, Serve, FxGoto, FxInv, FxType, FetchPC, Cached, Answers
    <2> QED
      BY <1>1, <2>1, <2>2, <2>3, <2>4, <2>5, <2>6 DEF RateStep
  <1>2. CASE ResetCache
    BY <1>2 DEF ResetCache, FxInv, FxType
  <1>3. CASE Tick
    BY <1>3 DEF Tick, FxInv, FxType
  <1> QED
    BY <1>1, <1>2, <1>3 DEF FxNext

(* What a request is served: the cached rate, while it is fresh or may be  *)
(* fallen back on, or the one it fetched.                                  *)
LEMMA ServeIs ==
  ASSUME FxInv, NEW q \in Requests, RateStep(q), fpc'[q] = "served"
  PROVE  /\ answer'[q].at = clock /\ answer'[q] # None
         /\ answer'[q].rate \in Nat /\ answer'[q].rate <= clock
         /\ clock <= answer'[q].rate + MaxAge
         /\ \/ /\ cache # None /\ cache' = cache /\ answer'[q].rate = cache.rate
            \/ /\ fpc[q] = "store" /\ answer'[q].rate = answer[q].rate
               /\ cache'.rate = answer[q].rate
         /\ fpc[q] \in {"new", "recheck", "fetch", "store"}
         /\ fpc[q] \in {"new", "recheck"} => Fresh
  <1>1. ASSUME cache # None, Serve(q, cache.rate), cache' = cache, Fresh \/ Usable
        PROVE  /\ answer'[q].at = clock /\ answer'[q] # None
               /\ answer'[q].rate \in Nat /\ answer'[q].rate <= clock
               /\ clock <= answer'[q].rate + MaxAge
               /\ answer'[q].rate = cache.rate
    <2>1. answer'[q] = [rate |-> cache.rate, at |-> clock] /\ cache \in Cached
      BY <1>1 DEF Serve, FxInv, FxType
    <2>2. answer'[q] # None
      BY <2>1, FxTypeStep, <1>1 DEF FxNext, FxType, Serve, FxInv
    <2>3. clock \in Nat
      BY DEF FxInv, FxType
    <2> QED
      BY <1>1, <2>1, <2>2, <2>3, MaxAgeFacts DEF FxInv, CacheInv, Cached, Fresh, Usable
  <1>2. CASE LookUp(q) \/ Recheck(q)
    <2>1. Fresh /\ Serve(q, cache.rate) /\ cache' = cache /\ fpc[q] \in {"new", "recheck"}
      BY <1>2 DEF LookUp, Recheck, StartFetch, FxGoto, FxInv, FxType
    <2> QED
      BY <1>1, <2>1 DEF Fresh
  <1>3. CASE FetchFails(q)
    <2>1. Usable /\ Serve(q, cache.rate) /\ cache' = cache /\ fpc[q] \in {"fetch", "store"}
      BY <1>3 DEF FetchFails, FxGoto, FxInv, FxType
    <2> QED
      BY <1>1, <2>1 DEF Usable
  <1>4. CASE Store(q)
    <2>1. /\ answer'[q] = [rate |-> answer[q].rate, at |-> clock]
          /\ fpc[q] = "store" /\ cache'.rate = answer[q].rate
      BY <1>4 DEF Store, Serve, FxInv, FxType
    <2>2. answer'[q] # None
      BY FxTypeStep DEF FxNext, FxType
    <2>3. answer[q] \in Answers /\ clock \in Nat
      BY <2>1 DEF FxInv, FxType
    <2>4. AnswerInv(q) /\ asked[q] \in Nat
      BY DEF FxInv, FxType
    <2> QED
      BY <2>1, <2>2, <2>3, <2>4, MaxAgeFacts DEF AnswerInv, Fetching, Answers
  <1>5. CASE Acquire(q) \/ ProviderAnswers(q)
    BY <1>5 DEF Acquire, ProviderAnswers, FxGoto, FxInv, FxType
  <1> QED
    BY <1>2, <1>3, <1>4, <1>5 DEF RateStep

(* A step of one request is none of another's, and while somebody is at    *)
(* the refresh the others can only look at the cache, which has run out    *)
(* by the time the provider is asked.                                      *)
LEMMA Alone ==
  ASSUME FxInv, NEW q \in Requests, RateStep(q), NEW p \in Requests, p # q
  PROVE  /\ fpc'[p] = fpc[p] /\ asked'[p] = asked[p] /\ answer'[p] = answer[p]
         /\ fpc[p] \in {"recheck", "fetch", "store"} => mutex' = mutex /\ cache' = cache
         /\ Fetching(p) => fpc'[q] # "served"
  <1>1. fpc'[p] = fpc[p] /\ asked'[p] = asked[p] /\ answer'[p] = answer[p]
    BY DEF RateStep, LookUp, Acquire, Recheck, StartFetch, ProviderAnswers, Store,
         FetchFails, Serve, FxGoto, FxInv, FxType
  <1>2. ASSUME fpc[p] \in {"recheck", "fetch", "store"}
        PROVE  LookUp(q)
    <2>1. mutex = p /\ mutex # None
      BY <1>2 DEF FxInv, AnswerInv
    <2>2. AnswerInv(q)
      BY DEF FxInv
    <2> QED
      BY <2>1, <2>2 DEF RateStep, Acquire, Recheck, ProviderAnswers, Store, FetchFails,
           AnswerInv
  <1>3. ASSUME Fetching(p), fpc'[q] = "served"
        PROVE  FALSE
    <2>1. Fresh
      BY <1>2, <1>3, ServeIs DEF Fetching, LookUp
    <2>2. AnswerInv(p) /\ cache \in Cached /\ clock \in Nat /\ asked[p] \in Nat
      BY <2>1 DEF FxInv, FxType, Fresh
    <2> QED
      BY <1>3, <2>1, <2>2 DEF AnswerInv, Fresh, Cached
  <1> QED
    BY <1>1, <1>2, <1>3 DEF LookUp

(* Every step keeps the invariant.                                         *)
LEMMA FxStep ==
  ASSUME FxInv, FxNext
  PROVE  FxInv'
  <1>1. ASSUME NEW q \in Requests, RateStep(q)
        PROVE  CacheInv' /\ (\A p \in Requests : AnswerInv(p)') /\ OrderInv'
    <2>1. clock' = clock /\ clock \in Nat /\ AnswerInv(q) /\ asked[q] \in Nat
      BY <1>1 DEF RateStep, LookUp, Acquire, Recheck, StartFetch, ProviderAnswers, Store,
           FetchFails, FxInv, FxType
    <2>2. cache' = cache \/ Store(q)
      BY <1>1 DEF RateStep, LookUp, Acquire, Recheck, ProviderAnswers, FetchFails
    <2>3. CacheInv'
      <3>1. CASE cache' = cache
        BY <2>1, <3>1 DEF CacheInv, FxInv
      <3>2. CASE Store(q)
        <4>1. /\ answer[q] \in Answers /\ asked[q] <= answer[q].rate
              /\ clock <= asked[q] + MaxFetch /\ answer[q].rate <= clock
          BY <2>1, <3>2 DEF Store, FxInv, FxType, AnswerInv, Fetching, Answers
        <4> QED
          BY <2>1, <3>2, <4>1 DEF Store, CacheInv, Answers
      <3> QED
        BY <2>2, <3>1, <3>2
    <2>4. AnswerInv(q)'
      <3>1. CASE fpc'[q] = "served"
        <4>1. /\ answer'[q].at = clock /\ answer'[q].rate \in Nat
              /\ answer'[q].rate <= clock /\ clock <= answer'[q].rate + MaxAge
          BY <1>1, <3>1, ServeIs
        <4> QED
          BY <2>1, <3>1, <4>1 DEF AnswerInv, Served, Fetching
      <3>2. CASE fpc'[q] # "served"
        <4>1. CASE LookUp(q) \/ Acquire(q)
          BY <2>1, <3>2, <4>1 DEF LookUp, Acquire, Serve, FxGoto, AnswerInv, Served,
               Fetching, FxInv, FxType
        <4>2. CASE Recheck(q)
          BY <2>1, <3>2, <4>2 DEF Recheck, StartFetch, Fresh, Serve, FxGoto, AnswerInv,
               Served, Fetching, FxInv, FxType, Cached
        <4>3. CASE ProviderAnswers(q)
          BY <2>1, <3>2, <4>3 DEF ProviderAnswers, FxGoto, AnswerInv, Served, Fetching,
               FxInv, FxType
        <4>4. CASE Store(q)
          BY <3>2, <4>4 DEF Store, Serve, FxInv, FxType
        <4>5. CASE FetchFails(q)
          BY <2>1, <3>2, <4>5 DEF FetchFails, Serve, FxGoto, AnswerInv, Served, Fetching,
               FxInv, FxType
        <4> QED
          BY <1>1, <4>1, <4>2, <4>3, <4>4, <4>5 DEF RateStep
      <3> QED
        BY <3>1, <3>2
    <2>5. ASSUME NEW p \in Requests, p # q
          PROVE  AnswerInv(p)'
      BY <1>1, <2>1, <2>5, Alone DEF FxInv, AnswerInv, Served, Fetching
    <2>6. OrderInv'
      <3> SUFFICES ASSUME NEW p \in Requests, Served(p)'
                   PROVE  /\ cache' # None => answer'[p].rate <= cache'.rate
                          /\ \A r \in Requests : fpc'[r] = "store" =>
                               answer'[p].rate <= answer'[r].rate
        BY DEF OrderInv
      <3>1. CASE p = q
        <4>1. answer'[q].rate \in Nat /\ answer'[q].rate = cache'.rate
          BY <1>1, <3>1, ServeIs DEF Served
        <4>2. \A r \in Requests : fpc'[r] # "store"
          <5> SUFFICES ASSUME NEW r \in Requests, fpc'[r] = "store" PROVE FALSE
            OBVIOUS
          <5>1. r # q
            BY <3>1 DEF Served
          <5> QED
            BY <1>1, <3>1, <5>1, Alone DEF Served, Fetching
        <4> QED
          BY <3>1, <4>1, <4>2
      <3>2. CASE p # q
        <4>1. fpc[p] = "served" /\ answer'[p] = answer[p]
          BY <1>1, <3>2, Alone DEF Served
        <4>2. /\ answer[p] \in Answers /\ answer[p].rate <= clock
              /\ cache # None => answer[p].rate <= cache.rate
              /\ \A r \in Requests : fpc[r] = "store" => answer[p].rate <= answer[r].rate
          BY <4>1, <2>1 DEF FxInv, FxType, AnswerInv, OrderInv, Served, Answers
        <4>3. cache' # None => answer'[p].rate <= cache'.rate
          BY <2>2, <4>1, <4>2 DEF Store
        <4>4. ASSUME NEW r \in Requests, fpc'[r] = "store"
              PROVE  answer'[p].rate <= answer'[r].rate
          <5>1. CASE r = q
            <6>1. ProviderAnswers(q)
              BY <1>1, <4>4, <5>1 DEF RateStep, LookUp, Acquire, Recheck, StartFetch,
                   Store, FetchFails, Serve, FxGoto, FxInv, FxType
            <6>2. answer'[q].rate = clock
              BY <6>1 DEF ProviderAnswers, FxInv, FxType
            <6> QED
              BY <4>1, <4>2, <5>1, <6>2
          <5>2. CASE r # q
            BY <1>1, <4>1, <4>2, <4>4, <5>2, Alone
          <5> QED
            BY <5>1, <5>2
        <4> QED
          BY <4>3, <4>4
      <3> QED
        BY <3>1, <3>2
    <2> QED
      BY <2>3, <2>4, <2>5, <2>6
  <1>2. CASE ResetCache
    BY <1>2, FxTypeStep DEF ResetCache, FxInv, CacheInv, AnswerInv, OrderInv, Served,
         Fetching
  <1>3. CASE Tick
    <2>1. clock \in Nat /\ clock' = clock + 1
      BY <1>3 DEF Tick, FxInv, FxType
    <2>2. CacheInv' /\ OrderInv'
      BY <1>3, <2>1 DEF Tick, FxInv, FxType, CacheInv, OrderInv, Served, Cached
    <2>3. ASSUME NEW q \in Requests
          PROVE  AnswerInv(q)'
      <3>1. AnswerInv(q) /\ asked[q] \in Nat /\ answer[q] \in Answers \cup {None}
        BY DEF FxInv, FxType
      <3> QED
        BY <1>3, <2>1, <3>1 DEF Tick, AnswerInv, Served, Fetching, Answers
    <2> QED
      BY <1>3, <2>2, <2>3, FxTypeStep DEF FxInv
  <1> QED
    BY <1>1, <1>2, <1>3, FxTypeStep DEF FxNext, FxInv

-----------------------------------------------------------------------------
(***************************************************************************)
(* Pricing.                                                                *)
(***************************************************************************)
PriceType ==
  price # None =>
    /\ price.tokens \in Nat \ {0} /\ price.rate \in Nat \ {0}
    /\ {price.sent, price.net, price.payout, price.allIn} \subseteq Nat
    /\ price.currency \in PRICEABLE_PAYOUT_CURRENCIES

PriceInv == PriceType /\ TokensExact /\ NothingFromRounding

PricingInv == FxInv /\ PriceInv

(* The rate a request was served is one of the market's.                   *)
LEMMA RateOfType ==
  ASSUME FxInv, NEW q \in Requests, Served(q)
  PROVE  RateOf(q) \in Nat \ {0}
  <1>1. answer[q] \in Answers /\ clock \in 0 .. MaxTime /\ AnswerInv(q)
    BY DEF FxInv, FxType, Served
  <1>2. answer[q].rate \in 0 .. MaxTime
    BY <1>1, MaxAgeFacts DEF AnswerInv, Answers
  <1> QED
    BY <1>2, AmountsAssumption DEF RateOf

(* The tokens of a quote that is priced.                                   *)
LEMMA QuoteTokens ==
  ASSUME NEW a \in Nat, NEW rate \in Nat \ {0}, QuotePriced(a, rate)
  PROVE  /\ net_converted(a) \in Nat
         /\ uctusd_amount(a, rate) \in Nat \ {0}
         /\ TokenValue(uctusd_amount(a, rate), rate) <= RandValue(net_converted(a))
         /\ RandValue(net_converted(a)) < TokenValue(uctusd_amount(a, rate) + 1, rate)
  <1>1. net_converted(a) \in Nat
    BY NetConverted DEF QuotePriced
  <1>2. uctusd_amount(a, rate) > 0
    BY DEF QuotePriced
  <1>3. uctusd_amount(a, rate) = Tokens(net_converted(a), rate)
    BY DEF uctusd_amount
  <1>4. /\ uctusd_amount(a, rate) \in Nat
        /\ TokenValue(uctusd_amount(a, rate), rate) <= RandValue(net_converted(a))
        /\ RandValue(net_converted(a)) < TokenValue(uctusd_amount(a, rate) + 1, rate)
    BY <1>1, <1>3, TokensFacts
  <1> QED
    BY <1>1, <1>2, <1>4

(* A quote is priced as the properties say.                                *)
LEMMA PriceQuoteStep ==
  ASSUME FxInv, NEW q \in Requests, NEW a \in SendAmounts,
         NEW currency \in PRICEABLE_PAYOUT_CURRENCIES, PriceQuote(q, a, currency)
  PROVE  PriceInv'
  <1> DEFINE rate == RateOf(q)
             net  == net_converted(a)
             u    == uctusd_amount(a, rate)
             pay  == payout_amount(u, currency, rate)
             all  == effective_rate(a, rate)
  <1>1. rate \in Nat \ {0} /\ a \in Nat \ {0}
    BY RateOfType, AmountsAssumption DEF PriceQuote
  <1>2. QuotePriced(a, rate)
    BY DEF PriceQuote
  <1> HIDE DEF rate
  <1>3. net \in Nat
    BY <1>1, <1>2, QuoteTokens
  <1>4. /\ u \in Nat \ {0} /\ TokenValue(u, rate) <= RandValue(net)
        /\ RandValue(net) < TokenValue(u + 1, rate)
    BY <1>1, <1>2, QuoteTokens
  <1>5. /\ pay \in Nat /\ PayoutValue(pay, currency, rate) <= TokenValue(u, rate)
        /\ TokenValue(net_uctusd(u), rate) < PayoutValue(pay + 1, currency, rate)
    BY <1>1, <1>2, <1>4, CashOutFacts DEF QuotePriced
  <1>6. all \in Nat /\ rate <= all
    BY <1>1, <1>2, EffectiveRateFacts
  <1>7. PayoutValue(pay, currency, rate) <= RandValue(net)
    <2>1. /\ PayoutValue(pay, currency, rate) \in Int /\ TokenValue(u, rate) \in Int
          /\ RandValue(net) \in Int
      BY <1>1, <1>3, <1>4, <1>5, ScalesAssumption DEF PayoutValue, TokenValue, RandValue,
           PRICEABLE_PAYOUT_CURRENCIES
    <2> QED
      BY <1>4, <1>5, <2>1
  <1>8. price' = [sent |-> a, net |-> net, tokens |-> u, currency |-> currency,
                  rate |-> rate, allIn |-> all, payout |-> pay]
    BY DEF PriceQuote, rate
  <1> HIDE DEF net, u, pay, all
  <1>9. /\ price'.sent = a /\ price'.net = net /\ price'.tokens = u
        /\ price'.currency = currency /\ price'.rate = rate
        /\ price'.allIn = all /\ price'.payout = pay
    BY <1>8
  <1>10. PriceType'
    BY <1>1, <1>3, <1>4, <1>5, <1>6, <1>9 DEF PriceType
  <1>11. TokensExact'
    BY <1>4, <1>9 DEF TokensExact
  <1>12. NothingFromRounding'
    BY <1>5, <1>6, <1>7, <1>9 DEF NothingFromRounding
  <1> QED
    BY <1>10, <1>11, <1>12 DEF PriceInv

(* A cash-out is priced as the properties say.                             *)
LEMMA PriceCashOutStep ==
  ASSUME FxInv, NEW q \in Requests, NEW u \in CashOutAmounts,
         NEW currency \in PRICEABLE_PAYOUT_CURRENCIES, PriceCashOut(q, u, currency)
  PROVE  PriceInv'
  <1> DEFINE rate == RateOf(q)
             pay  == payout_amount(u, currency, rate)
  <1>1. rate \in Nat \ {0} /\ u \in Nat \ {0}
    BY RateOfType, AmountsAssumption DEF PriceCashOut
  <1>2. /\ pay \in Nat /\ PayoutValue(pay, currency, rate) <= TokenValue(u, rate)
        /\ TokenValue(net_uctusd(u), rate) < PayoutValue(pay + 1, currency, rate)
    BY <1>1, CashOutFacts DEF PriceCashOut
  <1>3. price' = [sent |-> 0, net |-> 0, tokens |-> u, currency |-> currency,
                  rate |-> rate, allIn |-> 0, payout |-> pay]
    BY DEF PriceCashOut
  <1> HIDE DEF rate, pay
  <1>4. /\ price'.sent = 0 /\ price'.net = 0 /\ price'.tokens = u
        /\ price'.currency = currency /\ price'.rate = rate
        /\ price'.allIn = 0 /\ price'.payout = pay
    BY <1>3
  <1>5. ~Quoted'
    BY <1>4 DEF Quoted
  <1> QED
    BY <1>1, <1>2, <1>4, <1>5 DEF PriceInv, PriceType, TokensExact, NothingFromRounding

(* Every step keeps the invariant.                                         *)
LEMMA PricingStep ==
  ASSUME PricingInv, [Next]_vars
  PROVE  PricingInv'
  <1>1. CASE FxNext /\ UNCHANGED price
    BY <1>1, FxStep DEF PricingInv, PriceInv, PriceType, TokensExact,
         NothingFromRounding, Quoted
  <1>2. ASSUME UNCHANGED fx
        PROVE  FxInv'
    BY <1>2 DEF fx, PricingInv, FxInv, FxType, CacheInv, AnswerInv, OrderInv, Served,
         Fetching
  <1>3. ASSUME NEW q \in Requests, NEW currency \in PRICEABLE_PAYOUT_CURRENCIES,
               NEW a \in SendAmounts, PriceQuote(q, a, currency)
        PROVE  PricingInv'
    BY <1>2, <1>3, PriceQuoteStep DEF PricingInv, PriceQuote
  <1>4. ASSUME NEW q \in Requests, NEW currency \in PRICEABLE_PAYOUT_CURRENCIES,
               NEW u \in CashOutAmounts, PriceCashOut(q, u, currency)
        PROVE  PricingInv'
    BY <1>2, <1>4, PriceCashOutStep DEF PricingInv, PriceCashOut
  <1>5. CASE UNCHANGED vars
    BY <1>2, <1>5 DEF vars, PricingInv, PriceInv, PriceType, TokensExact,
         NothingFromRounding, Quoted
  <1> QED
    BY <1>1, <1>3, <1>4, <1>5 DEF Next, FxNext

(* It holds in every reachable state.                                      *)
LEMMA PricingInvHolds == Spec => []PricingInv
  <1>1. Init => PricingInv
    BY FxInitInv DEF Init, PricingInv, PriceInv, PriceType, TokensExact,
         NothingFromRounding, Quoted
  <1>2. PricingInv /\ [Next]_vars => PricingInv'
    BY PricingStep
  <1> QED
    BY <1>1, <1>2, PTL DEF Spec

(***************************************************************************)
(* The type invariant holds in every reachable state.                      *)
(***************************************************************************)
THEOREM PricingTypeCorrect == Spec => []TypeOK
  <1>1. PricingInv => TypeOK
    BY DEF PricingInv, FxInv, PriceInv, PriceType, TypeOK
  <1> QED
    BY <1>1, PricingInvHolds, PTL

(***************************************************************************)
(* No request is served a rate that is too old, for any times to live and  *)
(* any number of threads.                                                  *)
(***************************************************************************)
THEOREM FreshEnoughHolds == Spec => []FreshEnough
  <1>1. PricingInv => FreshEnough
    <2> SUFFICES ASSUME PricingInv, NEW q \in Requests, Served(q)
                 PROVE  answer[q].at - answer[q].rate <= MaxAge
      BY DEF FreshEnough
    <2>1. answer[q] \in Answers /\ AnswerInv(q)
      BY DEF PricingInv, FxInv, FxType, Served
    <2> QED
      BY <2>1, MaxAgeFacts DEF AnswerInv, Answers
  <1> QED
    BY <1>1, PricingInvHolds, PTL

(***************************************************************************)
(* The provider is asked only when there is no fresh rate, and by one      *)
(* request at a time.                                                      *)
(***************************************************************************)
THEOREM NoNeedlessFetchHolds == Spec => []NoNeedlessFetch
  <1>1. PricingInv => NoNeedlessFetch
    BY DEF PricingInv, FxInv, AnswerInv, NoNeedlessFetch, Fetching
  <1> QED
    BY <1>1, PricingInvHolds, PTL

(***************************************************************************)
(* The tokens of a quote are worth what was converted, to the last unit,   *)
(* for any amount, rate, fees and scales.                                  *)
(***************************************************************************)
THEOREM TokensExactHolds == Spec => []TokensExact
  <1>1. PricingInv => TokensExact
    BY DEF PricingInv, PriceInv
  <1> QED
    BY <1>1, PricingInvHolds, PTL

(***************************************************************************)
(* No payout is worth more than what was paid for it, and rounding takes   *)
(* less than a cent.                                                       *)
(***************************************************************************)
THEOREM NothingFromRoundingHolds == Spec => []NothingFromRounding
  <1>1. PricingInv => NothingFromRounding
    BY DEF PricingInv, PriceInv
  <1> QED
    BY <1>1, PricingInvHolds, PTL

(***************************************************************************)
(* No request is served an older rate than another one before it.          *)
(***************************************************************************)
THEOREM RatesAdvanceHolds == Spec => RatesAdvance
  <1> DEFINE Advance == \A q \in Requests : ~Served(q) /\ Served(q)' =>
                          \A p \in Requests : Served(p) => answer[p].rate <= answer'[q].rate
  <1>1. PricingInv /\ [Next]_vars => [Advance]_fx
    <2> SUFFICES ASSUME PricingInv, Next, NEW q \in Requests, ~Served(q), Served(q)',
                        NEW p \in Requests, Served(p)
                 PROVE  answer[p].rate <= answer'[q].rate
      BY DEF vars
    <2>1. PICK r \in Requests : RateStep(r)
      <3>1. fpc' # fpc
        BY DEF Served
      <3> QED
        BY <3>1 DEF Next, ResetCache, Tick, PriceQuote, PriceCashOut, fx
    <2>2. r = q
      BY <2>1, Alone DEF PricingInv, Served
    <2>3. /\ answer'[q].rate \in Nat
          /\ \/ cache # None /\ answer'[q].rate = cache.rate
             \/ fpc[q] = "store" /\ answer'[q].rate = answer[q].rate
      BY <2>1, <2>2, ServeIs DEF PricingInv, Served
    <2> QED
      BY <2>3 DEF PricingInv, FxInv, OrderInv
  <1> QED
    BY <1>1, PricingInvHolds, PTL DEF Spec, RatesAdvance
=============================================================================
