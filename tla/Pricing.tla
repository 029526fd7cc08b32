------------------------------- MODULE Pricing -------------------------------
(***************************************************************************)
(* Requests that are priced: create_quote and request_cash_out first ask   *)
(* fx_rate_service for the rate (FxRate) and then fee_service for the      *)
(* figures (Fees).                                                         *)
(***************************************************************************)
EXTENDS FxRate, Fees

CONSTANTS
  SendAmounts,     \* rand amounts somebody may send, in cents
  CashOutAmounts,  \* UCTUSD amounts somebody may cash out, in units
  RateAt           \* the market: the provider's rate at each time

ASSUME AmountsAssumption ==
  /\ SendAmounts \subseteq Nat \ {0}
  /\ CashOutAmounts \subseteq Nat \ {0}
  /\ RateAt \in [0 .. MaxTime -> Nat \ {0}]

VARIABLE price  \* the last price that was given, or None

vars == <<fx, price>>

Init == FxInit /\ price = None

RateOf(q) == RateAt[answer[q].rate]

\* create_quote with the rate it got.
PriceQuote(q, a, currency) ==
  LET u == uctusd_amount(a, RateOf(q)) IN
  /\ Served(q)
  /\ QuotePriced(a, RateOf(q))
  /\ price' = [sent |-> a, net |-> net_converted(a), tokens |-> u,
               currency |-> currency, rate |-> RateOf(q),
               allIn |-> effective_rate(a, RateOf(q)),
               payout |-> payout_amount(u, currency, RateOf(q))]
  /\ UNCHANGED fx

\* request_cash_out with the rate it got; nothing was sent for it here.
PriceCashOut(q, u, currency) ==
  /\ Served(q)
  /\ CashOutPriced(u)
  /\ currency \in payout_currencies
  /\ price' = [sent |-> 0, net |-> 0, tokens |-> u,
               currency |-> currency, rate |-> RateOf(q), allIn |-> 0,
               payout |-> payout_amount(u, currency, RateOf(q))]
  /\ UNCHANGED fx

Next ==
  \/ \E q \in Requests : RateStep(q) /\ UNCHANGED price
  \/ (ResetCache \/ Tick) /\ UNCHANGED price
  \/ \E q \in Requests, currency \in PRICEABLE_PAYOUT_CURRENCIES :
       \/ \E a \in SendAmounts : PriceQuote(q, a, currency)
       \/ \E u \in CashOutAmounts : PriceCashOut(q, u, currency)

Spec == Init /\ [][Next]_vars

\* A thread runs on, and the provider answers or times out; a request takes
\* the lock once, so that weak fairness is enough to get it.
FairSpec == Spec /\ \A q \in Requests : WF_vars(RateStep(q) /\ UNCHANGED price)

-----------------------------------------------------------------------------
\* The value in rate-scaled units of tokens, and of a payout.
TokenValue(u, rate) == u * (Cents * rate)

RandValue(c) == c * (Units * RateUnit)

PayoutValue(c, currency, rate) ==
  CASE currency = "UCTUSD" -> TokenValue(c, rate)
    [] currency = "USD" -> (c * Units) * rate
    [] currency = "ZAR" -> RandValue(c)

(***************************************************************************)
(* Every variable holds a value of the program's.                          *)
(***************************************************************************)
TypeOK ==
  /\ FxType
  /\ price # None =>
       /\ price.tokens \in Nat \ {0} /\ price.rate \in Nat \ {0}
       /\ {price.sent, price.net, price.payout, price.allIn} \subseteq Nat
       /\ price.currency \in PRICEABLE_PAYOUT_CURRENCIES

Quoted == price # None /\ price.sent > 0

(***************************************************************************)
(* "worse than mid-market by exactly the fee plus the margin, and nothing  *)
(* else" (fee_service): the tokens of a quote are as many as the converted *)
(* rand buys at the rate served, to the last unit and never one more,      *)
(* though fee, margin and tokens are rounded one by one.                   *)
(***************************************************************************)
TokensExact ==
  Quoted =>
    /\ TokenValue(price.tokens, price.rate) <= RandValue(price.net)
    /\ RandValue(price.net) < TokenValue(price.tokens + 1, price.rate)

(***************************************************************************)
(* "the pooled account has to actually cover every claim" (_token): money  *)
(* that is sent and cashed out again at the same rate, in any currency,    *)
(* never comes to more than the rand that was converted, and no cash-out   *)
(* pays more than its tokens are worth; what rounding takes from it beyond *)
(* the fee is less than a cent.  The all-in rate a quote discloses is      *)
(* never better than the market's.                                         *)
(***************************************************************************)
NothingFromRounding ==
  price # None =>
    LET worth(c) == PayoutValue(c, price.currency, price.rate) IN
    /\ worth(price.payout) <= TokenValue(price.tokens, price.rate)
    /\ TokenValue(net_uctusd(price.tokens), price.rate) < worth(price.payout + 1)
    /\ Quoted => /\ worth(price.payout) <= RandValue(price.net)
                 /\ price.rate <= price.allIn
=============================================================================
