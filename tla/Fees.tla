-------------------------------- MODULE Fees --------------------------------
(***************************************************************************)
(* The prices of services/fee_service.py in whole numbers: rand in cents,  *)
(* UCTUSD in its smallest units, an exchange rate (rand per dollar) in its *)
(* smallest units, fees in basis points.  Decimal.quantize is a division   *)
(* that rounds, half up for fees and margin, down for whatever somebody is *)
(* credited with.                                                          *)
(***************************************************************************)
EXTENDS Integers

CONSTANTS
  Cents,       \* of a rand or a dollar: 1 / FIAT_QUANTUM
  Units,       \* of one UCTUSD: 1 / TOKEN_QUANTUM
  RateUnit,    \* 1 / RATE_QUANTUM
  Bps,         \* basis points of the whole: 10 000
  FixedFee,    \* fixed_remittance_fee_zar, in cents
  PercentFee,  \* percent_fee_bps
  Margin,      \* fx_margin_bps
  CashOutFee   \* cashout_fee_bps

ASSUME ScalesAssumption == {Cents, Units, RateUnit, Bps} \subseteq Nat \ {0}
ASSUME FeesAssumption ==
  /\ FixedFee \in Nat
  /\ {PercentFee, Margin, CashOutFee} \subseteq 0 .. Bps

PRICEABLE_PAYOUT_CURRENCIES == {"UCTUSD", "USD", "ZAR"}

\* payout_currencies(): nobody cashes tokens out into tokens.
payout_currencies == PRICEABLE_PAYOUT_CURRENCIES \ {"UCTUSD"}

HalfUp(n, d) == (2 * n + d) \div (2 * d)

transaction_fee(a) == HalfUp(FixedFee * Bps + a * PercentFee, Bps)

fx_margin(a) == HalfUp(a * Margin, Bps)

net_converted(a) == a - transaction_fee(a) - fx_margin(a)

\* Mutant of Tokens: rounded half up like a fee.
TokensHalfUp(net, rate) == HalfUp(net * (Units * RateUnit), Cents * rate)

\* Rand at a rate, in UCTUSD, rounded down.
Tokens(net, rate) == (net * (Units * RateUnit)) \div (Cents * rate)

uctusd_amount(a, rate) == Tokens(net_converted(a), rate)

cash_out_fee(u) == (u * CashOutFee) \div Bps

net_uctusd(u) == u - cash_out_fee(u)

\* Mutant of convert_from_uctusd: rounded up.
convert_up(n, currency, rate) ==
  CASE currency = "UCTUSD" -> n
    [] currency = "USD" -> (n * Cents) \div Units + 1
    [] currency = "ZAR" -> (n * Cents * rate) \div (Units * RateUnit) + 1

\* A dollar is one UCTUSD; fiat is rounded down to cents.
convert_from_uctusd(n, currency, rate) ==
  CASE currency = "UCTUSD" -> n
    [] currency = "USD" -> (n * Cents) \div Units
    [] currency = "ZAR" -> (n * Cents * rate) \div (Units * RateUnit)

payout_amount(u, currency, rate) ==
  convert_from_uctusd(net_uctusd(u), currency, rate)

\* calculate_cash_out_payout prices it, and does not raise AmountTooSmallError.
CashOutPriced(u) == u > 0 /\ net_uctusd(u) > 0

\* Mutant of QuotePriced: only an amount of exactly zero is refused.
QuotePricedUnlessZero(a, rate) == a > 0 /\ uctusd_amount(a, rate) # 0

\* calculate_quote prices it.
QuotePriced(a, rate) ==
  /\ a > 0
  /\ net_converted(a) > 0
  /\ uctusd_amount(a, rate) > 0
  /\ CashOutPriced(uctusd_amount(a, rate))

\* The all-in rate: what one UCTUSD cost the sender, in rate units.
effective_rate(a, rate) ==
  HalfUp(a * (Units * RateUnit), Cents * uctusd_amount(a, rate))
=============================================================================
