------------------------------ MODULE MCCashOut ------------------------------
(***************************************************************************)
(* CashOut on small instances.                                             *)
(***************************************************************************)
EXTENDS CashOut, TLC

\* Cash-outs, workers and requests are interchangeable; used by the runs
\* that check no liveness.
Symmetric ==
  Permutations(CashOuts) \cup Permutations(Workers) \cup Permutations(Requests)

\* Bound of CashOutRaces: the race of the cash-outs for the balance is
\* explored without faults, every fault with one cash-out that was debited.
FaultsWithOne == faults > 0 => Cardinality({c \in CashOuts : debits[c] > 0}) <= 1
=============================================================================
