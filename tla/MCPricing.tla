----------------------------- MODULE MCPricing -----------------------------
(***************************************************************************)
(* Instances of Pricing: the fees and basis points of app/config.py, with  *)
(* tokens and rates in coarser units so that products fit into TLC's       *)
(* integers, and amounts around the points where a fee swallows the amount *)
(* or a rounding turns.                                                    *)
(***************************************************************************)
EXTENDS Pricing

SomeSends == {1, 2563, 2564, 2565, 2566, 2634, 3000, 3333}

SomeCashOuts == {1, 9, 10, 11, 99, 100, 101, 199, 1049}

Market == [time \in 0 .. MaxTime |-> 1850 - 7 * time]
=============================================================================
