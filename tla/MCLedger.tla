------------------------------ MODULE MCLedger ------------------------------
(***************************************************************************)
(* Instances of Ledger: u1 has used the wallet before, u2 has not.         *)
(***************************************************************************)
EXTENDS Ledger, TLC

CONSTANTS u1, u2, m1, m2, c1, c2, c3, uctusd, usd

OneOpened == {<<u1, uctusd>>}

\* All cash-outs are paid in dollars.
InDollars == [c \in CashOuts |-> usd]

\* The remittances go in opposite directions, and u1 cashes out.
OneEachWay == [m \in Remittances |-> IF m = m1 THEN u2 ELSE u1]
TheOtherWay == [m \in Remittances |-> IF m = m1 THEN u1 ELSE u2]
OfU1 == [c \in CashOuts |-> u1]

\* Both go to u2, who cashes out.
FromU1 == [m \in Remittances |-> u1]
ToU2 == [m \in Remittances |-> u2]
OfU2 == [c \in CashOuts |-> u2]

Symmetric == Permutations(Sessions)
=============================================================================
