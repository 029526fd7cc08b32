------------------------------- MODULE Payout -------------------------------
(***************************************************************************)
(* What settlement promises about the money of a remittance, whatever the  *)
(* queue, the workers and the handlers go through to keep it: rand comes   *)
(* in, tokens move on chain, and then the recipient is credited, or the    *)
(* rand goes back; one of the two, once.                                   *)
(***************************************************************************)
CONSTANT Remittances

VARIABLES
  funded,   \* remittances whose rand has come in
  backed,   \* remittances that tokens have moved to the payout pool for
  outcome   \* who got the money of each in the end

vars == <<funded, backed, outcome>>

Init ==
  /\ funded = {}
  /\ backed = {}
  /\ outcome = [r \in Remittances |-> "open"]

PayIn(r) ==
  /\ funded' = funded \cup {r}
  /\ UNCHANGED <<backed, outcome>>

MoveTokens(r) ==
  /\ r \in funded
  /\ backed' = backed \cup {r}
  /\ UNCHANGED <<funded, outcome>>

Credit(r) ==
  /\ r \in backed /\ outcome[r] = "open"
  /\ outcome' = [outcome EXCEPT ![r] = "credited"]
  /\ UNCHANGED <<funded, backed>>

Refund(r) ==
  /\ r \in funded /\ outcome[r] = "open"
  /\ outcome' = [outcome EXCEPT ![r] = "refunded"]
  /\ UNCHANGED <<funded, backed>>

Next ==
  \E r \in Remittances : PayIn(r) \/ MoveTokens(r) \/ Credit(r) \/ Refund(r)

Spec == Init /\ [][Next]_vars
=============================================================================
