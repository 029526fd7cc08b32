----------------------------- MODULE Withdrawal -----------------------------
(***************************************************************************)
(* What a cash-out promises about the user's money: a unit of the balance  *)
(* is reserved once; every approval of an admin's allows one burn, and     *)
(* ends at most once, in a payout that has a burn of its own behind it or  *)
(* in the unit going back; and a rejection gives the unit back.            *)
(***************************************************************************)
EXTENDS Naturals

CONSTANTS CashOuts, Funds

VARIABLES
  balance,   \* what the user can still reserve
  reserved,  \* cash-outs that a unit was taken from the balance for
  approved,  \* approvals given
  burned,    \* burns made under them
  paid,      \* approvals that ended in a payout
  returned   \* approvals that ended in the unit going back

vars == <<balance, reserved, approved, burned, paid, returned>>

Init ==
  /\ balance = Funds
  /\ reserved = {}
  /\ approved = [c \in CashOuts |-> 0]
  /\ burned = [c \in CashOuts |-> 0]
  /\ paid = [c \in CashOuts |-> 0]
  /\ returned = [c \in CashOuts |-> 0]

Open(c) == paid[c] + returned[c] < approved[c]

Reserve(c) ==
  /\ balance > 0 /\ c \notin reserved
  /\ balance' = balance - 1
  /\ reserved' = reserved \cup {c}
  /\ UNCHANGED <<approved, burned, paid, returned>>

Approve(c) ==
  /\ c \in reserved
  /\ approved' = [approved EXCEPT ![c] = @ + 1]
  /\ UNCHANGED <<balance, reserved, burned, paid, returned>>

Reject(c) ==
  /\ c \in reserved
  /\ balance' = balance + 1
  /\ UNCHANGED <<reserved, approved, burned, paid, returned>>

Burn(c) ==
  /\ Open(c) /\ burned[c] < approved[c]
  /\ burned' = [burned EXCEPT ![c] = @ + 1]
  /\ UNCHANGED <<balance, reserved, approved, paid, returned>>

PayOut(c) ==
  /\ Open(c) /\ paid[c] < burned[c]
  /\ paid' = [paid EXCEPT ![c] = @ + 1]
  /\ UNCHANGED <<balance, reserved, approved, burned, returned>>

GiveBack(c) ==
  /\ Open(c)
  /\ balance' = balance + 1
  /\ returned' = [returned EXCEPT ![c] = @ + 1]
  /\ UNCHANGED <<reserved, approved, burned, paid>>

Next ==
  \E c \in CashOuts :
    Reserve(c) \/ Approve(c) \/ Reject(c) \/ Burn(c) \/ PayOut(c) \/ GiveBack(c)

Spec == Init /\ [][Next]_vars
=============================================================================
