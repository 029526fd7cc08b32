------------------------------ MODULE Balances ------------------------------
(***************************************************************************)
(* What the ledger promises its callers, whatever locks and reads it takes *)
(* to keep it: accounts on which a movement is one step, that no two       *)
(* movements mix in, and that a debit is only made on an account that has  *)
(* the money at that moment.  Settlement and CashOut move balances as this *)
(* module does.                                                            *)
(***************************************************************************)
EXTENDS Naturals

CONSTANTS Accounts, Start

VARIABLES
  balance,  \* what each account holds
  credits,  \* movements in, in the history
  debits    \* movements out

vars == <<balance, credits, debits>>

Init ==
  /\ balance = [a \in Accounts |-> Start]
  /\ credits = [a \in Accounts |-> 0]
  /\ debits = [a \in Accounts |-> 0]

Credit(a) ==
  /\ balance' = [balance EXCEPT ![a] = @ + 1]
  /\ credits' = [credits EXCEPT ![a] = @ + 1]
  /\ UNCHANGED debits

Debit(a) ==
  /\ balance[a] > 0
  /\ balance' = [balance EXCEPT ![a] = @ - 1]
  /\ debits' = [debits EXCEPT ![a] = @ + 1]
  /\ UNCHANGED credits

Next == \E a \in Accounts : Credit(a) \/ Debit(a)

Spec == Init /\ [][Next]_vars
=============================================================================
