------------------------------- MODULE Ledger -------------------------------
(***************************************************************************)
(* The internal ledger (services/ledger.py) under concurrent transactions: *)
(* wallets and balance rows that are created on first use, the row lock    *)
(* that serialises movements of one balance, the entries behind a balance  *)
(* with their unique key, and the row of remittances or cash_outs that the *)
(* caller writes in the same transaction.                                  *)
(*                                                                         *)
(* The database is PostgreSQL at READ COMMITTED.  SELECT ... FOR UPDATE    *)
(* waits for the row's lock and then reads what was committed last; an     *)
(* INSERT waits for another transaction's uncommitted row with its key;    *)
(* locks are held to the end of the transaction.  All amounts are one      *)
(* unit.                                                                   *)
(***************************************************************************)
EXTENDS Integers, FiniteSets

CONSTANTS
  Users,
  Currencies,
  Token,       \* the currency that is settled and cashed out, UCTUSD
  Remittances,
  Sender,      \* the sender of each remittance
  Recipient,   \* and its recipient
  CashOuts,    \* by user and Idempotency-Key
  Owner,       \* whose cash-out it is
  Payout,      \* and the currency it is paid in
  Sessions,    \* transactions that can be open at the same time
  Opened,      \* <<user, currency>> of the balance rows that exist already
  Requested,   \* the cash-outs that exist already
  Funds,       \* what each of the opened rows holds
  MaxWrites,   \* bound: transactions that write entries
  None

Rows == Users \X Currencies

\* wallet_transactions by its unique key, remittance, direction and status:
\* a success coming in, a success going out and a failure coming in.
Entries == Remittances \X {"incoming", "outgoing", "failed"}

ASSUME NoSessionAssumption == None \notin Sessions
ASSUME PartiesAssumption ==
  /\ Token \in Currencies
  /\ Sender \in [Remittances -> Users] /\ Recipient \in [Remittances -> Users]
  /\ Owner \in [CashOuts -> Users] /\ Payout \in [CashOuts -> Currencies \ {Token}]
ASSUME OpenedAssumption == Opened \subseteq Rows /\ Requested \subseteq CashOuts
ASSUME TablesAssumption ==
  /\ Users \cap (Rows \cup Entries \cup Remittances \cup CashOuts) = {}
  /\ Rows \cap (Entries \cup Remittances \cup CashOuts) = {}
  /\ Entries \cap (Remittances \cup CashOuts) = {}
  /\ Remittances \cap CashOuts = {}
ASSUME LedgerBoundsAssumption == Funds \in Nat /\ MaxWrites \in Nat

\* The rows that transactions wait for, by their keys.  A wallet is the row
\* of wallets with its user's id.
Keys == Users \cup Rows \cup Entries \cup Remittances \cup CashOuts

(***************************************************************************)
(* The transactions that reach the ledger, and the ones that only write a  *)
(* row that those write too:                                               *)
(*   settle    _record_success of the worker                               *)
(*   refund    refund_failed_remittance                                    *)
(*   fail      _fail of the worker                                         *)
(*   request   request_cash_out                                            *)
(*   complete  complete_cash_out                                           *)
(*   reject    fail_cash_out, by an admin or by the worker                 *)
(*   status    a status that is written by itself: confirmations, claims,  *)
(*             approvals, retries, and what _fail does when the failure is *)
(*             on record already                                           *)
(*   view      GET /wallet                                                 *)
(***************************************************************************)
Settling == {"settle", "refund", "fail"}

Jobs ==
  [kind : Settling, about : Remittances]
    \cup [kind : {"request", "complete", "reject"}, about : CashOuts]
    \cup [kind : {"status"}, about : Remittances \cup CashOuts]
    \cup [kind : {"view"}, about : Users]

VARIABLES
  present,  \* keys of the rows that are committed
  amount,   \* ledger_balances.amount, committed
  incoming, \* committed entries that increased the balance
  outgoing, \* committed entries that decreased it
  lock,     \* the transaction that has the row locked, or has written it
  spc,      \* where each transaction is
  job,      \* what it does
  base      \* the amount it read

tables == <<present, amount, incoming, outgoing>>
vars   == <<tables, lock, spc, job, base>>

SessionPC ==
  {"free", "wallet", "early", "newWallet", "select", "insert", "flush", "payer",
   "newPayer", "record", "row", "commit"}

Init ==
  /\ present = Opened \cup {r[1] : r \in Opened} \cup Remittances \cup Requested
  /\ amount = [r \in Rows |-> IF r \in Opened THEN Funds ELSE 0]
  /\ incoming = [r \in Rows |-> 0]
  /\ outgoing = [r \in Rows |-> 0]
  /\ lock = [k \in Keys |-> None]
  /\ spc = [t \in Sessions |-> "free"]
  /\ job = [t \in Sessions |-> None]
  /\ base = [t \in Sessions |-> 0]

\* Whose wallet a transaction looks up first.
User(t) ==
  CASE job[t].kind \in {"settle", "fail"} -> Recipient[job[t].about]
    [] job[t].kind = "refund" -> Sender[job[t].about]
    [] job[t].kind \in {"request", "complete", "reject"} -> Owner[job[t].about]
    [] OTHER -> job[t].about

\* The balance row that it moves.
Row(t) ==
  <<User(t), IF job[t].kind = "complete" THEN Payout[job[t].about] ELSE Token>>

Moves(j) == j.kind \in {"settle", "request", "complete", "reject"}

Goto(t, pc) == spc' = [spc EXCEPT ![t] = pc]

Free(t, k) == lock[k] \in {None, t}

Take(t, k) == lock' = [lock EXCEPT ![k] = t]

Held(t) == {k \in Keys : lock[k] = t}

\* The bound on transactions that write entries: the movements and the refunds
\* and failures that are committed, and the ones on their way.
Moved == {m \in Rows \X (1 .. MaxWrites) : m[2] <= incoming[m[1]] + outgoing[m[1]]}

Recorded ==
  {e \in present \cap Entries : e[2] = "failed" \/ <<e[1], "outgoing">> \notin present}

Underway == {t \in Sessions : spc[t] # "free" /\ job[t].kind \notin {"status", "view"}}

Room ==
  Cardinality(Moved) + Cardinality(Recorded) + Cardinality(Underway) < MaxWrites

\* request_cash_out has found no cash-out with its key; the others were given
\* the row they write.  Which statuses admit a call is for Settlement and
\* CashOut to say; here it may come at any time, and again.
Begin(t, j) ==
  /\ spc[t] = "free"
  /\ j.kind = "request" => j.about \notin present
  /\ j.kind \in {"complete", "reject", "status"} => j.about \in present
  /\ j.kind \notin {"status", "view"} => Room
  /\ Goto(t, IF j.kind = "status" THEN "row" ELSE "wallet")
  /\ job' = [job EXCEPT ![t] = j]
  /\ UNCHANGED <<tables, lock, base>>

-----------------------------------------------------------------------------
(***************************************************************************)
(* wallet_for: the wallet is selected and, if there is none, inserted in a *)
(* SAVEPOINT.  A transaction sees its own row.  Losing the insert costs    *)
(* nothing: the winner's row is selected.                                  *)
(***************************************************************************)
FindWallet(t, u, from, new, next) ==
  /\ spc[t] = from
  /\ Goto(t, IF u \in present \/ lock[u] = t THEN next ELSE new)
  /\ UNCHANGED <<tables, lock, job, base>>

InsertWallet(t, u, from, next) ==
  /\ spc[t] = from
  /\ Free(t, u)
  /\ IF u \in present THEN UNCHANGED lock ELSE Take(t, u)
  /\ Goto(t, next)
  /\ UNCHANGED <<tables, job, base>>

\* Then the balance row, or an entry that moves none.
AfterWallet(t) ==
  CASE Moves(job[t]) -> "select"
    [] job[t].kind \in {"refund", "fail"} -> "flush"
    [] OTHER -> "commit"

\* A SAVEPOINT flushes what is pending, the FAILED of _fail.
BeforeInsert(t) == IF job[t].kind = "fail" THEN "early" ELSE "newWallet"

FindOwnWallet(t) ==
  FindWallet(t, User(t), "wallet", BeforeInsert(t), AfterWallet(t))

InsertOwnWallet(t) == InsertWallet(t, User(t), "newWallet", AfterWallet(t))

Payer(t) == Sender[job[t].about]

FindPayerWallet(t) == FindWallet(t, Payer(t), "payer", "newPayer", "record")

InsertPayerWallet(t) == InsertWallet(t, Payer(t), "newPayer", "record")

-----------------------------------------------------------------------------
(***************************************************************************)
(* _locked_balance_row.                                                    *)
(***************************************************************************)

\* Mutant of SelectRow: without FOR UPDATE.
SelectRowUnlocked(t) ==
  /\ spc[t] = "select"
  /\ IF Row(t) \in present
       THEN /\ base' = [base EXCEPT ![t] = amount[Row(t)]]
            /\ Goto(t, "flush")
       ELSE Goto(t, "insert") /\ UNCHANGED base
  /\ UNCHANGED <<tables, lock, job>>

\* SELECT ... FOR UPDATE: waits for the lock of a row that is there.
SelectRow(t) ==
  /\ spc[t] = "select"
  /\ IF Row(t) \in present
       THEN /\ Free(t, Row(t))
            /\ Take(t, Row(t))
            /\ base' = [base EXCEPT ![t] = amount[Row(t)]]
            /\ Goto(t, "flush")
       ELSE Goto(t, "insert") /\ UNCHANGED <<lock, base>>
  /\ UNCHANGED <<tables, job>>

\* Whoever has the row has written to it, so that an INSERT of its key waits.
Written(r) == \E s \in Sessions :
  /\ lock[r] = s
  /\ r \notin present \/ spc[s] \in {"payer", "newPayer", "record", "row", "commit"}

\* No row: it is inserted at zero, unless another transaction has inserted
\* it; then it is read again, without FOR UPDATE.
InsertRow(t) ==
  /\ spc[t] = "insert"
  /\ ~Written(Row(t))
  /\ base' = [base EXCEPT ![t] = IF Row(t) \in present THEN amount[Row(t)] ELSE 0]
  /\ IF Row(t) \in present THEN UNCHANGED lock ELSE Take(t, Row(t))
  /\ Goto(t, "flush")
  /\ UNCHANGED <<tables, job>>

-----------------------------------------------------------------------------
(***************************************************************************)
(* The flushes of _write_entry and of the callers.  The statements of one  *)
(* flush come in either order.  An entry of a cash-out has no remittance,  *)
(* and so no key that another's could meet.                                *)
(***************************************************************************)

\* What the flush behind the first entry writes: the new amount, if there is
\* one, the entry, and the FAILED of _fail.
EntryWrites(t) ==
  CASE job[t].kind = "settle" -> {Row(t), <<job[t].about, "incoming">>}
    [] job[t].kind = "refund" -> {<<job[t].about, "incoming">>}
    [] job[t].kind = "fail"   -> {<<job[t].about, "failed">>, job[t].about}
    [] OTHER                  -> {Row(t)}

\* Mutant of Writes: a cash-out moves both of its balances.
WritesBothBalances(t) ==
  CASE spc[t] \in {"early", "row"} -> {job[t].about}
    [] spc[t] = "flush" ->
         IF job[t].kind \in {"request", "complete", "reject"}
           THEN {<<User(t), Token>>, <<User(t), Payout[job[t].about]>>}
           ELSE EntryWrites(t)
    [] spc[t] = "record" -> {<<job[t].about, "outgoing">>}
    [] OTHER -> {}

\* The row of the caller, of cash_outs or remittances, comes last.
Writes(t) ==
  CASE spc[t] \in {"early", "row"} -> {job[t].about}
    [] spc[t] = "flush"  -> EntryWrites(t)
    [] spc[t] = "record" -> {<<job[t].about, "outgoing">>}
    [] OTHER -> {}

AfterEntry(t) ==
  CASE job[t].kind = "settle" -> "payer"
    [] job[t].kind = "fail"   -> "commit"
    [] OTHER -> "row"

AfterFlush(t) ==
  CASE spc[t] = "early"  -> "newWallet"
    [] spc[t] = "flush"  -> AfterEntry(t)
    [] spc[t] = "record" -> "row"
    [] OTHER -> "commit"

\* Mutant of Covered: a debit is not held against the balance.
CoveredAnyway(t) == TRUE

\* _move: a debit is held against what was read.
Covered(t) == spc[t] = "flush" /\ job[t].kind = "request" => base[t] > 0

\* Two entries of one remittance, direction and status, or two cash-outs with
\* one key.
Duplicate(t, k) ==
  k \in present /\ (k \in Entries \/ (k \in CashOuts /\ job[t].kind = "request"))

\* An UPDATE takes the row's lock if the transaction does not have it.
Write(t) ==
  \E k \in Writes(t) :
    /\ Covered(t)
    /\ Free(t, k)
    /\ ~Duplicate(t, k)
    /\ Take(t, k)
    /\ Goto(t, IF Writes(t) \ {k} \subseteq Held(t) THEN AfterFlush(t) ELSE spc[t])
    /\ UNCHANGED <<tables, job, base>>

End(t) ==
  /\ lock' = [k \in Keys |-> IF lock[k] = t THEN None ELSE lock[k]]
  /\ Goto(t, "free")
  /\ job' = [job EXCEPT ![t] = None]
  /\ base' = [base EXCEPT ![t] = 0]

\* IntegrityError: the caller rolls the transaction back.
Violate(t) ==
  /\ \E k \in Writes(t) : Covered(t) /\ Free(t, k) /\ Duplicate(t, k)
  /\ End(t)
  /\ UNCHANGED tables

\* Mutant of Refuse: the transaction is left open.
RefuseAndLeave(t) == ~Covered(t) /\ UNCHANGED vars

\* InsufficientFundsError: so it is here.
Refuse(t) == ~Covered(t) /\ End(t) /\ UNCHANGED tables

Count(f, t, debit) ==
  IF Moves(job[t]) /\ (job[t].kind = "request" <=> debit)
    THEN [f EXCEPT ![Row(t)] = @ + 1] ELSE f

NewAmount(t) == IF job[t].kind = "request" THEN base[t] - 1 ELSE base[t] + 1

Commit(t) ==
  /\ spc[t] = "commit"
  /\ present' = present \cup Held(t)
  /\ amount' = IF Moves(job[t]) THEN [amount EXCEPT ![Row(t)] = NewAmount(t)] ELSE amount
  /\ incoming' = Count(incoming, t, FALSE)
  /\ outgoing' = Count(outgoing, t, TRUE)
  /\ End(t)

\* Anything else that goes wrong in the caller, or a lost connection.
Rollback(t) == spc[t] # "free" /\ End(t) /\ UNCHANGED tables

\* What t waits for s to end for, or may: whether s has updated a row that t
\* wants to insert depends on the order of its flush.
BlockedBy(t, s) ==
  /\ s # t
  /\ \/ spc[t] = "newWallet" /\ lock[User(t)] = s
     \/ spc[t] = "newPayer" /\ lock[Payer(t)] = s
     \/ spc[t] = "select" /\ Row(t) \in present /\ lock[Row(t)] = s
     \/ spc[t] = "insert" /\ lock[Row(t)] = s
     \/ Covered(t) /\ \E k \in Writes(t) : lock[k] = s

\* Transactions that wait for each other in a circle, each for one of them.
Circle(S) ==
  \E next \in [S -> S] :
    /\ \A x \in S : BlockedBy(x, next[x])
    /\ \A y \in S : \E x \in S : next[x] = y

\* A transaction that has waited for deadlock_timeout looks for a circle that
\* it is in, and is ended.
DeadlockVictim(t) ==
  /\ \E S \in SUBSET Sessions : t \in S /\ Circle(S)
  /\ End(t)
  /\ UNCHANGED tables

SessionStep(t) ==
  \/ FindOwnWallet(t) \/ InsertOwnWallet(t) \/ SelectRow(t) \/ InsertRow(t)
  \/ Write(t) \/ Violate(t) \/ Refuse(t) \/ FindPayerWallet(t) \/ InsertPayerWallet(t)
  \/ Commit(t)

-----------------------------------------------------------------------------
Next ==
  \E t \in Sessions :
    \/ \E j \in Jobs : Begin(t, j)
    \/ SessionStep(t) \/ Rollback(t) \/ DeadlockVictim(t)

Spec == Init /\ [][Next]_vars

(***************************************************************************)
(* Liveness: a transaction that was begun runs on, one that waits for a    *)
(* lock gets it in its turn (the database queues the waiters of a lock,    *)
(* hence strong fairness), and a deadlock is found and broken.             *)
(***************************************************************************)
FairSpec ==
  /\ Spec
  /\ \A t \in Sessions : SF_vars(SessionStep(t)) /\ WF_vars(DeadlockVictim(t))

-----------------------------------------------------------------------------
(***************************************************************************)
(* Every variable holds a value of the program's; above all no balance is  *)
(* negative, though a debit may work from an amount that was read without  *)
(* the lock.                                                               *)
(***************************************************************************)
TypeOK ==
  /\ present \subseteq Keys
  /\ amount \in [Rows -> Nat]
  /\ incoming \in [Rows -> Nat]
  /\ outgoing \in [Rows -> Nat]
  /\ lock \in [Keys -> Sessions \cup {None}]
  /\ spc \in [Sessions -> SessionPC]
  /\ job \in [Sessions -> Jobs \cup {None}]
  /\ base \in [Sessions -> Nat]
  /\ \A t \in Sessions : spc[t] # "free" => job[t] \in Jobs

Reconstructible(r, start) == amount[r] = start + incoming[r] - outgoing[r]

(***************************************************************************)
(* "a balance is always reconstructible from history" (WalletTransaction): *)
(* a balance row that has been there from the start is at every moment     *)
(* what its committed entries add up to, however many workers and requests *)
(* move it at once and whichever of them fail.  No movement is lost and    *)
(* none is made twice, and so nobody spends more than came in.             *)
(***************************************************************************)
BalanceReconstructible == \A r \in Opened : Reconstructible(r, Funds)

(***************************************************************************)
(* A caller may take a movement for one step: seen from outside, the       *)
(* lookups, the lock, the arithmetic on an amount that was read earlier,   *)
(* the waiting and the rollbacks behind a row that was there from the      *)
(* start are the accounts of Balances, on which a debit finds the money    *)
(* there when it is committed and not only when it was checked.            *)
(***************************************************************************)
OfOpened(f) == [r \in Opened |-> f[r]]

B == INSTANCE Balances WITH
  Accounts <- Opened,
  Start <- Funds,
  balance <- OfOpened(amount),
  credits <- OfOpened(incoming),
  debits <- OfOpened(outgoing)

ImplementsBalances == B!Spec

(***************************************************************************)
(* Only settlements, their failures and refunds are ever in a deadlock:    *)
(* _record_success looks up the sender's wallet after it has moved the     *)
(* recipient's balance, so that two of them in opposite directions, or one *)
(* and a refund of the same remittance, can wait for each other.  A        *)
(* cash-out takes wallet, balance and cash_outs row in one order whoever   *)
(* works on it, so that no request, payout, rejection, approval or claim,  *)
(* and no GET /wallet, waits in a circle with anyone.                      *)
(***************************************************************************)
OnlySettlementsDeadlock ==
  \A S \in SUBSET Sessions : Circle(S) => \A t \in S : job[t].kind \in Settling

(***************************************************************************)
(* Every transaction ends: refusals give their locks back, and waiting for *)
(* the lock of a row or for another's insert is not for ever.              *)
(***************************************************************************)
TransactionsEnd == \A t \in Sessions : spc[t] # "free" ~> spc[t] = "free"

-----------------------------------------------------------------------------
(***************************************************************************)
(* What the code's comments say, and a run refutes.                        *)
(***************************************************************************)

(***************************************************************************)
(* "Every LedgerBalance movement writes exactly one of these, so a balance *)
(* is always reconstructible from history" (models/wallet.py:104-105): the *)
(* same of every balance row, the ones that are created meanwhile too.     *)
(***************************************************************************)
EveryBalanceReconstructible ==
  \A r \in Rows :
    r \in present => Reconstructible(r, IF r \in Opened THEN Funds ELSE 0)
=============================================================================
