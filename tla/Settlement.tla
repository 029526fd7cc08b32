----------------------------- MODULE Settlement -----------------------------
(***************************************************************************)
(* The settlement of remittances: the API handlers that confirm, retry and *)
(* refund a remittance (routers/remittances.py, routers/admin.py with      *)
(* services/cashin_cashout_service.py), the Redis Stream they publish to   *)
(* (services/settlement_queue.py) and the workers that consume it          *)
(* (worker/settlement_worker.py).                                          *)
(*                                                                         *)
(* Handlers and workers share the remittances and wallet_transactions      *)
(* tables and the stream, nothing else.  An action is one database         *)
(* transaction, one Redis command or one XRPL submission; what a handler   *)
(* has read is kept in its own variables until it uses it.  The ORM writes *)
(* a changed column with UPDATE ... WHERE id = ?, so a handler's write     *)
(* lands whatever the row has become since it was read; only the worker's  *)
(* claim compares the status it replaces.                                  *)
(***************************************************************************)
EXTENDS ConsumerGroup

CONSTANTS
  Remittances,    \* rows of the remittances table, quoted and not paid in yet
  Requests,       \* API requests that can be in progress at the same time
  MaxFaults,      \* bound: crashes, lost connections and lost answers
  MaxPaid         \* bound: on-chain payments of one remittance are counted up to it

ASSUME NoRemittanceAssumption == None \notin Remittances
ASSUME BoundsAssumption == MaxFaults \in Nat /\ MaxPaid \in Nat \ {0}

RemittanceStatus ==
  {"QUOTED", "CASH_IN_CONFIRMED", "QUEUED", "SETTLING", "SETTLED", "FAILED",
   "REFUNDED"}

CLAIMABLE == {"CASH_IN_CONFIRMED", "QUEUED"}

\* Mutant of RECLAIMABLE: a redelivered message is claimed like a new one.
RECLAIMABLEWithoutSettling == CLAIMABLE

RECLAIMABLE == CLAIMABLE \cup {"SETTLING"}

(***************************************************************************)
(* The wallet_transactions rows a remittance can have, and the columns of  *)
(* uq_wallet_tx_remittance_direction_status each kind fills in.            *)
(***************************************************************************)
EntryKinds == {"credit", "refund", "sent", "failed"}

\* Mutant of UniqueKey: a refund is recorded under a direction of its own.
UniqueKeyOfRefund(kind) ==
  CASE kind = "credit" -> <<"incoming", "success">>
    [] kind = "refund" -> <<"refund", "success">>
    [] kind = "sent"   -> <<"outgoing", "success">>
    [] kind = "failed" -> <<"incoming", "failed">>

UniqueKey(kind) ==
  CASE kind = "credit" -> <<"incoming", "success">>  \* recipient's UCTUSD
    [] kind = "refund" -> <<"incoming", "success">>  \* sender's ZAR comes back
    [] kind = "sent"   -> <<"outgoing", "success">>  \* sender's ZAR went out
    [] kind = "failed" -> <<"incoming", "failed">>   \* recipient sees the attempt

VARIABLES
  status,     \* remittances.status
  confirmed,  \* remittances.cash_in_confirmed_at is set
  entries,    \* kinds of wallet_transactions rows of the remittance
  credits,    \* times the recipient's balance was credited for it
  refunds,    \* times the sender was given the rand back for it
  paid,       \* validated XRPL payments made for it
  rpc,        \* where each API request is
  rem,        \* the remittance a request is about
  seen,       \* the status queue_for_settlement loaded
  faults      \* faults so far

rows    == <<status, confirmed, entries, credits, refunds>>
request == <<rpc, rem, seen>>
vars    == <<rows, paid, redis, worker, request, faults>>

WorkerPC == {"down", "idle", "claim", "submit", "record", "fail", "ack"}

RequestPC == {"free", "confirm", "requeue", "refund", "queue", "publish", "mark"}

Init ==
  /\ status = [r \in Remittances |-> "QUOTED"]
  /\ confirmed = [r \in Remittances |-> FALSE]
  /\ entries = [r \in Remittances |-> {}]
  /\ credits = [r \in Remittances |-> 0]
  /\ refunds = [r \in Remittances |-> 0]
  /\ paid = [r \in Remittances |-> 0]
  /\ GroupInit
  /\ rpc = [q \in Requests |-> "free"]
  /\ rem = [q \in Requests |-> None]
  /\ seen = [q \in Requests |-> None]
  /\ faults = 0

Fault == faults < MaxFaults /\ faults' = faults + 1

SetStatus(r, s) == status' = [status EXCEPT ![r] = s]

\* Mutant of Insertable: the constraint is unique per wallet as well.
InsertablePerWallet(r, kind) == kind \notin entries[r]

(***************************************************************************)
(* The unique constraint: a row may be inserted if no row of the same      *)
(* remittance has its direction and status.                                *)
(***************************************************************************)
Insertable(r, kind) == \A k \in entries[r] : UniqueKey(k) # UniqueKey(kind)

-----------------------------------------------------------------------------
(***************************************************************************)
(* API requests.  A request reads the row, decides, and writes in a later  *)
(* step.  A refused request (wrong status, expired quote, unregistered     *)
(* recipient) changes nothing and has no action.                           *)
(***************************************************************************)
Goto(q, pc) == rpc' = [rpc EXCEPT ![q] = pc]

Begin(q, r, pc) ==
  /\ rpc[q] = "free"
  /\ Goto(q, pc)
  /\ rem' = [rem EXCEPT ![q] = r]
  /\ UNCHANGED <<rows, paid, redis, worker, seen, faults>>

Finish(q) ==
  /\ Goto(q, "free")
  /\ rem' = [rem EXCEPT ![q] = None]
  /\ seen' = [seen EXCEPT ![q] = None]

\* The bound: a request that may publish is only taken on if it will be able to.
Room ==
  Len(stream) + Cardinality({q \in Requests :
                  rpc[q] \in {"confirm", "requeue", "queue", "publish"}}) < MaxEntries

\* confirm-cash-in or confirm-payment finds a quote that may be paid in.
ReadQuoted(q, r) == status[r] = "QUOTED" /\ Room /\ Begin(q, r, "confirm")

\* Either endpoint finds it already confirmed: nothing to write, publish again.
ReadConfirmed(q, r) == status[r] \in CLAIMABLE /\ Room /\ Begin(q, r, "queue")

\* confirm-payment finds a settlement that failed.
ReadFailed(q, r) ==
  status[r] = "FAILED" /\ confirmed[r] /\ Room /\ Begin(q, r, "requeue")

\* refund finds a settlement that failed.
ReadRefundable(q, r) ==
  status[r] = "FAILED" /\ confirmed[r] /\ Begin(q, r, "refund")

\* simulate_cash_in writes and the handler commits.
CommitCashIn(q) ==
  /\ rpc[q] = "confirm"
  /\ SetStatus(rem[q], "CASH_IN_CONFIRMED")
  /\ confirmed' = [confirmed EXCEPT ![rem[q]] = TRUE]
  /\ Goto(q, "queue")
  /\ UNCHANGED <<entries, credits, refunds, paid, redis, worker, rem, seen, faults>>

\* requeue_failed_remittance writes and the handler commits.
CommitRequeue(q) ==
  /\ rpc[q] = "requeue"
  /\ SetStatus(rem[q], "CASH_IN_CONFIRMED")
  /\ Goto(q, "queue")
  /\ UNCHANGED <<confirmed, entries, credits, refunds, paid, redis, worker,
                 rem, seen, faults>>

\* Mutant of CommitRefund: the status is committed although the entry is not.
CommitRefundStatusAnyway(q) ==
  /\ rpc[q] = "refund"
  /\ SetStatus(rem[q], "REFUNDED")
  /\ IF Insertable(rem[q], "refund")
       THEN /\ entries' = [entries EXCEPT ![rem[q]] = @ \cup {"refund"}]
            /\ refunds' = [refunds EXCEPT ![rem[q]] = @ + 1]
       ELSE UNCHANGED <<entries, refunds>>
  /\ Finish(q)
  /\ UNCHANGED <<confirmed, credits, paid, redis, worker, faults>>

\* refund_failed_remittance writes the entry and the status and the handler
\* commits; a violation of the unique constraint rolls both back.
CommitRefund(q) ==
  /\ rpc[q] = "refund"
  /\ IF Insertable(rem[q], "refund")
       THEN /\ entries' = [entries EXCEPT ![rem[q]] = @ \cup {"refund"}]
            /\ refunds' = [refunds EXCEPT ![rem[q]] = @ + 1]
            /\ SetStatus(rem[q], "REFUNDED")
       ELSE UNCHANGED <<entries, refunds, status>>
  /\ Finish(q)
  /\ UNCHANGED <<confirmed, credits, paid, redis, worker, faults>>

\* Mutant of LoadForQueue: the status is not checked again.
LoadForQueueUnchecked(q) ==
  /\ rpc[q] = "queue"
  /\ Goto(q, "publish")
  /\ seen' = [seen EXCEPT ![q] = status[rem[q]]]
  /\ UNCHANGED <<rows, paid, redis, worker, rem, faults>>

\* queue_for_settlement loads the row again, the commit having expired it,
\* and refuses (CashInStateError) a remittance that is no longer waiting.
LoadForQueue(q) ==
  /\ rpc[q] = "queue"
  /\ IF status[rem[q]] \in CLAIMABLE
       THEN /\ Goto(q, "publish")
            /\ seen' = [seen EXCEPT ![q] = status[rem[q]]]
            /\ UNCHANGED rem
       ELSE Finish(q)
  /\ UNCHANGED <<rows, paid, redis, worker, faults>>

\* The message is published.
Publish(q) ==
  /\ rpc[q] = "publish"
  /\ XAdd(rem[q])
  /\ Goto(q, "mark")
  /\ UNCHANGED <<rows, paid, rem, seen, faults>>

\* XADD fails: SettlementPublishError, answered with queued=False.
PublishFails(q) ==
  /\ rpc[q] = "publish"
  /\ Fault
  /\ Finish(q)
  /\ UNCHANGED <<rows, paid, redis, worker>>

\* The QUEUED write of queue_for_settlement is committed; setting a column
\* to the value that was loaded writes nothing.
CommitQueued(q) ==
  /\ rpc[q] = "mark"
  /\ IF seen[q] = "QUEUED" THEN UNCHANGED status ELSE SetStatus(rem[q], "QUEUED")
  /\ Finish(q)
  /\ UNCHANGED <<confirmed, entries, credits, refunds, paid, redis, worker, faults>>

\* The API process dies, or the database does, in the middle of a request.
RequestDies(q) ==
  /\ rpc[q] # "free"
  /\ Fault
  /\ Finish(q)
  /\ UNCHANGED <<rows, paid, redis, worker>>

RequestStep(q) ==
  \/ CommitCashIn(q) \/ CommitRequeue(q) \/ CommitRefund(q)
  \/ LoadForQueue(q) \/ Publish(q) \/ CommitQueued(q)

-----------------------------------------------------------------------------
(***************************************************************************)
(* The consume loop.                                                       *)
(***************************************************************************)
Elsewhere == <<rows, paid, request, faults>>

ReadNew(w) == FetchNew(w) /\ UNCHANGED Elsewhere

ReclaimStale(w) == FetchStale(w) /\ UNCHANGED Elsewhere

ReadPending(w) == FetchPending(w) /\ UNCHANGED Elsewhere

-----------------------------------------------------------------------------
(***************************************************************************)
(* Settling one remittance.                                                *)
(***************************************************************************)
Claimable(w) == IF reclaimed(w) THEN RECLAIMABLE ELSE CLAIMABLE

\* The compare-and-swap of _claim succeeds.
Claim(w) ==
  /\ Step(w, "claim", "submit")
  /\ status[Current(w)] \in Claimable(w)
  /\ SetStatus(Current(w), "SETTLING")
  /\ UNCHANGED <<confirmed, entries, credits, refunds, paid, request, faults>>

\* It does not: SKIPPED, which acks.
Skip(w) ==
  /\ Step(w, "claim", "ack")
  /\ status[Current(w)] \notin Claimable(w)
  /\ UNCHANGED <<rows, paid, request, faults>>

Pay(r) == paid' = [paid EXCEPT ![r] = IF @ < MaxPaid THEN @ + 1 ELSE @]

\* Mutant of Submit: the hash is returned before the payment is validated.
SubmitWithoutWait(w) ==
  /\ Step(w, "submit", "record")
  /\ Pay(Current(w)) \/ UNCHANGED paid
  /\ UNCHANGED <<rows, request, faults>>

\* send_pooled_payment returns a hash: the payment is validated.
Submit(w) ==
  /\ Step(w, "submit", "record")
  /\ Pay(Current(w))
  /\ UNCHANGED <<rows, request, faults>>

\* XRPLTransactionError: the ledger rejected it.
SubmitRejected(w) ==
  /\ Step(w, "submit", "fail")
  /\ UNCHANGED <<rows, paid, request, faults>>

\* Any other exception, such as a timeout, after the payment went out.
SubmitUnanswered(w) ==
  /\ Fault
  /\ Step(w, "submit", "fail")
  /\ Pay(Current(w))
  /\ UNCHANGED <<rows, request>>

\* _fail: FAILED whatever the status is by now, and an entry for the
\* recipient if they were resolved.  The unique constraint keeps one such
\* entry; the handler of its violation writes FAILED all the same.
WriteFailed(r, resolved) ==
  /\ SetStatus(r, "FAILED")
  /\ entries' = [entries EXCEPT ![r] = IF resolved THEN @ \cup {"failed"} ELSE @]
  /\ UNCHANGED <<confirmed, credits, refunds>>

\* The recipient or a pool wallet is not found.
ResolveFails(w) ==
  /\ Step(w, "submit", "ack")
  /\ \E resolved \in BOOLEAN : WriteFailed(Current(w), resolved)
  /\ UNCHANGED <<paid, request, faults>>

Fail(w) ==
  /\ Step(w, "fail", "ack")
  /\ WriteFailed(Current(w), TRUE)
  /\ UNCHANGED <<paid, request, faults>>

\* _record_success: credit, the sender's entry and the status, in one
\* transaction.
RecordSuccess(w) ==
  /\ Step(w, "record", "ack")
  /\ Insertable(Current(w), "credit") /\ Insertable(Current(w), "sent")
  /\ entries' = [entries EXCEPT ![Current(w)] = @ \cup {"credit", "sent"}]
  /\ credits' = [credits EXCEPT ![Current(w)] = @ + 1]
  /\ SetStatus(Current(w), "SETTLED")
  /\ UNCHANGED <<confirmed, refunds, paid, request, faults>>

\* _record_success is rolled back, by the unique constraint or by a fault:
\* SettlementError, and handle() returns without an ack.
RecordFails(w) ==
  /\ wpc[w] = "record"
  /\ \/ /\ ~(Insertable(Current(w), "credit") /\ Insertable(Current(w), "sent"))
        /\ UNCHANGED faults
     \/ Fault
  /\ LeaveUnacked(w)
  /\ UNCHANGED <<rows, paid, request>>

Acknowledge(w) == Ack(w) /\ UNCHANGED Elsewhere

\* An exception of the database or of Redis.
LoopError(w) ==
  /\ wpc[w] \in {"claim", "submit", "fail", "ack"}
  /\ Fault
  /\ Escape(w)
  /\ UNCHANGED <<rows, paid, request>>

Crash(w) == Die(w) /\ Fault /\ UNCHANGED <<rows, paid, request>>

WorkerStep(w) ==
  \/ ReadNew(w) \/ ReclaimStale(w)
  \/ Claim(w) \/ Skip(w) \/ Submit(w) \/ SubmitRejected(w) \/ ResolveFails(w)
  \/ Fail(w) \/ RecordSuccess(w) \/ RecordFails(w) \/ Acknowledge(w)

-----------------------------------------------------------------------------
Next ==
  \/ \E q \in Requests, r \in Remittances :
       ReadQuoted(q, r) \/ ReadConfirmed(q, r) \/ ReadFailed(q, r)
         \/ ReadRefundable(q, r)
  \/ \E q \in Requests : RequestStep(q) \/ PublishFails(q) \/ RequestDies(q)
  \/ \E w \in Workers :
       WorkerStep(w) \/ SubmitUnanswered(w) \/ LoopError(w) \/ Crash(w)
         \/ ReadPending(w)

Spec == Init /\ [][Next]_vars

(***************************************************************************)
(* Liveness.  A worker that is alive keeps running its loop: it takes a    *)
(* step that stays possible, and the XRPL answers one way or the other.  A *)
(* request that was started runs on unless it dies.  Nobody is obliged to  *)
(* send a request, to start a dead worker again, or to cause a fault.      *)
(***************************************************************************)
FairSpec ==
  /\ Spec
  /\ \A w \in Workers : WF_vars(WorkerStep(w))
  /\ \A q \in Requests : WF_vars(RequestStep(q))

-----------------------------------------------------------------------------
RowsType ==
  /\ status \in [Remittances -> RemittanceStatus]
  /\ confirmed \in [Remittances -> BOOLEAN]
  /\ entries \in [Remittances -> SUBSET EntryKinds]
  /\ credits \in [Remittances -> Nat]
  /\ refunds \in [Remittances -> Nat]
  /\ paid \in [Remittances -> 0 .. MaxPaid]

RedisType == StreamType(Remittances)

WorkerType == ConsumerType(WorkerPC)

RequestType ==
  /\ rpc \in [Requests -> RequestPC]
  /\ rem \in [Requests -> Remittances \cup {None}]
  /\ seen \in [Requests -> CLAIMABLE \cup {None}]
  /\ \A q \in Requests : rpc[q] # "free" => rem[q] \in Remittances

(***************************************************************************)
(* Every variable holds a value of the program's: statuses of              *)
(* RemittanceStatus, stream entries that name a remittance, a delivered    *)
(* position inside the stream, entries in a worker's hands that were       *)
(* delivered, and a remittance for every request in progress.              *)
(***************************************************************************)
TypeOK ==
  /\ RowsType
  /\ RedisType
  /\ WorkerType
  /\ RequestType
  /\ faults \in 0 .. MaxFaults

(***************************************************************************)
(* A remittance is paid out once: whatever is delivered twice, overwritten *)
(* or retried, the recipient is credited at most once, the sender is       *)
(* refunded at most once, and never both.  The recipient's credit in       *)
(* _record_success and the sender's refund in refund_failed_remittance     *)
(* both need the one (incoming, success) row of the remittance.            *)
(***************************************************************************)
PaidOutOnce == \A r \in Remittances : credits[r] + refunds[r] <= 1

(***************************************************************************)
(* Nothing is paid out that was not paid in: a remittance has an on-chain  *)
(* payment, a credit or a refund only after its cash-in was confirmed, and *)
(* a credit only after a validated payment moved the tokens behind it      *)
(* (_settle submits before _record_success credits).                       *)
(***************************************************************************)
PayoutCovered ==
  \A r \in Remittances :
    /\ paid[r] + refunds[r] > 0 => confirmed[r]
    /\ credits[r] <= paid[r]

(***************************************************************************)
(* The two statuses that end a remittance tell the truth about it, though  *)
(* any handler may write over them: SETTLED is only ever shown for a       *)
(* remittance that was credited, REFUNDED for one that was refunded and    *)
(* not credited.                                                           *)
(***************************************************************************)
FinalStatusTrue ==
  \A r \in Remittances :
    /\ status[r] = "SETTLED" => credits[r] = 1
    /\ status[r] = "REFUNDED" => refunds[r] = 1 /\ credits[r] = 0

(***************************************************************************)
(* A remittance that is SETTLING has a message that is not acked, so that  *)
(* a worker can still pick it up whoever died: the stranded remittance     *)
(* that RECLAIMABLE was widened for cannot come back.  Needs               *)
(* settlement_reclaim_idle_ms to outlast every settlement.                 *)
(***************************************************************************)
SettlingHasMessage ==
  \A r \in Remittances : status[r] = "SETTLING" =>
    \E e \in Pending : stream[e] = r

(***************************************************************************)
(* A message does its work: a remittance that was not paid out yet and has *)
(* a message nobody has read, or is SETTLING, is settled, failed or        *)
(* refunded in the end.  The surviving worker's _reclaim_abandoned takes   *)
(* over what a dead one had in hand, and a lost connection, a lost answer  *)
(* or a rolled back record is made up for.                                 *)
(***************************************************************************)
Unread(r) == \E e \in delivered + 1 .. Len(stream) : stream[e] = r

MessageResolves ==
  \A r \in Remittances :
    credits[r] + refunds[r] = 0 /\ (Unread(r) \/ status[r] = "SETTLING")
      ~> status[r] \in {"SETTLED", "FAILED", "REFUNDED"}

(***************************************************************************)
(* Settlement implements Payout: through every race and redelivery the     *)
(* rows, the balance and the chain move the way Payout allows.  An outcome *)
(* outside Payout's, such as a second credit, maps to "overpaid".          *)
(***************************************************************************)
Outcome(r) ==
  CASE credits[r] = 0 /\ refunds[r] = 0 -> "open"
    [] credits[r] = 1 /\ refunds[r] = 0 -> "credited"
    [] credits[r] = 0 /\ refunds[r] = 1 -> "refunded"
    [] OTHER -> "overpaid"

P == INSTANCE Payout WITH
       funded <- {r \in Remittances : confirmed[r]},
       backed <- {r \in Remittances : paid[r] > 0},
       outcome <- [r \in Remittances |-> Outcome(r)]

ImplementsPayout == P!Spec

(***************************************************************************)
(* "At-least-once delivery: a message stays pending until it is acked" and *)
(* "competing consumers" (settlement_queue.py:10-13): over restarts, lost  *)
(* workers, reclaims of what a slow worker still has in hand and           *)
(* exceptions in the middle of a batch, the queue and the loops that read  *)
(* it deliver as Delivery says.                                            *)
(***************************************************************************)
D == INSTANCE Delivery WITH
  Messages <- Remittances, Consumers <- Workers,
  sent <- stream, given <- delivered, open <- Pending, hands <- todo

ImplementsDelivery == D!Spec

-----------------------------------------------------------------------------
(***************************************************************************)
(* What the code's comments and documents say, and the runs refute.        *)
(***************************************************************************)

(***************************************************************************)
(* One on-chain payment per remittance: "submitted once per remittance"    *)
(* (worker/settlement_worker.py:16), "Everything past here runs at most    *)
(* once" (:271).                                                           *)
(***************************************************************************)
SubmittedOnce == \A r \in Remittances : paid[r] <= 1
=============================================================================
