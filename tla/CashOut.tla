------------------------------- MODULE CashOut -------------------------------
(***************************************************************************)
(* A recipient cashing out: the request that reserves UCTUSD               *)
(* (routers/wallet.py), the admin who approves or rejects it               *)
(* (routers/admin.py), both over services/cashin_cashout_service.py, and   *)
(* the worker that burns the tokens and then pays the fiat                 *)
(* (SettlementWorker.burn_cash_out).                                       *)
(*                                                                         *)
(* A cash-out is named by the Idempotency-Key of its request, and is of    *)
(* one unit; all of them are of one user.  A movement of the balance and   *)
(* the status that goes with it are one transaction, which holds the       *)
(* balance row's lock.  Nothing ties a refund or a payout to its cash-out  *)
(* in a unique constraint: their ledger entries have no remittance_id.     *)
(***************************************************************************)
EXTENDS ConsumerGroup

CONSTANTS
  CashOuts,    \* idempotency keys
  Requests,    \* API requests that can be in progress at the same time
  Funds,       \* the user's UCTUSD at the start
  FaultKinds,  \* the faults that can happen, of AllFaults
  MaxFaults    \* bound: how many of them

AllFaults == {"publish", "request", "answer", "record", "loop", "crash"}

ASSUME NoCashOutAssumption == None \notin CashOuts
ASSUME CashOutBoundsAssumption ==
  Funds \in Nat /\ MaxFaults \in Nat /\ FaultKinds \subseteq AllFaults

\* NONE: no row with this key yet.
CashOutStatus ==
  {"NONE", "REQUESTED", "APPROVED", "PROCESSING", "COMPLETED", "FAILED"}

VARIABLES
  status,   \* cash_outs.status
  balance,  \* the user's ledger balance of UCTUSD
  debits,   \* times the balance was debited for it
  refunds,  \* times its UCTUSD was credited back
  burned,   \* validated XRPL burns made for it
  fiat,     \* times its payout was credited
  approvals,  \* history: times APPROVED was written
  rejections, \* history: times a rejection was
  overwritten, \* history: cash-outs with a decision written over a later status
  rpc,      \* where each API request is
  ref,      \* the cash-out a request is about
  faults    \* faults so far

rows    == <<status, balance, debits, refunds, fiat, approvals, rejections, overwritten>>
request == <<rpc, ref>>
vars    == <<rows, burned, redis, worker, request, faults>>

WorkerPC == {"down", "idle", "claim", "burn", "complete", "fail", "refund", "ack"}

RequestPC == {"free", "debit", "approve", "reject", "queue", "publish"}

Init ==
  /\ status = [c \in CashOuts |-> "NONE"]
  /\ balance = Funds
  /\ debits = [c \in CashOuts |-> 0]
  /\ refunds = [c \in CashOuts |-> 0]
  /\ burned = [c \in CashOuts |-> 0]
  /\ fiat = [c \in CashOuts |-> 0]
  /\ approvals = [c \in CashOuts |-> 0]
  /\ rejections = [c \in CashOuts |-> 0]
  /\ overwritten = {}
  /\ GroupInit
  /\ rpc = [q \in Requests |-> "free"]
  /\ ref = [q \in Requests |-> None]
  /\ faults = 0

Fault(kind) == kind \in FaultKinds /\ faults < MaxFaults /\ faults' = faults + 1

SetStatus(c, s) == status' = [status EXCEPT ![c] = s]

-----------------------------------------------------------------------------
(***************************************************************************)
(* API requests.  As in Settlement, a request reads the row, decides, and  *)
(* writes in a later step; a refused one has no action.                    *)
(***************************************************************************)
Goto(q, pc) == rpc' = [rpc EXCEPT ![q] = pc]

Begin(q, c, pc) ==
  /\ rpc[q] = "free"
  /\ Goto(q, pc)
  /\ ref' = [ref EXCEPT ![q] = c]
  /\ UNCHANGED <<rows, burned, redis, worker, faults>>

Finish(q) == Goto(q, "free") /\ ref' = [ref EXCEPT ![q] = None]

\* The bound: a request that may publish is only taken on if it will be able to.
Room ==
  Len(stream) + Cardinality({q \in Requests :
                  rpc[q] \in {"approve", "queue", "publish"}}) < MaxEntries

\* request_cash_out finds no row with its key; if it finds one it replays it.
ReadNewKey(q, c) == status[c] = "NONE" /\ Begin(q, c, "debit")

\* approve finds a requested cash-out.
ReadRequested(q, c) == status[c] = "REQUESTED" /\ Room /\ Begin(q, c, "approve")

\* approve finds it approved: nothing to write, publish again.
ReadApproved(q, c) == status[c] = "APPROVED" /\ Room /\ Begin(q, c, "publish")

\* reject finds one that is not with the worker yet.
ReadRejectable(q, c) ==
  status[c] \in {"REQUESTED", "APPROVED"} /\ Begin(q, c, "reject")

Reserve(c) ==
  /\ balance' = balance - 1
  /\ debits' = [debits EXCEPT ![c] = @ + 1]
  /\ SetStatus(c, "REQUESTED")

\* Mutant of CommitDebit: idempotency_key is not unique.
CommitDebitAgain(q) ==
  /\ rpc[q] = "debit"
  /\ \/ balance > 0 /\ Reserve(ref[q])
     \/ balance = 0 /\ UNCHANGED <<status, balance, debits>>
  /\ Finish(q)
  /\ UNCHANGED <<refunds, fiat, approvals, rejections, overwritten, burned, redis,
                 worker, faults>>

\* Mutant of CommitDebit: Ledger.debit does not look at the balance.
CommitDebitUnfunded(q) ==
  /\ rpc[q] = "debit"
  /\ \/ status[ref[q]] = "NONE" /\ Reserve(ref[q])
     \/ status[ref[q]] # "NONE" /\ UNCHANGED <<status, balance, debits>>
  /\ Finish(q)
  /\ UNCHANGED <<refunds, fiat, approvals, rejections, overwritten, burned, redis,
                 worker, faults>>

\* The debit and the row are committed together, or neither is: Ledger.debit
\* refuses (InsufficientFundsError), or the key was inserted in the meantime
\* (IntegrityError).
CommitDebit(q) ==
  /\ rpc[q] = "debit"
  /\ \/ balance > 0 /\ status[ref[q]] = "NONE" /\ Reserve(ref[q])
     \/ /\ balance = 0 \/ status[ref[q]] # "NONE"
        /\ UNCHANGED <<status, balance, debits>>
  /\ Finish(q)
  /\ UNCHANGED <<refunds, fiat, approvals, rejections, overwritten, burned, redis,
                 worker, faults>>

\* Whether the decision, which compares nothing, finds the status it was for.
Overwrite(c, for) ==
  overwritten' = IF status[c] \in for THEN overwritten ELSE overwritten \cup {c}

\* approve_cash_out writes and the handler commits.
CommitApprove(q) ==
  /\ rpc[q] = "approve"
  /\ SetStatus(ref[q], "APPROVED")
  /\ Overwrite(ref[q], {"REQUESTED"})
  /\ approvals' = [approvals EXCEPT ![ref[q]] = @ + 1]
  /\ Goto(q, "queue")
  /\ UNCHANGED <<balance, debits, refunds, fiat, rejections, burned, redis, worker,
                 ref, faults>>

\* queue_cash_out_burn loads the row again, the commit having expired it,
\* and refuses (CashOutStateError) one that is no longer approved.
LoadForBurn(q) ==
  /\ rpc[q] = "queue"
  /\ \/ status[ref[q]] = "APPROVED" /\ Goto(q, "publish") /\ UNCHANGED ref
     \/ status[ref[q]] # "APPROVED" /\ Finish(q)
  /\ UNCHANGED <<rows, burned, redis, worker, faults>>

\* The message is published.
Publish(q) ==
  /\ rpc[q] = "publish"
  /\ XAdd(ref[q])
  /\ Finish(q)
  /\ UNCHANGED <<rows, burned, faults>>

\* XADD fails: SettlementPublishError, answered with 503.
PublishFails(q) ==
  /\ rpc[q] = "publish"
  /\ Fault("publish")
  /\ Finish(q)
  /\ UNCHANGED <<rows, burned, redis, worker>>

\* fail_cash_out after its check of the status: the UCTUSD comes back.
Refund(c) ==
  /\ balance' = balance + 1
  /\ refunds' = [refunds EXCEPT ![c] = @ + 1]
  /\ SetStatus(c, "FAILED")
  /\ UNCHANGED <<debits, fiat, approvals>>

\* Mutant of CommitReject: the refund is left out.
CommitRejectUnpaid(q) ==
  /\ rpc[q] = "reject"
  /\ SetStatus(ref[q], "FAILED")
  /\ Finish(q)
  /\ UNCHANGED <<balance, debits, refunds, fiat, approvals, rejections, overwritten, burned,
                 redis, worker, faults>>

\* fail_cash_out writes and the handler commits.
CommitReject(q) ==
  /\ rpc[q] = "reject"
  /\ Refund(ref[q])
  /\ Overwrite(ref[q], {"REQUESTED", "APPROVED"})
  /\ rejections' = [rejections EXCEPT ![ref[q]] = @ + 1]
  /\ Finish(q)
  /\ UNCHANGED <<burned, redis, worker, faults>>

\* The API process dies, or the database does, in the middle of a request.
RequestDies(q) ==
  /\ rpc[q] # "free"
  /\ Fault("request")
  /\ Finish(q)
  /\ UNCHANGED <<rows, burned, redis, worker>>

RequestStep(q) ==
  CommitDebit(q) \/ CommitApprove(q) \/ LoadForBurn(q) \/ Publish(q) \/ CommitReject(q)

-----------------------------------------------------------------------------
(***************************************************************************)
(* The consume loop.                                                       *)
(***************************************************************************)
Elsewhere == <<rows, burned, request, faults>>

ReadNew(w) == FetchNew(w) /\ UNCHANGED Elsewhere

ReclaimStale(w) == FetchStale(w) /\ UNCHANGED Elsewhere

ReadPending(w) == FetchPending(w) /\ UNCHANGED Elsewhere

Acknowledge(w) == Ack(w) /\ UNCHANGED Elsewhere

-----------------------------------------------------------------------------
(***************************************************************************)
(* Burning for one cash-out.  The claim is the same for a new message and  *)
(* for a redelivered one.                                                  *)
(***************************************************************************)

\* Mutant of Claim: a redelivered message is claimed from PROCESSING too.
ClaimProcessing(w) ==
  /\ Step(w, "claim", "burn")
  /\ \/ status[Current(w)] = "APPROVED"
     \/ status[Current(w)] = "PROCESSING" /\ reclaimed(w)
  /\ SetStatus(Current(w), "PROCESSING")
  /\ UNCHANGED <<balance, debits, refunds, fiat, approvals, rejections, overwritten, burned,
                 request, faults>>

\* The compare-and-swap succeeds.
Claim(w) ==
  /\ Step(w, "claim", "burn")
  /\ status[Current(w)] = "APPROVED"
  /\ SetStatus(Current(w), "PROCESSING")
  /\ UNCHANGED <<balance, debits, refunds, fiat, approvals, rejections, overwritten, burned,
                 request, faults>>

\* It does not: SKIPPED, which acks.
Skip(w) ==
  /\ Step(w, "claim", "ack")
  /\ status[Current(w)] # "APPROVED"
  /\ UNCHANGED Elsewhere

BurnOnChain(c) == burned' = [burned EXCEPT ![c] = @ + 1]

\* Mutant of Burn: the fiat is credited without waiting for validation.
BurnWithoutWait(w) ==
  /\ Step(w, "burn", "complete")
  /\ BurnOnChain(Current(w)) \/ UNCHANGED burned
  /\ UNCHANGED <<rows, request, faults>>

\* xrpl.burn returns a hash: the burn is validated.
Burn(w) ==
  /\ Step(w, "burn", "complete")
  /\ BurnOnChain(Current(w))
  /\ UNCHANGED <<rows, request, faults>>

\* The payout pool is not found, or the ledger rejected the burn.
BurnRejected(w) ==
  /\ Step(w, "burn", "fail")
  /\ UNCHANGED Elsewhere

\* Any other exception, such as a timeout, after the burn went out.
BurnUnanswered(w) ==
  /\ Fault("answer")
  /\ Step(w, "burn", "fail")
  /\ BurnOnChain(Current(w))
  /\ UNCHANGED <<rows, request>>

\* complete_cash_out: the fiat and the status, in one transaction, whatever
\* the status is by now.
Complete(w) ==
  /\ Step(w, "complete", "ack")
  /\ fiat' = [fiat EXCEPT ![Current(w)] = @ + 1]
  /\ SetStatus(Current(w), "COMPLETED")
  /\ UNCHANGED <<balance, debits, refunds, approvals, rejections, overwritten, burned,
                 request, faults>>

\* It is rolled back: SettlementError, and handle() returns without an ack.
CompleteFails(w) ==
  /\ wpc[w] = "complete"
  /\ Fault("record")
  /\ LeaveUnacked(w)
  /\ UNCHANGED <<rows, burned, request>>

\* Mutant of CheckFail: a burn that failed is retried by redelivery.
CheckFailRetried(w) ==
  /\ wpc[w] = "fail"
  /\ Escape(w)
  /\ UNCHANGED Elsewhere

\* _fail_cash_out loads the row and checks that it is still PROCESSING; if
\* not, CashOutStateError leaves handle().
CheckFail(w) ==
  /\ wpc[w] = "fail"
  /\ \/ status[Current(w)] = "PROCESSING" /\ Step(w, "fail", "refund")
     \/ status[Current(w)] # "PROCESSING" /\ Escape(w)
  /\ UNCHANGED Elsewhere

\* Mutant of CommitFail: the cash-out is put back for another attempt.
CommitFailReopened(w) ==
  /\ Step(w, "refund", "ack")
  /\ balance' = balance + 1
  /\ refunds' = [refunds EXCEPT ![Current(w)] = @ + 1]
  /\ SetStatus(Current(w), "APPROVED")
  /\ UNCHANGED <<debits, fiat, approvals, rejections, overwritten, burned, request, faults>>

\* The refund and the status are committed, whatever the status is by now.
CommitFail(w) ==
  /\ Step(w, "refund", "ack")
  /\ Refund(Current(w))
  /\ UNCHANGED <<rejections, overwritten, burned, request, faults>>

\* An exception of the database or of Redis outside the try blocks.
LoopError(w) ==
  /\ wpc[w] \in {"claim", "burn", "fail", "refund", "ack"}
  /\ Fault("loop")
  /\ Escape(w)
  /\ UNCHANGED <<rows, burned, request>>

Crash(w) == Die(w) /\ Fault("crash") /\ UNCHANGED <<rows, burned, request>>

WorkerStep(w) ==
  \/ ReadNew(w) \/ ReclaimStale(w) \/ Claim(w) \/ Skip(w) \/ Burn(w)
  \/ BurnRejected(w) \/ Complete(w) \/ CheckFail(w) \/ CommitFail(w) \/ Acknowledge(w)

-----------------------------------------------------------------------------
Next ==
  \/ \E q \in Requests, c \in CashOuts :
       \/ ReadNewKey(q, c) \/ ReadRequested(q, c) \/ ReadApproved(q, c)
       \/ ReadRejectable(q, c)
  \/ \E q \in Requests : RequestStep(q) \/ PublishFails(q) \/ RequestDies(q)
  \/ \E w \in Workers :
       \/ WorkerStep(w) \/ BurnUnanswered(w) \/ CompleteFails(w)
       \/ LoopError(w) \/ Crash(w) \/ ReadPending(w)

Spec == Init /\ [][Next]_vars

(***************************************************************************)
(* Liveness, as in Settlement: a live worker keeps running its loop and a  *)
(* request that was started runs on.  Nobody is obliged to send a request, *)
(* to start a worker again or to cause a fault.                            *)
(***************************************************************************)
FairSpec ==
  /\ Spec
  /\ \A w \in Workers : WF_vars(WorkerStep(w))
  /\ \A q \in Requests : WF_vars(RequestStep(q))

-----------------------------------------------------------------------------
RowsType ==
  /\ status \in [CashOuts -> CashOutStatus]
  /\ balance \in Nat
  /\ debits \in [CashOuts -> Nat]
  /\ refunds \in [CashOuts -> Nat]
  /\ burned \in [CashOuts -> Nat]
  /\ fiat \in [CashOuts -> Nat]
  /\ approvals \in [CashOuts -> Nat]
  /\ rejections \in [CashOuts -> Nat]
  /\ overwritten \subseteq CashOuts

RequestType ==
  /\ rpc \in [Requests -> RequestPC]
  /\ ref \in [Requests -> CashOuts \cup {None}]
  /\ \A q \in Requests : rpc[q] # "free" => ref[q] \in CashOuts

(***************************************************************************)
(* Every variable holds a value of the program's; above all the balance,   *)
(* which Ledger._move never lets go below zero, whatever requests race     *)
(* for the last unit of it.                                                *)
(***************************************************************************)
TypeOK ==
  /\ RowsType
  /\ StreamType(CashOuts)
  /\ ConsumerType(WorkerPC)
  /\ RequestType
  /\ faults \in 0 .. MaxFaults

(***************************************************************************)
(* A retried or double-clicked request debits the balance once: the lookup *)
(* of the idempotency key in request_cash_out may miss a request that is   *)
(* still in progress, and the unique index then refuses the second row     *)
(* together with its debit.                                                *)
(***************************************************************************)
DebitedOnce == \A c \in CashOuts : debits[c] <= 1

(***************************************************************************)
(* "The recipient is never credited fiat for a burn that did not land"     *)
(* (approve_cash_out): every payout has a burn of its own, whoever else is *)
(* working on the cash-out; and nothing is burned, paid or refunded that   *)
(* was not reserved from the balance first.                                *)
(***************************************************************************)
FiatBacked ==
  \A c \in CashOuts :
    /\ fiat[c] <= burned[c]
    /\ burned[c] + refunds[c] > 0 => debits[c] > 0

(***************************************************************************)
(* The statuses that end a cash-out tell the truth about it, although      *)
(* every handler but the claim writes over whatever it finds: COMPLETED is *)
(* only shown of a cash-out that was paid, FAILED of one that was          *)
(* refunded.                                                               *)
(***************************************************************************)
FinalStatusTrue ==
  \A c \in CashOuts :
    /\ status[c] = "COMPLETED" => fiat[c] > 0
    /\ status[c] = "FAILED" => refunds[c] > 0

(***************************************************************************)
(* "A redelivered message never burns twice" (_burn_cash_out): every burn  *)
(* of a cash-out uses up an approval of an admin's, however often its      *)
(* message is published, redelivered or taken over from a slow worker, and *)
(* though admins overlap and answers of the chain are lost.                *)
(***************************************************************************)
BurnApproved == \A c \in CashOuts : burned[c] <= approvals[c]

(***************************************************************************)
(* A cash-out is paid once or refunded once and never both, over           *)
(* redeliveries, takeovers from slow workers, lost answers and crashes,    *)
(* unless an admin's decision was written over a status that had moved on  *)
(* since it was read: approve_cash_out and fail_cash_out compare nothing   *)
(* when they write, so that two rejections refund twice and a rejection    *)
(* that a worker's claim overtakes refunds what is then paid.              *)
(***************************************************************************)
OneEnd == \A c \in CashOuts \ overwritten : fiat[c] + refunds[c] <= 1

(***************************************************************************)
(* The money of a cash-out moves as Withdrawal says, whatever messages,    *)
(* workers, statuses and overlapping requests it takes: above all an       *)
(* approval ends in a payout or in a refund and never in both, though      *)
(* handlers write over the status they find, a burn's answer is lost or    *)
(* another worker takes the message over; and a rejection is one refund.   *)
(***************************************************************************)
W == INSTANCE Withdrawal WITH
  reserved <- {c \in CashOuts : debits[c] > 0},
  approved <- approvals,
  paid <- fiat,
  returned <- [c \in CashOuts |-> refunds[c] - rejections[c]]

ImplementsWithdrawal == W!Spec

(***************************************************************************)
(* "At-least-once delivery: a message stays pending until it is acked" and *)
(* "competing consumers" (settlement_queue.py:10-13): over restarts, lost  *)
(* workers, reclaims of what a slow worker still has in hand and           *)
(* exceptions in the middle of a batch, the queue and the loops that read  *)
(* it deliver as Delivery says.                                            *)
(***************************************************************************)
D == INSTANCE Delivery WITH
  Messages <- CashOuts, Consumers <- Workers,
  sent <- stream, given <- delivered, open <- Pending, hands <- todo

ImplementsDelivery == D!Spec

(***************************************************************************)
(* A cash-out that is PROCESSING is being worked on, so that it gets its   *)
(* payout or its refund: no race of admins or workers leaves one behind.   *)
(* Needs that no worker is lost, and no write of one, between its claim    *)
(* and its last commit.                                                    *)
(***************************************************************************)
Burning(w) == wpc[w] \in {"burn", "complete", "fail", "refund"}

ProcessingHasWorker ==
  \A c \in CashOuts : status[c] = "PROCESSING" =>
    \E w \in Workers : Burning(w) /\ Current(w) = c

(***************************************************************************)
(* An approval does its work: an approved cash-out with a message nobody   *)
(* has read, and one that is PROCESSING, is completed or failed in the     *)
(* end, though requests die, messages are not published and answers of the *)
(* chain are lost.  Needs settlement_reclaim_idle_ms to outlast every burn. *)
(***************************************************************************)
Unread(c) == \E e \in delivered + 1 .. Len(stream) : stream[e] = c

ApprovalResolves ==
  \A c \in CashOuts :
    (status[c] = "APPROVED" /\ Unread(c)) \/ status[c] = "PROCESSING"
      ~> status[c] \in {"COMPLETED", "FAILED"}

-----------------------------------------------------------------------------
(***************************************************************************)
(* What the code's comments and documents say without a condition, and is  *)
(* true only under one.                                                    *)
(***************************************************************************)

(***************************************************************************)
(* "only one worker can move an APPROVED cash-out to PROCESSING, so a      *)
(* redelivered message never burns twice" (settlement_worker.py:360-362)   *)
(* and "a duplicate burns nothing" (admin.py:290-292): a cash-out is       *)
(* burned and paid at most once.  True as long as API requests do not      *)
(* overlap, whatever the workers, the queue and the faults do; the run     *)
(* with overlapping requests refutes it.                                   *)
(***************************************************************************)
BurnedOnce == \A c \in CashOuts : burned[c] <= 1

(***************************************************************************)
(* "Its message is deliberately left unacked for reconciliation"           *)
(* (SettlementError, settlement_worker.py:107-112) and "a message stays    *)
(* pending until it is acked, so a worker that dies mid-settlement does    *)
(* not drop" it (settlement_queue.py:10-11): a cash-out that is PROCESSING *)
(* has a message that is not acked.  True when no burn outlasts            *)
(* settlement_reclaim_idle_ms and no worker is lost and no record rolled   *)
(* back after a burn; the run with a record rolled back refutes it.        *)
(***************************************************************************)
ProcessingHasMessage ==
  \A c \in CashOuts : status[c] = "PROCESSING" =>
    \E e \in Pending : stream[e] = c
=============================================================================
