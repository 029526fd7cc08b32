-------------------------- MODULE SettlementProofs --------------------------
(***************************************************************************)
(* Proofs about Settlement, for any remittances, workers, requests and     *)
(* bounds, with slow settlements or without.                               *)
(***************************************************************************)
EXTENDS Settlement, ConsumerGroupProofs

USE NoWorkerAssumption, EntriesAssumption, NoRemittanceAssumption, BoundsAssumption
USE DEF Fetches

-----------------------------------------------------------------------------
(***************************************************************************)
(* Type correctness.  The stream and the workers are typed as a group.     *)
(***************************************************************************)
Group == GroupType(Remittances, WorkerPC)

(* TypeOK, with the group as one of its parts.                             *)
LEMMA TypeParts ==
  TypeOK <=> RowsType /\ Group /\ RequestType /\ faults \in 0 .. MaxFaults
  BY DEF TypeOK, RedisType, WorkerType, Group, GroupType

(* The same of the next state.                                             *)
LEMMA TypePartsNext ==
  TypeOK' <=> RowsType' /\ Group' /\ RequestType' /\ faults' \in 0 .. MaxFaults
  BY DEF TypeOK, RedisType, WorkerType, Group, GroupType

(* The steps of the worker's program.                                      *)
LEMMA WorkerPCs ==
  {"down", "idle", "claim"} \subseteq WorkerPC /\ {"idle", "claim"} \subseteq WorkerPC
  BY DEF WorkerPC

(* The initial state is well typed.                                        *)
LEMMA InitType == Init => TypeOK
  <1> SUFFICES ASSUME Init PROVE TypeOK
    OBVIOUS
  <1>1. Group
    BY GroupInitType, WorkerPCs DEF Init, Group
  <1>2. RowsType /\ RequestType /\ faults \in 0 .. MaxFaults
    BY DEF Init, RowsType, RequestType, RemittanceStatus, RequestPC
  <1> QED
    BY <1>1, <1>2, TypeParts

(* What a step leaves alone stays well typed: the rows,                    *)
LEMMA RowsFrame == RowsType /\ UNCHANGED <<rows, paid>> => RowsType'
  BY DEF RowsType, rows

(* the stream and the workers,                                             *)
LEMMA SettlementGroupFrame == Group /\ UNCHANGED <<redis, worker>> => Group'
  BY GroupFrame DEF Group

(* and the requests.                                                       *)
LEMMA RequestFrame == RequestType /\ UNCHANGED request => RequestType'
  BY DEF RequestType, request

(* A request that goes on stays well typed,                                *)
LEMMA GotoType ==
  ASSUME RequestType, NEW q \in Requests, NEW pc \in RequestPC \ {"free"},
         Goto(q, pc), rem[q] \in Remittances, UNCHANGED rem,
         seen' \in [Requests -> CLAIMABLE \cup {None}]
  PROVE  RequestType'
  BY DEF RequestType, Goto

(* and so does one that ends.                                              *)
LEMMA FinishType ==
  ASSUME RequestType, NEW q \in Requests, Finish(q)
  PROVE  RequestType'
  BY DEF RequestType, Finish, Goto, RequestPC

(* Faults are counted up to their bound.                                   *)
LEMMA FaultType ==
  ASSUME faults \in 0 .. MaxFaults, Fault
  PROVE  faults' \in 0 .. MaxFaults
  BY DEF Fault

(* A worker with an entry in hand has a remittance to settle.              *)
LEMMA CurrentRemittance ==
  ASSUME Group, NEW w \in Workers, wpc[w] \notin {"down", "idle"}
  PROVE  /\ cur[w] \in todo[w] /\ cur[w] \in EntryIds
         /\ Current(w) \in Remittances
  BY CurrentType DEF Group

(* Every step of a request keeps the types.                                *)
LEMMA RequestTypes ==
  ASSUME TypeOK, NEW q \in Requests,
         RequestStep(q) \/ PublishFails(q) \/ RequestDies(q)
  PROVE  TypeOK'
  <1> USE TypeParts, TypePartsNext
  <1>1. CASE CommitCashIn(q)
    <2>1. RequestType'
      BY <1>1, GotoType DEF CommitCashIn, RequestType, RequestPC
    <2>2. RowsType'
      BY <1>1 DEF CommitCashIn, RowsType, RequestType, SetStatus, RemittanceStatus
    <2> QED
      BY <1>1, <2>1, <2>2, SettlementGroupFrame DEF CommitCashIn
  <1>2. CASE CommitRequeue(q)
    <2>1. RequestType'
      BY <1>2, GotoType DEF CommitRequeue, RequestType, RequestPC
    <2>2. RowsType'
      BY <1>2 DEF CommitRequeue, RowsType, RequestType, SetStatus, RemittanceStatus
    <2> QED
      BY <1>2, <2>1, <2>2, SettlementGroupFrame DEF CommitRequeue
  <1>3. CASE CommitRefund(q)
    <2>1. RequestType'
      BY <1>3, FinishType DEF CommitRefund
    <2>2. RowsType'
      BY <1>3 DEF CommitRefund, RowsType, RequestType, SetStatus,
           RemittanceStatus, EntryKinds
    <2> QED
      BY <1>3, <2>1, <2>2, SettlementGroupFrame DEF CommitRefund
  <1>4. CASE LoadForQueue(q)
    <2>1. RequestType'
      <3>1. CASE status[rem[q]] \in CLAIMABLE
        BY <1>4, <3>1, GotoType DEF LoadForQueue, RequestType, RequestPC
      <3>2. CASE status[rem[q]] \notin CLAIMABLE
        BY <1>4, <3>2, FinishType DEF LoadForQueue
      <3> QED
        BY <3>1, <3>2
    <2> QED
      BY <1>4, <2>1, RowsFrame, SettlementGroupFrame DEF LoadForQueue
  <1>5. CASE Publish(q)
    <2>1. rem[q] \in Remittances
      BY <1>5 DEF Publish, RequestType
    <2>2. RequestType'
      BY <1>5, <2>1, GotoType DEF Publish, RequestType, RequestPC
    <2>3. Group'
      BY <1>5, <2>1, XAddType DEF Publish, Group
    <2> QED
      BY <1>5, <2>2, <2>3, RowsFrame DEF Publish
  <1>6. CASE CommitQueued(q)
    <2>1. RequestType'
      BY <1>6, FinishType DEF CommitQueued
    <2>2. RowsType'
      BY <1>6 DEF CommitQueued, RowsType, RequestType, SetStatus, RemittanceStatus
    <2> QED
      BY <1>6, <2>1, <2>2, SettlementGroupFrame DEF CommitQueued
  <1>7. CASE PublishFails(q)
    BY <1>7, FinishType, FaultType, RowsFrame, SettlementGroupFrame DEF PublishFails
  <1>8. CASE RequestDies(q)
    BY <1>8, FinishType, FaultType, RowsFrame, SettlementGroupFrame DEF RequestDies
  <1> QED
    BY <1>1, <1>2, <1>3, <1>4, <1>5, <1>6, <1>7, <1>8 DEF RequestStep

(* Every step of a worker's loop keeps the types,                          *)
LEMMA LoopTypes ==
  ASSUME TypeOK, NEW w \in Workers,
         \/ ReadNew(w) \/ ReclaimStale(w) \/ ReadPending(w)
         \/ RecordFails(w) \/ Acknowledge(w) \/ LoopError(w) \/ Crash(w)
  PROVE  TypeOK'
  <1> USE TypeParts, TypePartsNext
  <1>1. RowsType' /\ RequestType'
    BY RowsFrame, RequestFrame DEF ReadNew, ReclaimStale, ReadPending, RecordFails,
         Acknowledge, LoopError, Crash, Elsewhere
  <1>2. faults' \in 0 .. MaxFaults
    BY FaultType DEF ReadNew, ReclaimStale, ReadPending, RecordFails, Acknowledge,
         LoopError, Crash, Elsewhere
  <1>3. Group'
    BY WorkerPCs, FetchType, ReleaseType DEF ReadNew, ReclaimStale, ReadPending,
         RecordFails, Acknowledge, LoopError, Crash, Group
  <1> QED
    BY <1>1, <1>2, <1>3

(* and so does every step of settling a remittance.                        *)
LEMMA SettleTypes ==
  ASSUME TypeOK, NEW w \in Workers,
         \/ Claim(w) \/ Skip(w) \/ Submit(w) \/ SubmitRejected(w) \/ ResolveFails(w)
         \/ Fail(w) \/ RecordSuccess(w) \/ SubmitUnanswered(w)
  PROVE  TypeOK'
  <1> USE TypeParts, TypePartsNext
  <1>1. /\ wpc[w] \notin {"down", "idle"}
        /\ UNCHANGED request
        /\ \E from, to \in WorkerPC \ {"down", "idle"} : Step(w, from, to)
    BY DEF Claim, Skip, Submit, SubmitRejected, ResolveFails, Fail,
         RecordSuccess, SubmitUnanswered, Step, WorkerPC
  <1>2. Group' /\ RequestType'
    BY <1>1, RequestFrame, StepType DEF Group
  <1>3. Current(w) \in Remittances
    BY <1>1, CurrentRemittance
  <1>4. faults' \in 0 .. MaxFaults
    BY FaultType DEF Claim, Skip, Submit, SubmitRejected, ResolveFails, Fail,
         RecordSuccess, SubmitUnanswered
  <1>5. RowsType'
    <2>1. CASE Claim(w)
      BY <1>3, <2>1 DEF Claim, SetStatus, RowsType, RemittanceStatus
    <2>2. CASE Skip(w) \/ SubmitRejected(w)
      BY <2>2, RowsFrame DEF Skip, SubmitRejected
    <2>3. CASE Submit(w) \/ SubmitUnanswered(w)
      BY <1>3, <2>3 DEF Submit, SubmitUnanswered, Pay, RowsType, rows
    <2>4. CASE ResolveFails(w) \/ Fail(w)
      BY <1>3, <2>4 DEF ResolveFails, Fail, WriteFailed, SetStatus, RowsType,
           RemittanceStatus, EntryKinds
    <2>5. CASE RecordSuccess(w)
      BY <1>3, <2>5 DEF RecordSuccess, SetStatus, RowsType, RemittanceStatus,
           EntryKinds
    <2> QED
      BY <2>1, <2>2, <2>3, <2>4, <2>5
  <1> QED
    BY <1>2, <1>4, <1>5

(* The type invariant is inductive.                                        *)
LEMMA NextType == TypeOK /\ [Next]_vars => TypeOK'
  <1> SUFFICES ASSUME TypeOK, [Next]_vars PROVE TypeOK'
    OBVIOUS
  <1> USE TypeParts, TypePartsNext
  <1>1. CASE UNCHANGED vars
    BY <1>1, RowsFrame, SettlementGroupFrame, RequestFrame DEF vars
  <1>2. ASSUME NEW q \in Requests, NEW r \in Remittances,
               ReadQuoted(q, r) \/ ReadConfirmed(q, r) \/ ReadFailed(q, r)
                 \/ ReadRefundable(q, r)
        PROVE  TypeOK'
    <2>1. PICK pc \in RequestPC \ {"free"} : Begin(q, r, pc)
      BY <1>2 DEF ReadQuoted, ReadConfirmed, ReadFailed, ReadRefundable, RequestPC
    <2>2. RequestType'
      BY <2>1 DEF RequestType, Begin, Goto
    <2> QED
      BY <2>1, <2>2, RowsFrame, SettlementGroupFrame DEF Begin
  <1> QED
    BY <1>1, <1>2, RequestTypes, LoopTypes, SettleTypes DEF Next, WorkerStep

(***************************************************************************)
(* The type invariant holds in every reachable state.                      *)
(***************************************************************************)
THEOREM TypeCorrect == Spec => []TypeOK
  BY InitType, NextType, PTL DEF Spec

-----------------------------------------------------------------------------
(***************************************************************************)
(* Paying out once, and only what was paid in.  The counters agree with    *)
(* the rows the unique constraint guards; and a worker or a request that   *)
(* is about to move money knows that the money is there, although the row  *)
(* it once read may say something else by now.                             *)
(***************************************************************************)
LedgerInv ==
  \A r \in Remittances :
    /\ credits[r] = IF "credit" \in entries[r] THEN 1 ELSE 0
    /\ refunds[r] = IF "refund" \in entries[r] THEN 1 ELSE 0
    /\ ~("credit" \in entries[r] /\ "refund" \in entries[r])

FinalInv ==
  \A r \in Remittances :
    /\ status[r] = "SETTLED" => "credit" \in entries[r]
    /\ status[r] = "REFUNDED" => "refund" \in entries[r]

CashInInv ==
  /\ \A r \in Remittances :
       /\ status[r] # "QUOTED" \/ paid[r] > 0 \/ "refund" \in entries[r] => confirmed[r]
       /\ "credit" \in entries[r] => paid[r] > 0
  /\ \A q \in Requests : rpc[q] \notin {"free", "confirm"} => confirmed[rem[q]]
  /\ \A w \in Workers :
       /\ wpc[w] \in {"submit", "record", "fail"} => confirmed[Current(w)]
       /\ wpc[w] = "record" => paid[Current(w)] > 0

PayoutInv == TypeOK /\ LedgerInv /\ FinalInv /\ CashInInv

(* It holds at the start.                                                 *)
LEMMA InitPayout == Init => PayoutInv
  BY InitType DEF Init, GroupInit, PayoutInv, LedgerInv, FinalInv, CashInInv

(* The recipient's credit and the sender's refund collide in the unique    *)
(* constraint, and so does each with itself.                               *)
LEMMA IncomingCollides ==
  ASSUME NEW r \in Remittances, NEW kind \in {"credit", "refund"}, Insertable(r, kind)
  PROVE  "credit" \notin entries[r] /\ "refund" \notin entries[r]
  BY DEF Insertable, UniqueKey

(* A step that leaves the rows and the payments alone can only break what  *)
(* a request or a worker relies on.                                        *)
LEMMA LedgerFrame ==
  LedgerInv /\ FinalInv /\ UNCHANGED rows => LedgerInv' /\ FinalInv'
  BY DEF LedgerInv, FinalInv, rows

(* Requests keep the invariant.                                            *)
LEMMA RequestPayout ==
  ASSUME PayoutInv, NEW q \in Requests,
         RequestStep(q) \/ PublishFails(q) \/ RequestDies(q)
  PROVE  LedgerInv' /\ FinalInv' /\ CashInInv'
  <1> USE TypeParts DEF PayoutInv, TypeOK
  <1>1. ASSUME NEW w \in Workers, wpc[w] \notin {"down", "idle"}
        PROVE  Current(w)' = Current(w)
    BY <1>1, CurrentKept DEF Group, XAdd, RequestStep, CommitCashIn,
         CommitRequeue, CommitRefund,
         LoadForQueue, Publish, XAdd, CommitQueued, PublishFails, RequestDies, redis,
         worker, RequestType
  <1>2. wpc' = wpc /\ paid' = paid
    BY DEF RequestStep, CommitCashIn, CommitRequeue, CommitRefund, LoadForQueue,
         Publish, XAdd, CommitQueued, PublishFails, RequestDies, worker
  <1> USE DEF SetStatus, Goto, Finish
  <1>3. CASE CommitCashIn(q)
    BY <1>1, <1>2, <1>3 DEF CommitCashIn, LedgerInv, FinalInv, CashInInv,
         RowsType, RequestType
  <1>4. CASE CommitRequeue(q)
    BY <1>1, <1>2, <1>4 DEF CommitRequeue, LedgerInv, FinalInv, CashInInv,
         RowsType, RequestType
  <1>5. CASE CommitRefund(q)
    <2>1. CASE Insertable(rem[q], "refund")
      BY <1>1, <1>2, <1>5, <2>1, IncomingCollides DEF CommitRefund, LedgerInv,
           FinalInv, CashInInv, RowsType, RequestType
    <2>2. CASE ~Insertable(rem[q], "refund")
      BY <1>1, <1>2, <1>5, <2>2 DEF CommitRefund, LedgerInv, FinalInv, CashInInv,
           RowsType, RequestType
    <2> QED
      BY <2>1, <2>2
  <1>6. CASE LoadForQueue(q)
    BY <1>1, <1>2, <1>6, LedgerFrame DEF LoadForQueue, CashInInv, RequestType, rows
  <1>7. CASE Publish(q)
    BY <1>1, <1>2, <1>7, LedgerFrame DEF Publish, XAdd, CashInInv, RequestType, rows
  <1>8. CASE CommitQueued(q)
    BY <1>1, <1>2, <1>8 DEF CommitQueued, LedgerInv, FinalInv, CashInInv,
         RowsType, RequestType
  <1>9. CASE PublishFails(q) \/ RequestDies(q)
    BY <1>1, <1>2, <1>9, LedgerFrame DEF PublishFails, RequestDies, CashInInv,
         RequestType, rows
  <1> QED
    BY <1>3, <1>4, <1>5, <1>6, <1>7, <1>8, <1>9 DEF RequestStep

(* A worker that fetches, moves on or stops is not about to move money.    *)
LEMMA MovePayout ==
  ASSUME PayoutInv, NEW w \in Workers,
         UNCHANGED <<rows, paid, stream, request>>,
         \A v \in Workers \ {w} : wpc'[v] = wpc[v] /\ cur'[v] = cur[v],
         wpc'[w] \in {"down", "idle", "claim"}
  PROVE  LedgerInv' /\ FinalInv' /\ CashInInv'
  BY LedgerFrame DEF PayoutInv, CashInInv, rows, request, Current

(* A worker settling a remittance keeps the invariant.                     *)
LEMMA SettlePayout ==
  ASSUME PayoutInv, NEW w \in Workers,
         \/ Claim(w) \/ Skip(w) \/ Submit(w) \/ SubmitRejected(w) \/ ResolveFails(w)
         \/ Fail(w) \/ RecordSuccess(w) \/ SubmitUnanswered(w)
  PROVE  LedgerInv' /\ FinalInv' /\ CashInInv'
  <1> USE TypeParts DEF PayoutInv, TypeOK
  <1>1. PICK from, to \in {"claim", "submit", "record", "fail", "ack"} : Step(w, from, to)
    BY DEF Claim, Skip, Submit, SubmitRejected, ResolveFails, Fail,
         RecordSuccess, SubmitUnanswered
  <1>2. /\ Current(w) \in Remittances
        /\ \A v \in Workers : Current(v)' = Current(v)
        /\ UNCHANGED request
    BY <1>1, CurrentRemittance DEF Claim, Skip, Submit, SubmitRejected, ResolveFails,
         Fail, RecordSuccess, SubmitUnanswered, Step, redis, Current
  <1>3. \A v \in Workers : wpc[v] \in {"submit", "record", "fail"} =>
          Current(v) \in Remittances
    BY CurrentRemittance
  <1> DEFINE r == Current(w)
  <1>4. r \in Remittances /\ r = Current(w)
    BY <1>2
  <1> HIDE DEF r
  <1> USE DEF SetStatus, Step
  <1>5. CASE Claim(w)
    <2>1. status[r] # "QUOTED"
      BY <1>4, <1>5 DEF Claim, Claimable, CLAIMABLE, RECLAIMABLE
    <2> QED
      BY <1>2, <1>4, <1>5, <2>1 DEF Claim, LedgerInv, FinalInv, CashInInv,
           RowsType, WorkerType, ConsumerType, request
  <1>6. CASE Skip(w)
    BY <1>2, <1>6, LedgerFrame DEF Skip, CashInInv, WorkerType, ConsumerType,
         request, rows
  <1>7. CASE SubmitRejected(w)
    BY <1>2, <1>7, LedgerFrame DEF SubmitRejected, CashInInv, WorkerType,
         ConsumerType, request, rows
  <1>8. CASE Submit(w) \/ SubmitUnanswered(w)
    <2>1. paid'[r] > 0 /\ \A s \in Remittances : paid[s] > 0 => paid'[s] > 0
      BY <1>4, <1>8 DEF Submit, SubmitUnanswered, Pay, RowsType
    <2>2. \A s \in Remittances \ {r} : paid'[s] = paid[s]
      BY <1>4, <1>8 DEF Submit, SubmitUnanswered, Pay, RowsType
    <2>3. confirmed[r]
      BY <1>4, <1>8 DEF Submit, SubmitUnanswered, CashInInv
    <2> QED
      BY <1>2, <1>3, <1>4, <1>8, <2>1, <2>2, <2>3, LedgerFrame DEF Submit,
           SubmitUnanswered, CashInInv, WorkerType, ConsumerType, request, rows
  <1>9. CASE ResolveFails(w) \/ Fail(w)
    <2>1. /\ WriteFailed(r, TRUE) \/ WriteFailed(r, FALSE)
          /\ paid' = paid /\ wpc' = [wpc EXCEPT ![w] = "ack"]
          /\ confirmed[r]
      BY <1>4, <1>9 DEF ResolveFails, Fail, CashInInv
    <2>2. /\ UNCHANGED <<confirmed, credits, refunds>>
          /\ status' = [status EXCEPT ![r] = "FAILED"]
          /\ \A s \in Remittances, k \in {"credit", "refund"} :
               k \in entries'[s] <=> k \in entries[s]
      BY <1>4, <2>1 DEF WriteFailed, RowsType
    <2>3. LedgerInv' /\ FinalInv'
      BY <1>4, <2>2 DEF LedgerInv, FinalInv, RowsType
    <2>4. CashInInv'
      BY <1>2, <1>4, <2>1, <2>2 DEF CashInInv, RowsType, WorkerType, ConsumerType, request
    <2> QED
      BY <2>3, <2>4
  <1>10. CASE RecordSuccess(w)
    <2>1. "credit" \notin entries[r] /\ "refund" \notin entries[r]
      BY <1>4, <1>10, IncomingCollides DEF RecordSuccess
    <2>2. confirmed[r] /\ paid[r] > 0
      BY <1>4, <1>10 DEF RecordSuccess, CashInInv
    <2> QED
      BY <1>2, <1>4, <1>10, <2>1, <2>2 DEF RecordSuccess, LedgerInv, FinalInv,
           CashInInv, RowsType, WorkerType, ConsumerType, request
  <1> QED
    BY <1>5, <1>6, <1>7, <1>8, <1>9, <1>10

(* It is inductive.                                                        *)
LEMMA NextPayout == PayoutInv /\ [Next]_vars => PayoutInv'
  <1> SUFFICES ASSUME PayoutInv, [Next]_vars PROVE LedgerInv' /\ FinalInv' /\ CashInInv'
    BY NextType DEF PayoutInv
  <1>1. CASE UNCHANGED vars
    BY <1>1, LedgerFrame DEF PayoutInv, CashInInv, vars, rows, redis, worker,
         request, Current
  <1>2. ASSUME NEW q \in Requests, NEW r \in Remittances,
               ReadQuoted(q, r) \/ ReadConfirmed(q, r) \/ ReadFailed(q, r)
                 \/ ReadRefundable(q, r)
        PROVE  LedgerInv' /\ FinalInv' /\ CashInInv'
    <2>1. PICK pc \in RequestPC :
            Begin(q, r, pc) /\ (pc \in {"confirm", "free"} \/ confirmed[r])
      BY <1>2 DEF ReadQuoted, ReadConfirmed, ReadFailed, ReadRefundable,
           RequestPC, CLAIMABLE, PayoutInv, CashInInv
    <2> QED
      BY <2>1, LedgerFrame DEF Begin, Goto, PayoutInv, TypeOK, CashInInv,
           RequestType, rows, redis, worker, Current
  <1>3. ASSUME NEW w \in Workers,
               \/ ReadNew(w) \/ ReclaimStale(w) \/ ReadPending(w)
               \/ RecordFails(w) \/ Acknowledge(w) \/ LoopError(w) \/ Crash(w)
        PROVE  LedgerInv' /\ FinalInv' /\ CashInInv'
    <2>1. UNCHANGED <<rows, paid, request>>
      BY <1>3 DEF ReadNew, ReclaimStale, ReadPending, RecordFails, Acknowledge,
           LoopError, Crash, Elsewhere
    <2>2. /\ stream' = stream
          /\ \A v \in Workers \ {w} : wpc'[v] = wpc[v] /\ cur'[v] = cur[v]
          /\ wpc'[w] \in {"down", "idle", "claim"}
      BY <1>3, GroupMoves DEF ReadNew, ReclaimStale, ReadPending, RecordFails,
           Acknowledge, LoopError, Crash, PayoutInv, TypeOK, WorkerType
    <2> QED
      BY <2>1, <2>2, MovePayout
  <1> QED
    BY <1>1, <1>2, <1>3, RequestPayout, SettlePayout DEF Next, WorkerStep

(* So it holds in every reachable state.                                   *)
LEMMA PayoutInvariant == Spec => []PayoutInv
  BY InitPayout, NextPayout, PTL DEF Spec

(***************************************************************************)
(* No remittance is credited twice, refunded twice, or both, in any        *)
(* behaviour: the unique constraint suffices, whatever the claims do.      *)
(***************************************************************************)
THEOREM PaidOutOnceHolds == Spec => []PaidOutOnce
  <1>1. PayoutInv => PaidOutOnce
    BY DEF PayoutInv, TypeOK, RowsType, LedgerInv, PaidOutOnce
  <1> QED
    BY <1>1, PayoutInvariant, PTL

(***************************************************************************)
(* Nothing leaves the platform for a remittance that was not paid in, and  *)
(* no recipient is credited without a validated payment.                   *)
(***************************************************************************)
THEOREM PayoutCoveredHolds == Spec => []PayoutCovered
  <1>1. PayoutInv => PayoutCovered
    BY DEF PayoutInv, TypeOK, RowsType, LedgerInv, CashInInv, PayoutCovered
  <1> QED
    BY <1>1, PayoutInvariant, PTL

(***************************************************************************)
(* SETTLED and REFUNDED are only ever shown of a remittance whose money    *)
(* went where they say.                                                    *)
(***************************************************************************)
THEOREM FinalStatusTrueHolds == Spec => []FinalStatusTrue
  <1>1. PayoutInv => FinalStatusTrue
    BY DEF PayoutInv, LedgerInv, FinalInv, FinalStatusTrue
  <1> QED
    BY <1>1, PayoutInvariant, PTL

-----------------------------------------------------------------------------
(***************************************************************************)
(* Settlement implements Payout.                                           *)
(***************************************************************************)
Money == <<confirmed, paid, credits, refunds>>

(* A step that moves no money is a stuttering step of Payout.              *)
LEMMA MoneyStutters == UNCHANGED Money => UNCHANGED P!vars
  BY DEF Money, P!vars, Outcome

(* The steps that do.                                                      *)
LEMMA MoneySteps ==
  ASSUME [Next]_vars
  PROVE  \/ UNCHANGED Money
         \/ \E q \in Requests : CommitCashIn(q) \/ CommitRefund(q)
         \/ \E w \in Workers : Submit(w) \/ SubmitUnanswered(w) \/ RecordSuccess(w)
  <1> USE DEF Money, vars, rows
  <1>1. CASE UNCHANGED vars
    BY <1>1
  <1>2. ASSUME NEW q \in Requests, NEW r \in Remittances,
               ReadQuoted(q, r) \/ ReadConfirmed(q, r) \/ ReadFailed(q, r)
                 \/ ReadRefundable(q, r)
        PROVE  UNCHANGED Money
    BY <1>2 DEF ReadQuoted, ReadConfirmed, ReadFailed, ReadRefundable, Begin
  <1>3. ASSUME NEW q \in Requests,
               \/ CommitRequeue(q) \/ LoadForQueue(q) \/ Publish(q)
               \/ CommitQueued(q) \/ PublishFails(q) \/ RequestDies(q)
        PROVE  UNCHANGED Money
    BY <1>3 DEF CommitRequeue, LoadForQueue, Publish, CommitQueued, PublishFails,
         RequestDies
  <1>4. ASSUME NEW w \in Workers,
               \/ ReadNew(w) \/ ReclaimStale(w) \/ ReadPending(w) \/ Claim(w)
               \/ Skip(w) \/ SubmitRejected(w) \/ ResolveFails(w) \/ Fail(w)
               \/ RecordFails(w) \/ Acknowledge(w) \/ LoopError(w) \/ Crash(w)
        PROVE  UNCHANGED Money
    BY <1>4 DEF ReadNew, ReclaimStale, ReadPending, Claim, Skip, SubmitRejected,
         ResolveFails, Fail, WriteFailed, RecordFails, Acknowledge, LoopError, Crash,
         Elsewhere
  <1> QED
    BY <1>1, <1>2, <1>3, <1>4 DEF Next, RequestStep, WorkerStep

(* Each of them is the step of Payout that its name says.                  *)
LEMMA PayoutStep == PayoutInv /\ [Next]_vars => [P!Next]_(P!vars)
  <1> SUFFICES ASSUME PayoutInv, [Next]_vars PROVE [P!Next]_(P!vars)
    OBVIOUS
  <1> USE DEF PayoutInv, TypeOK
  <1>1. CASE UNCHANGED Money
    BY <1>1, MoneyStutters
  <1>2. ASSUME NEW q \in Requests, CommitCashIn(q)
        PROVE  P!Next
    <2>1. PICK r \in Remittances : r = rem[q]
      BY <1>2 DEF CommitCashIn, RequestType
    <2>2. P!PayIn(r)
      BY <1>2, <2>1 DEF CommitCashIn, P!PayIn, Outcome, RowsType
    <2> QED
      BY <2>2 DEF P!Next
  <1>3. ASSUME NEW q \in Requests, CommitRefund(q)
        PROVE  P!Next \/ UNCHANGED Money
    <2>1. PICK r \in Remittances : r = rem[q] /\ confirmed[r]
      BY <1>3 DEF CommitRefund, RequestType, CashInInv
    <2>2. CASE Insertable(r, "refund")
      <3>1. credits[r] = 0 /\ refunds[r] = 0
        BY <2>2, IncomingCollides DEF LedgerInv
      <3>2. /\ refunds' = [refunds EXCEPT ![r] = 1]
            /\ UNCHANGED <<confirmed, paid, credits>>
        BY <1>3, <2>1, <2>2, <3>1 DEF CommitRefund, RowsType
      <3>3. Outcome(r) = "open" /\ Outcome(r)' = "refunded"
        BY <3>1, <3>2 DEF Outcome, RowsType
      <3>4. \A s \in Remittances \ {r} : Outcome(s)' = Outcome(s)
        BY <3>2 DEF Outcome, RowsType
      <3>5. P!Refund(r)
        BY <2>1, <3>2, <3>3, <3>4 DEF P!Refund
      <3> QED
        BY <3>5 DEF P!Next
    <2>3. CASE ~Insertable(r, "refund")
      BY <1>3, <2>1, <2>3 DEF CommitRefund, Money
    <2> QED
      BY <2>2, <2>3
  <1>4. ASSUME NEW w \in Workers, Submit(w) \/ SubmitUnanswered(w)
        PROVE  P!Next
    <2>1. PICK r \in Remittances : r = Current(w)
      BY <1>4, CurrentRemittance, TypeParts DEF Submit, SubmitUnanswered, Step
    <2>2. confirmed[r]
      BY <1>4, <2>1 DEF Submit, SubmitUnanswered, Step, CashInInv
    <2>3. P!MoveTokens(r)
      BY <1>4, <2>1, <2>2 DEF Submit, SubmitUnanswered, Pay, rows, P!MoveTokens,
           Outcome, RowsType
    <2> QED
      BY <2>3 DEF P!Next
  <1>5. ASSUME NEW w \in Workers, RecordSuccess(w)
        PROVE  P!Next
    <2>1. PICK r \in Remittances : r = Current(w)
      BY <1>5, CurrentRemittance, TypeParts DEF RecordSuccess, Step
    <2>2. paid[r] > 0 /\ credits[r] = 0 /\ refunds[r] = 0
      BY <1>5, <2>1, IncomingCollides DEF RecordSuccess, Step, CashInInv, LedgerInv
    <2>3. /\ credits' = [credits EXCEPT ![r] = 1]
          /\ UNCHANGED <<confirmed, paid, refunds>>
      BY <1>5, <2>1, <2>2 DEF RecordSuccess, RowsType
    <2>4. Outcome(r) = "open" /\ Outcome(r)' = "credited"
      BY <2>2, <2>3 DEF Outcome, RowsType
    <2>5. \A s \in Remittances \ {r} : Outcome(s)' = Outcome(s)
      BY <2>3 DEF Outcome, RowsType
    <2>6. P!Credit(r)
      BY <2>2, <2>3, <2>4, <2>5 DEF P!Credit
    <2> QED
      BY <2>6 DEF P!Next
  <1> QED
    BY <1>1, <1>2, <1>3, <1>4, <1>5, MoneySteps, MoneyStutters

(***************************************************************************)
(* Every behaviour of the queue, the workers and the handlers is, as far   *)
(* as the money is concerned, a behaviour of Payout.                       *)
(***************************************************************************)
THEOREM ImplementsPayoutHolds == Spec => ImplementsPayout
  <1>1. Init => P!Init
    BY DEF Init, P!Init, Outcome
  <1> QED
    BY <1>1, PayoutStep, PayoutInvariant, PTL DEF Spec, P!Spec, ImplementsPayout

-----------------------------------------------------------------------------
(***************************************************************************)
(* A SETTLING remittance keeps its message, when settlements are not slow. *)
(* An entry in a worker's hands is then its own (HandInv); and the entry   *)
(* that keeps the remittance recoverable is one that no worker is about to *)
(* ack: it is with nobody, or it is being settled, or it was redelivered   *)
(* and its claim will accept SETTLING.                                     *)
(***************************************************************************)
Safe(e) ==
  \A w \in Workers : e \in todo[w] =>
    \/ fetched[w] # "new" /\ ~(cur[w] = e /\ wpc[w] = "ack")
    \/ cur[w] = e /\ wpc[w] \in {"submit", "record", "fail"}

Anchor(r, e) == e \in Pending /\ stream[e] = r /\ Safe(e)

AnchorInv ==
  \A r \in Remittances : status[r] = "SETTLING" => \E e \in EntryIds : Anchor(r, e)

RecoveryInv == TypeOK /\ HandInv /\ AnchorInv

(* It holds at the start.                                                 *)
LEMMA InitRecovery == Init => RecoveryInv
  BY InitType DEF Init, GroupInit, RecoveryInv, HandInv, AnchorInv

(* Steps of requests do not touch workers or the pending list, and never   *)
(* write SETTLING.                                                         *)
LEMMA RequestRecovery ==
  ASSUME RecoveryInv, UNCHANGED <<owner, worker>>,
         stream' = stream \/ (\E r \in Remittances : stream' = Append(stream, r)),
         \A r \in Remittances : status'[r] = "SETTLING" => status[r] = "SETTLING"
  PROVE  HandInv' /\ AnchorInv'
  <1> USE TypeParts DEF RecoveryInv, TypeOK
  <1>1. HandInv'
    BY DEF HandInv, worker
  <1>2. ASSUME NEW r \in Remittances, NEW e \in EntryIds, Anchor(r, e)
        PROVE  Anchor(r, e)'
    <2>1. e \in 1 .. Len(stream)
      BY <1>2 DEF Anchor, Pending, RedisType, StreamType, EntryIds
    <2>2. stream'[e] = stream[e]
      BY <2>1 DEF RedisType, StreamType
    <2> QED
      BY <1>2, <2>2 DEF Anchor, Safe, Pending, worker
  <1> QED
    BY <1>1, <1>2 DEF AnchorInv

(* Fetching entries: nobody else has them in hand, and a redelivered one   *)
(* can be claimed from SETTLING.                                           *)
LEMMA FetchRecovery ==
  ASSUME ~SlowSettlement, RecoveryInv, NEW w \in Workers,
         ReadNew(w) \/ ReclaimStale(w) \/ ReadPending(w)
  PROVE  HandInv' /\ AnchorInv'
  <1> USE TypeParts DEF RecoveryInv, TypeOK
  <1>1. todo[w] = {} /\ UNCHANGED <<status, stream>>
    BY DEF ReadNew, ReclaimStale, ReadPending, FetchNew, FetchStale, FetchPending,
         Elsewhere, WorkerType, ConsumerType, rows, redis
  <1>2. PICK S \in SUBSET EntryIds, how \in Fetches :
          /\ Handle(w, S, how)
          /\ owner' = [e \in EntryIds |-> IF e \in S THEN w ELSE owner[e]]
          /\ \A v \in Workers \ {w} : S \cap todo[v] = {}
          /\ how # "new" \/ S \cap Pending = {}
    BY FetchTakes DEF ReadNew, ReclaimStale, ReadPending, Group
  <1>3. /\ todo' = [todo EXCEPT ![w] = S]
        /\ fetched' = [fetched EXCEPT ![w] = IF S = {} THEN "new" ELSE how]
        /\ wpc'[w] # "ack"
        /\ \A v \in Workers \ {w} : wpc'[v] = wpc[v] /\ cur'[v] = cur[v]
    BY <1>2 DEF Handle, WorkerType, ConsumerType
  <1>4. HandInv'
    BY FetchHand DEF ReadNew, ReclaimStale, ReadPending, Group
  <1>5. ASSUME NEW r \in Remittances, NEW e \in EntryIds, Anchor(r, e)
        PROVE  Anchor(r, e)'
    <2>1. e \in Pending' /\ stream'[e] = r
      BY <1>1, <1>2, <1>5 DEF Anchor, Pending
    <2>2. e \in S => how # "new"
      BY <1>2, <1>5 DEF Anchor
    <2>3. Safe(e)'
      BY <1>2, <1>3, <1>5, <2>2 DEF Anchor, Safe, WorkerType, ConsumerType
    <2> QED
      BY <2>1, <2>3 DEF Anchor
  <1> QED
    BY <1>1, <1>4, <1>5 DEF AnchorInv

(* Settling one remittance: the claim makes its own entry the anchor, and  *)
(* an entry only goes on to its ack when its remittance is not SETTLING.   *)
LEMMA SettleRecovery ==
  ASSUME RecoveryInv, NEW w \in Workers,
         \/ Claim(w) \/ Skip(w) \/ Submit(w) \/ SubmitRejected(w) \/ ResolveFails(w)
         \/ Fail(w) \/ RecordSuccess(w) \/ SubmitUnanswered(w)
  PROVE  HandInv' /\ AnchorInv'
  <1> USE TypeParts DEF RecoveryInv, TypeOK
  <1>1. PICK from, to \in {"claim", "submit", "record", "fail", "ack"} : Step(w, from, to)
    BY DEF Claim, Skip, Submit, SubmitRejected, ResolveFails, Fail,
         RecordSuccess, SubmitUnanswered
  <1>2. /\ Current(w) \in Remittances /\ cur[w] \in EntryIds /\ cur[w] \in todo[w]
        /\ UNCHANGED <<todo, cur, fetched, stream, owner>>
    BY <1>1, CurrentRemittance DEF Step, redis
  <1>3. wpc' = [wpc EXCEPT ![w] = to]
    BY <1>1 DEF Step
  <1>4. HandInv'
    BY <1>2 DEF HandInv
  <1>5. \A e \in todo[w] : e \in Pending /\ \A v \in Workers \ {w} : e \notin todo[v]
    <2>1. todo[w] \in SUBSET EntryIds
      BY DEF RedisType, StreamType, WorkerType, ConsumerType, EntryIds
    <2> QED
      BY <2>1 DEF HandInv, Pending
  (* An entry of another remittance stays an anchor.                       *)
  <1>6. ASSUME NEW r \in Remittances, NEW e \in EntryIds, Anchor(r, e), e # cur[w]
        PROVE  Anchor(r, e)'
    BY <1>2, <1>3, <1>6 DEF Anchor, Safe, Pending, WorkerType, ConsumerType
  (* So does the entry being handled, unless it goes on to its ack.        *)
  <1>7. ASSUME NEW r \in Remittances, Current(w) = r, to \in {"submit", "record", "fail"}
        PROVE  Anchor(r, cur[w])'
    BY <1>2, <1>3, <1>5, <1>7 DEF Anchor, Safe, Pending, Current, WorkerType, ConsumerType
  <1>8. CASE to = "ack"
    <2>1. status'[Current(w)] # "SETTLING" \/ ~Anchor(Current(w), cur[w])
      <3>1. CASE Skip(w)
        BY <1>2, <3>1 DEF Skip, Step, Claimable, reclaimed, CLAIMABLE, RECLAIMABLE, rows,
             Anchor, Safe
      <3>2. CASE ResolveFails(w) \/ Fail(w)
        BY <1>2, <3>2 DEF ResolveFails, Fail, WriteFailed, SetStatus, RowsType
      <3>3. CASE RecordSuccess(w)
        BY <1>2, <3>3 DEF RecordSuccess, SetStatus, RowsType
      <3> QED
        BY <1>1, <1>3, <1>8, <3>1, <3>2, <3>3 DEF Claim, Submit, SubmitRejected,
             SubmitUnanswered, Step, WorkerType, ConsumerType
    <2>2. \A r \in Remittances : status'[r] = "SETTLING" => status[r] = "SETTLING"
      BY <1>1, <1>2, <1>3, <1>8 DEF Claim, Skip, Submit, SubmitRejected, ResolveFails,
           Fail, RecordSuccess, SubmitUnanswered, WriteFailed, SetStatus, RowsType,
           rows, Step, WorkerType, ConsumerType
    <2>3. ASSUME NEW r \in Remittances, status'[r] = "SETTLING"
          PROVE  \E e \in EntryIds : Anchor(r, e)'
      <3>1. PICK e \in EntryIds : Anchor(r, e)
        BY <2>2, <2>3 DEF AnchorInv
      <3>2. e # cur[w]
        BY <2>1, <2>3, <3>1 DEF Anchor, Current
      <3> QED
        BY <1>6, <3>1, <3>2
    <2> QED
      BY <1>4, <2>3 DEF AnchorInv
  <1>9. CASE to # "ack"
    <2>1. to \in {"submit", "record", "fail"}
      BY <1>1, <1>3, <1>9 DEF Claim, Skip, Submit, SubmitRejected, ResolveFails,
           Fail, RecordSuccess, SubmitUnanswered, Step, WorkerType, ConsumerType
    <2>2. \A r \in Remittances \ {Current(w)} : status'[r] = status[r]
      BY <1>2 DEF Claim, Skip, Submit, SubmitRejected, ResolveFails, Fail,
           RecordSuccess, SubmitUnanswered, WriteFailed, SetStatus, RowsType, rows
    <2>3. ASSUME NEW r \in Remittances, status'[r] = "SETTLING"
          PROVE  \E e \in EntryIds : Anchor(r, e)'
      <3>1. CASE r = Current(w)
        BY <1>2, <1>7, <2>1, <3>1
      <3>2. CASE r # Current(w)
        <4>1. PICK e \in EntryIds : Anchor(r, e)
          BY <2>2, <2>3, <3>2 DEF AnchorInv
        <4>2. e # cur[w]
          BY <3>2, <4>1 DEF Anchor, Current
        <4> QED
          BY <1>6, <4>1, <4>2
      <3> QED
        BY <3>1, <3>2
    <2> QED
      BY <1>4, <2>3 DEF AnchorInv
  <1> QED
    BY <1>8, <1>9

(* Letting go of entries: only the ack removes one from the pending list,  *)
(* and it is not an anchor.                                                *)
LEMMA EndRecovery ==
  ASSUME RecoveryInv, NEW w \in Workers,
         RecordFails(w) \/ Acknowledge(w) \/ LoopError(w) \/ Crash(w)
  PROVE  HandInv' /\ AnchorInv'
  <1> USE TypeParts DEF RecoveryInv, TypeOK
  <1>1. UNCHANGED <<status, stream>>
    BY DEF RecordFails, Acknowledge, LoopError, Crash, LeaveUnacked, Ack, Escape,
         Die, Elsewhere, rows, redis
  <1>2. /\ \/ todo' = [todo EXCEPT ![w] = {}]
           \/ todo' = [todo EXCEPT ![w] = todo[w] \ {cur[w]}] /\ Advance(w)
        /\ \A v \in Workers \ {w} : /\ wpc'[v] = wpc[v] /\ cur'[v] = cur[v]
                                    /\ fetched'[v] = fetched[v]
    <2>1. CASE RecordFails(w) \/ Acknowledge(w)
      BY <2>1 DEF RecordFails, Acknowledge, LeaveUnacked, Ack, Advance, Handle,
           WorkerType, ConsumerType
    <2>2. CASE LoopError(w)
      BY <2>2 DEF LoopError, Escape, Stop, Handle, WorkerType, ConsumerType
    <2>3. CASE Crash(w)
      BY <2>3 DEF Crash, Die, Stop, WorkerType, ConsumerType
    <2> QED
      BY <2>1, <2>2, <2>3
  <1>3. /\ HandInv'
        /\ \A e \in EntryIds :
             owner'[e] = owner[e] \/ (e = cur[w] /\ wpc[w] = "ack" /\ e \in todo[w])
    BY ReleaseHand DEF RecordFails, Acknowledge, LoopError, Crash, Group
  <1>4. \A v \in Workers : todo'[v] \in SUBSET todo[v]
    BY <1>2 DEF WorkerType, ConsumerType
  <1>5. ASSUME NEW r \in Remittances, NEW e \in EntryIds, Anchor(r, e)
        PROVE  Anchor(r, e)'
    <2>1. ~(e = cur[w] /\ wpc[w] = "ack" /\ e \in todo[w])
      BY <1>5 DEF Anchor, Safe
    <2>2. e \in Pending' /\ stream'[e] = r
      BY <1>1, <1>3, <1>5, <2>1 DEF Anchor, Pending
    <2>3. ASSUME e \in todo'[w]
          PROVE  fetched'[w] # "new" /\ wpc'[w] = "claim"
      <3>1. e \in todo[w] /\ e # cur[w] /\ Advance(w)
        BY <1>2, <2>3 DEF WorkerType, ConsumerType
      <3>2. fetched[w] # "new"
        BY <1>5, <3>1 DEF Anchor, Safe
      <3> QED
        BY <3>1, <3>2 DEF Advance, Handle, WorkerType, ConsumerType
    <2>4. Safe(e)'
      BY <1>2, <1>4, <1>5, <2>3 DEF Anchor, Safe
    <2> QED
      BY <2>2, <2>4 DEF Anchor
  <1> QED
    BY <1>1, <1>3, <1>5 DEF AnchorInv

(* It is inductive, if no settlement is slow.                             *)
LEMMA NextRecovery ==
  ASSUME ~SlowSettlement PROVE RecoveryInv /\ [Next]_vars => RecoveryInv'
  <1> SUFFICES ASSUME RecoveryInv, [Next]_vars PROVE HandInv' /\ AnchorInv'
    BY NextType DEF RecoveryInv
  <1>1. CASE UNCHANGED vars
    BY <1>1, RequestRecovery DEF vars, rows, redis
  <1>2. ASSUME NEW q \in Requests, NEW r \in Remittances,
               ReadQuoted(q, r) \/ ReadConfirmed(q, r) \/ ReadFailed(q, r)
                 \/ ReadRefundable(q, r)
        PROVE  HandInv' /\ AnchorInv'
    BY <1>2, RequestRecovery DEF ReadQuoted, ReadConfirmed, ReadFailed,
         ReadRefundable, Begin, rows, redis
  <1>3. ASSUME NEW q \in Requests, RequestStep(q) \/ PublishFails(q) \/ RequestDies(q)
        PROVE  HandInv' /\ AnchorInv'
    <2>1. UNCHANGED <<owner, worker>>
      BY <1>3 DEF RequestStep, CommitCashIn, CommitRequeue, CommitRefund,
           LoadForQueue, Publish, XAdd, CommitQueued, PublishFails, RequestDies, redis
    <2>2. stream' = stream \/ (\E r \in Remittances : stream' = Append(stream, r))
      BY <1>3 DEF RequestStep, CommitCashIn, CommitRequeue, CommitRefund,
           LoadForQueue, Publish, XAdd, CommitQueued, PublishFails, RequestDies, redis,
           RecoveryInv, TypeOK, RequestType
    <2>3. \A r \in Remittances : status'[r] = "SETTLING" => status[r] = "SETTLING"
      BY <1>3 DEF RequestStep, CommitCashIn, CommitRequeue, CommitRefund,
           LoadForQueue, Publish, CommitQueued, PublishFails, RequestDies, rows,
           SetStatus, RecoveryInv, TypeOK, RowsType
    <2> QED
      BY <2>1, <2>2, <2>3, RequestRecovery
  <1> QED
    BY <1>1, <1>2, <1>3, FetchRecovery, SettleRecovery, EndRecovery
      DEF Next, WorkerStep

(***************************************************************************)
(* As long as no settlement outlasts settlement_reclaim_idle_ms, no        *)
(* remittance is ever stranded in SETTLING without a message.              *)
(***************************************************************************)
THEOREM SettlingHasMessageHolds ==
  ASSUME ~SlowSettlement PROVE Spec => []SettlingHasMessage
  <1>1. RecoveryInv => SettlingHasMessage
    BY DEF RecoveryInv, AnchorInv, Anchor, SettlingHasMessage
  <1> QED
    BY <1>1, InitRecovery, NextRecovery, PTL DEF Spec

-----------------------------------------------------------------------------
(***************************************************************************)
(* The queue under the remittances delivers as Delivery says.              *)
(***************************************************************************)

(* A step that leaves Redis and the batches alone is no step of Delivery.  *)
LEMMA DeliveryStutters == UNCHANGED <<redis, todo>> => UNCHANGED D!vars
  BY DEF redis, D!vars, Pending

(* Every step is one of Delivery or none.                                  *)
LEMMA DeliveryStep == TypeOK /\ [Next]_vars => [D!Next]_(D!vars)
  <1> SUFFICES ASSUME TypeOK, [Next]_vars PROVE D!Next \/ UNCHANGED D!vars
    OBVIOUS
  <1>1. CASE UNCHANGED vars
    BY <1>1, DeliveryStutters DEF vars, worker
  <1>2. ASSUME NEW q \in Requests, NEW r \in Remittances,
               ReadQuoted(q, r) \/ ReadConfirmed(q, r) \/ ReadFailed(q, r)
                 \/ ReadRefundable(q, r)
        PROVE  UNCHANGED D!vars
    BY <1>2, DeliveryStutters DEF ReadQuoted, ReadConfirmed, ReadFailed,
         ReadRefundable, Begin, worker
  <1>3. ASSUME NEW q \in Requests, RequestStep(q) \/ PublishFails(q) \/ RequestDies(q)
        PROVE  D!Next \/ UNCHANGED D!vars
    <2>1. CASE Publish(q)
      <3>1. rem[q] \in Remittances
        BY <2>1 DEF Publish, TypeOK, RequestType
      <3>2. D!Send(rem[q])
        BY <2>1 DEF Publish, XAdd, worker, Pending, D!Send
      <3> QED
        BY <3>1, <3>2 DEF D!Next
    <2>2. CASE ~Publish(q)
      BY <1>3, <2>2, DeliveryStutters DEF RequestStep, CommitCashIn, CommitRequeue,
           CommitRefund, LoadForQueue, CommitQueued, PublishFails, RequestDies, worker
    <2> QED
      BY <2>1, <2>2
  <1>4. ASSUME NEW w \in Workers,
               \/ Claim(w) \/ Skip(w) \/ Submit(w) \/ SubmitRejected(w)
               \/ ResolveFails(w) \/ Fail(w) \/ RecordSuccess(w)
               \/ SubmitUnanswered(w)
        PROVE  UNCHANGED D!vars
    BY <1>4, DeliveryStutters DEF Claim, Skip, Submit, SubmitRejected, ResolveFails,
         Fail, RecordSuccess, SubmitUnanswered, Step
  <1>5. ASSUME NEW w \in Workers, ReadNew(w) \/ ReclaimStale(w) \/ ReadPending(w)
        PROVE  D!Next
    <2>1. FetchNew(w) \/ FetchStale(w) \/ FetchPending(w)
      BY <1>5 DEF ReadNew, ReclaimStale, ReadPending
    <2>2. D!Deliver(w) \/ D!Redeliver(w)
      BY <2>1, TypeParts, FetchDelivers DEF Group, D!Deliver, D!Redeliver
    <2> QED
      BY <2>2 DEF D!Next
  <1>6. ASSUME NEW w \in Workers,
               RecordFails(w) \/ Acknowledge(w) \/ LoopError(w) \/ Crash(w)
        PROVE  D!Next
    <2>1. LeaveUnacked(w) \/ Ack(w) \/ Escape(w) \/ Die(w)
      BY <1>6 DEF RecordFails, Acknowledge, LoopError, Crash
    <2>2. D!Finish(w) \/ D!LetGo(w)
      BY <2>1, TypeParts, ReleaseDelivers DEF Group, D!Finish, D!LetGo
    <2> QED
      BY <2>2 DEF D!Next
  <1> QED
    BY <1>1, <1>2, <1>3, <1>4, <1>5, <1>6 DEF Next, WorkerStep

(***************************************************************************)
(* At-least-once delivery to competing consumers, for any number of        *)
(* workers and messages and whatever faults there are: what is published   *)
(* is given out in order, stays open until a worker that has it acks it,   *)
(* and is not given out afterwards.                                        *)
(***************************************************************************)
THEOREM ImplementsDeliveryHolds == Spec => ImplementsDelivery
  <1>1. Init => D!Init
    BY DEF Init, GroupInit, D!Init, Pending
  <1>2. TypeOK /\ [Next]_vars => [D!Next]_(D!vars)
    BY DeliveryStep
  <1> QED
    BY <1>1, <1>2, TypeCorrect, PTL DEF Spec, ImplementsDelivery, D!Spec
=============================================================================
