---------------------------- MODULE CashOutProofs ----------------------------
(***************************************************************************)
(* Proofs about CashOut, for any cash-outs, workers, requests and bounds.  *)
(***************************************************************************)
EXTENDS CashOut, ConsumerGroupProofs, FiniteSetTheorems

USE NoWorkerAssumption, EntriesAssumption, NoCashOutAssumption, CashOutBoundsAssumption

-----------------------------------------------------------------------------
(***************************************************************************)
(* Type correctness.  The stream and the workers are typed as a group.     *)
(***************************************************************************)
Group == GroupType(CashOuts, WorkerPC)

(* TypeOK, with the group as one of its parts.                             *)
LEMMA TypeParts ==
  TypeOK <=> RowsType /\ Group /\ RequestType /\ faults \in 0 .. MaxFaults
  BY DEF TypeOK, Group, GroupType

(* The same of the next state.                                             *)
LEMMA TypePartsNext ==
  TypeOK' <=> RowsType' /\ Group' /\ RequestType' /\ faults' \in 0 .. MaxFaults
  BY DEF TypeOK, Group, GroupType

(* The steps of the worker's program.                                      *)
LEMMA WorkerPCs ==
  {"down", "idle", "claim"} \subseteq WorkerPC /\ {"idle", "claim"} \subseteq WorkerPC
  BY DEF WorkerPC

(* The initial state is well typed.                                        *)
LEMMA InitType == Init => TypeOK
  <1> SUFFICES ASSUME Init PROVE TypeOK
    OBVIOUS
  <1>1. Group
    BY GroupInitType, WorkerPCs DEF Init, Group
  <1>2. RowsType /\ RequestType /\ faults \in 0 .. MaxFaults
    BY DEF Init, RowsType, RequestType, CashOutStatus, RequestPC
  <1> QED
    BY <1>1, <1>2, TypeParts

(* What a step leaves alone stays well typed: the rows and the chain,      *)
LEMMA RowsFrame == RowsType /\ UNCHANGED <<rows, burned>> => RowsType'
  BY DEF RowsType, rows

(* the stream and the workers,                                             *)
LEMMA CashOutGroupFrame == Group /\ UNCHANGED <<redis, worker>> => Group'
  BY GroupFrame DEF Group

(* and the requests.                                                       *)
LEMMA RequestFrame == RequestType /\ UNCHANGED request => RequestType'
  BY DEF RequestType, request

(* A request that ends stays well typed.                                   *)
LEMMA FinishType ==
  ASSUME RequestType, NEW q \in Requests, Finish(q)
  PROVE  RequestType'
  BY DEF RequestType, Finish, Goto, RequestPC

(* Faults are counted up to their bound.                                   *)
LEMMA FaultType ==
  ASSUME faults \in 0 .. MaxFaults, NEW kind, Fault(kind)
  PROVE  faults' \in 0 .. MaxFaults
  BY DEF Fault

(* A worker with an entry in hand has a cash-out to burn for.              *)
LEMMA CurrentCashOut ==
  ASSUME Group, NEW w \in Workers, wpc[w] \notin {"down", "idle"}
  PROVE  Current(w) \in CashOuts
  BY CurrentType DEF Group

(* Every step of a request keeps the types.                                *)
LEMMA RequestTypes ==
  ASSUME TypeOK, NEW q \in Requests,
         RequestStep(q) \/ PublishFails(q) \/ RequestDies(q)
  PROVE  TypeOK'
  <1> USE TypeParts, TypePartsNext
  <1>1. CASE CommitDebit(q)
    <2>1. RequestType'
      BY <1>1, FinishType DEF CommitDebit
    <2>2. RowsType'
      BY <1>1 DEF CommitDebit, Reserve, RowsType, RequestType, SetStatus, CashOutStatus
    <2> QED
      BY <1>1, <2>1, <2>2, CashOutGroupFrame DEF CommitDebit
  <1>2. CASE CommitApprove(q)
    <2>1. RequestType'
      BY <1>2 DEF CommitApprove, Goto, RequestType, RequestPC
    <2>2. RowsType'
      BY <1>2 DEF CommitApprove, Overwrite, RowsType, RequestType, SetStatus, CashOutStatus
    <2> QED
      BY <1>2, <2>1, <2>2, CashOutGroupFrame DEF CommitApprove
  <1>3. CASE LoadForBurn(q)
    <2>1. RequestType'
      <3>1. CASE Goto(q, "publish") /\ UNCHANGED ref
        BY <1>3, <3>1 DEF LoadForBurn, Goto, RequestType, RequestPC
      <3> QED
        BY <1>3, <3>1, FinishType DEF LoadForBurn
    <2> QED
      BY <1>3, <2>1, RowsFrame, CashOutGroupFrame DEF LoadForBurn
  <1>4. CASE Publish(q)
    <2>1. ref[q] \in CashOuts
      BY <1>4 DEF Publish, RequestType
    <2>2. Group'
      BY <1>4, <2>1, XAddType DEF Publish, Group
    <2> QED
      BY <1>4, <2>2, RowsFrame, FinishType DEF Publish
  <1>5. CASE CommitReject(q)
    <2>1. RequestType'
      BY <1>5, FinishType DEF CommitReject
    <2>2. RowsType'
      BY <1>5 DEF CommitReject, Refund, Overwrite, RowsType, RequestType, SetStatus,
           CashOutStatus
    <2> QED
      BY <1>5, <2>1, <2>2, CashOutGroupFrame DEF CommitReject
  <1>6. CASE PublishFails(q)
    BY <1>6, FinishType, FaultType, RowsFrame, CashOutGroupFrame DEF PublishFails
  <1>7. CASE RequestDies(q)
    BY <1>7, FinishType, FaultType, RowsFrame, CashOutGroupFrame DEF RequestDies
  <1> QED
    BY <1>1, <1>2, <1>3, <1>4, <1>5, <1>6, <1>7 DEF RequestStep

(* Every step of a worker's loop keeps the types,                          *)
LEMMA LoopTypes ==
  ASSUME TypeOK, NEW w \in Workers,
         \/ ReadNew(w) \/ ReclaimStale(w) \/ ReadPending(w)
         \/ CompleteFails(w) \/ Acknowledge(w) \/ LoopError(w) \/ Crash(w)
         \/ (CheckFail(w) /\ Escape(w))
  PROVE  TypeOK'
  <1> USE TypeParts, TypePartsNext
  <1>1. RowsType' /\ RequestType'
    BY RowsFrame, RequestFrame DEF ReadNew, ReclaimStale, ReadPending,
         CompleteFails, Acknowledge, LoopError, Crash, CheckFail, Elsewhere
  <1>2. faults' \in 0 .. MaxFaults
    BY FaultType DEF ReadNew, ReclaimStale, ReadPending, CompleteFails,
         Acknowledge, LoopError, Crash, CheckFail, Elsewhere
  <1>3. Group'
    BY WorkerPCs, FetchType, ReleaseType DEF ReadNew, ReclaimStale, ReadPending,
         CompleteFails, Acknowledge, LoopError, Crash, Group
  <1> QED
    BY <1>1, <1>2, <1>3

(* and so does every step of burning for a cash-out.                       *)
BurnStep(w) ==
  \/ Claim(w) \/ Skip(w) \/ Burn(w) \/ BurnRejected(w) \/ BurnUnanswered(w)
  \/ Complete(w) \/ (CheckFail(w) /\ Step(w, "fail", "refund")) \/ CommitFail(w)

LEMMA BurnTypes ==
  ASSUME TypeOK, NEW w \in Workers, BurnStep(w)
  PROVE  TypeOK'
  <1> USE TypeParts, TypePartsNext
  <1>1. /\ wpc[w] \notin {"down", "idle"}
        /\ UNCHANGED request
        /\ \E from, to \in WorkerPC \ {"down", "idle"} : Step(w, from, to)
    BY DEF BurnStep, Claim, Skip, Burn, BurnRejected, BurnUnanswered, Complete,
         CheckFail, CommitFail, Elsewhere, Step, WorkerPC
  <1>2. Group' /\ RequestType'
    BY <1>1, RequestFrame, StepType DEF Group
  <1>3. Current(w) \in CashOuts
    BY <1>1, CurrentCashOut
  <1>4. faults' \in 0 .. MaxFaults
    BY FaultType DEF BurnStep, Claim, Skip, Burn, BurnRejected, BurnUnanswered,
         Complete, CheckFail, CommitFail, Elsewhere
  <1>5. RowsType'
    <2>1. CASE Claim(w)
      BY <1>3, <2>1 DEF Claim, SetStatus, RowsType, CashOutStatus
    <2>2. CASE Skip(w) \/ BurnRejected(w) \/ CheckFail(w)
      BY <2>2, RowsFrame DEF Skip, BurnRejected, CheckFail, Elsewhere
    <2>3. CASE Burn(w) \/ BurnUnanswered(w)
      BY <1>3, <2>3 DEF Burn, BurnUnanswered, BurnOnChain, RowsType, rows
    <2>4. CASE Complete(w)
      BY <1>3, <2>4 DEF Complete, SetStatus, RowsType, CashOutStatus
    <2>5. CASE CommitFail(w)
      BY <1>3, <2>5 DEF CommitFail, Refund, SetStatus, RowsType, CashOutStatus
    <2> QED
      BY <2>1, <2>2, <2>3, <2>4, <2>5 DEF BurnStep
  <1> QED
    BY <1>2, <1>4, <1>5

(* The steps of the specification, sorted by what they touch.              *)
LEMMA NextCases ==
  ASSUME [Next]_vars
  PROVE  \/ UNCHANGED vars
         \/ \E q \in Requests, c \in CashOuts :
              \/ ReadNewKey(q, c) \/ ReadRequested(q, c) \/ ReadApproved(q, c)
              \/ ReadRejectable(q, c)
         \/ \E q \in Requests : RequestStep(q) \/ PublishFails(q) \/ RequestDies(q)
         \/ \E w \in Workers : BurnStep(w)
         \/ \E w \in Workers :
              \/ ReadNew(w) \/ ReclaimStale(w) \/ ReadPending(w)
              \/ CompleteFails(w) \/ Acknowledge(w) \/ LoopError(w) \/ Crash(w)
              \/ (CheckFail(w) /\ Escape(w))
  <1>1. \A w \in Workers :
          CheckFail(w) => (CheckFail(w) /\ Step(w, "fail", "refund"))
                            \/ (CheckFail(w) /\ Escape(w))
    BY DEF CheckFail
  <1> QED
    BY <1>1 DEF Next, WorkerStep, BurnStep

(* The type invariant is inductive.                                        *)
LEMMA NextType == TypeOK /\ [Next]_vars => TypeOK'
  <1> SUFFICES ASSUME TypeOK, [Next]_vars PROVE TypeOK'
    OBVIOUS
  <1>1. CASE UNCHANGED vars
    BY <1>1, TypeParts, TypePartsNext, RowsFrame, CashOutGroupFrame, RequestFrame
      DEF vars
  <1>2. ASSUME NEW q \in Requests, NEW c \in CashOuts,
               \/ ReadNewKey(q, c) \/ ReadRequested(q, c) \/ ReadApproved(q, c)
               \/ ReadRejectable(q, c)
        PROVE  TypeOK'
    <2>1. PICK pc \in RequestPC \ {"free"} : Begin(q, c, pc)
      BY <1>2 DEF ReadNewKey, ReadRequested, ReadApproved, ReadRejectable, RequestPC
    <2>2. RequestType'
      BY <2>1, TypeParts DEF RequestType, Begin, Goto
    <2> QED
      BY <2>1, <2>2, TypeParts, TypePartsNext, RowsFrame, CashOutGroupFrame DEF Begin
  <1> QED
    BY <1>1, <1>2, RequestTypes, LoopTypes, BurnTypes, NextCases

(***************************************************************************)
(* The type invariant holds in every reachable state; in particular no     *)
(* race of requests takes the balance below zero.                          *)
(***************************************************************************)
THEOREM CashOutTypeCorrect == Spec => []TypeOK
  BY InitType, NextType, PTL DEF Spec

-----------------------------------------------------------------------------
(***************************************************************************)
(* What the rows say.  A row is there once its debit is, and stays; a      *)
(* request or a worker that is about to write knows that it is there.      *)
(***************************************************************************)
BookInv ==
  /\ \A c \in CashOuts :
       /\ debits[c] = IF status[c] = "NONE" THEN 0 ELSE 1
       /\ burned[c] + refunds[c] > 0 => status[c] # "NONE"
       /\ status[c] = "COMPLETED" => fiat[c] > 0
       /\ status[c] = "FAILED" => refunds[c] > 0
  /\ \A q \in Requests : rpc[q] \notin {"free", "debit"} => status[ref[q]] # "NONE"
  /\ \A w \in Workers : Burning(w) => status[Current(w)] # "NONE"

(* It holds at the start.                                                  *)
LEMMA InitBook == Init => BookInv
  BY DEF Init, GroupInit, BookInv, Burning

(* A step of a request leaves the workers' cash-outs what they are.        *)
LEMMA RequestKeepsCurrent ==
  ASSUME TypeOK, NEW q \in Requests,
         RequestStep(q) \/ PublishFails(q) \/ RequestDies(q)
  PROVE  /\ wpc' = wpc /\ burned' = burned
         /\ \A w \in Workers : wpc[w] \notin {"down", "idle"} => Current(w)' = Current(w)
  <1>1. /\ UNCHANGED worker /\ burned' = burned
        /\ stream' = stream \/ (\E c \in CashOuts : stream' = Append(stream, c))
    BY DEF RequestStep, CommitDebit, CommitApprove, LoadForBurn, Publish, XAdd,
         CommitReject, PublishFails, RequestDies, redis, TypeOK, RequestType
  <1> QED
    BY <1>1, CurrentKept, TypeParts DEF Group, worker

(* Requests keep the invariant.                                            *)
LEMMA RequestBook ==
  ASSUME TypeOK, BookInv, NEW q \in Requests,
         RequestStep(q) \/ PublishFails(q) \/ RequestDies(q)
  PROVE  BookInv'
  <1> USE DEF TypeOK, Goto, Finish, SetStatus
  <1>1. /\ wpc' = wpc /\ burned' = burned
        /\ \A w \in Workers : Burning(w) => Current(w)' = Current(w)
    BY RequestKeepsCurrent DEF Burning
  <1>2. \A w \in Workers : Burning(w) => Current(w) \in CashOuts
    BY CurrentCashOut, TypeParts DEF Burning
  <1>3. CASE CommitDebit(q)
    BY <1>1, <1>2, <1>3 DEF CommitDebit, Reserve, BookInv, Burning, RowsType, RequestType
  <1>4. CASE CommitApprove(q)
    BY <1>1, <1>2, <1>4 DEF CommitApprove, BookInv, Burning, RowsType, RequestType
  <1>5. CASE LoadForBurn(q) \/ Publish(q) \/ PublishFails(q) \/ RequestDies(q)
    BY <1>1, <1>5 DEF LoadForBurn, Publish, PublishFails, RequestDies, BookInv,
         Burning, RequestType, rows
  <1>6. CASE CommitReject(q)
    BY <1>1, <1>2, <1>6 DEF CommitReject, Refund, BookInv, Burning, RowsType, RequestType
  <1> QED
    BY <1>3, <1>4, <1>5, <1>6 DEF RequestStep

(* A worker burning for a cash-out keeps the invariant.                    *)
LEMMA BurnBook ==
  ASSUME TypeOK, BookInv, NEW w \in Workers, BurnStep(w)
  PROVE  BookInv'
  <1> USE DEF TypeOK, SetStatus
  <1>1. /\ wpc[w] \notin {"down", "idle"} /\ UNCHANGED <<request, stream, cur>>
        /\ \E to \in WorkerPC : wpc' = [wpc EXCEPT ![w] = to]
    BY DEF BurnStep, Claim, Skip, Burn, BurnRejected, BurnUnanswered, Complete,
         CheckFail, CommitFail, Elsewhere, Step, WorkerPC, redis
  <1>2. \A v \in Workers : Current(v)' = Current(v)
    BY <1>1 DEF Current
  <1>3. PICK c \in CashOuts : c = Current(w)
    BY <1>1, CurrentCashOut, TypeParts
  <1>4. \A v \in Workers : Burning(v) => Current(v) \in CashOuts
    BY CurrentCashOut, TypeParts DEF Burning
  <1>5. \A v \in Workers \ {w} : Burning(v)' <=> Burning(v)
    BY <1>1 DEF Burning, ConsumerType
  <1> USE DEF BookInv, RowsType, RequestType, request
  <1>6. CASE Claim(w)
    BY <1>1, <1>2, <1>3, <1>4, <1>5, <1>6 DEF Claim
  <1>7. CASE Skip(w) \/ BurnRejected(w) \/ CheckFail(w)
    <2>1. Burning(w)' => Burning(w)
      BY <1>7 DEF Skip, BurnRejected, CheckFail, Step, Escape, Stop, Handle,
           Burning, ConsumerType
    <2> QED
      BY <1>1, <1>2, <1>5, <1>7, <2>1 DEF Skip, BurnRejected, CheckFail, Elsewhere, rows
  <1>8. CASE Burn(w) \/ BurnUnanswered(w)
    <2>1. Burning(w)
      BY <1>8 DEF Burn, BurnUnanswered, Step, Burning
    <2> QED
      BY <1>1, <1>2, <1>3, <1>5, <1>8, <2>1 DEF Burn, BurnUnanswered, BurnOnChain, rows
  <1>9. CASE Complete(w)
    <2>1. Burning(w)
      BY <1>9 DEF Complete, Step, Burning
    <2> QED
      BY <1>1, <1>2, <1>3, <1>4, <1>5, <1>9, <2>1 DEF Complete
  <1>10. CASE CommitFail(w)
    <2>1. Burning(w)
      BY <1>10 DEF CommitFail, Step, Burning
    <2> QED
      BY <1>1, <1>2, <1>3, <1>4, <1>5, <1>10, <2>1 DEF CommitFail, Refund
  <1> QED
    BY <1>6, <1>7, <1>8, <1>9, <1>10 DEF BurnStep

(* The invariant is inductive.                                             *)
LEMMA NextBook == TypeOK /\ BookInv /\ [Next]_vars => BookInv'
  <1> SUFFICES ASSUME TypeOK, BookInv, [Next]_vars PROVE BookInv'
    OBVIOUS
  <1>1. CASE UNCHANGED vars
    BY <1>1 DEF BookInv, vars, rows, redis, worker, request, Current, Burning
  <1>2. ASSUME NEW q \in Requests, NEW c \in CashOuts,
               \/ ReadNewKey(q, c) \/ ReadRequested(q, c) \/ ReadApproved(q, c)
               \/ ReadRejectable(q, c)
        PROVE  BookInv'
    <2>1. PICK pc \in RequestPC :
            Begin(q, c, pc) /\ (pc = "debit" \/ status[c] # "NONE")
      BY <1>2 DEF ReadNewKey, ReadRequested, ReadApproved, ReadRejectable, RequestPC
    <2> QED
      BY <2>1 DEF Begin, Goto, TypeOK, BookInv, RequestType, rows, redis, worker,
           Current, Burning
  <1>3. ASSUME NEW w \in Workers,
               \/ ReadNew(w) \/ ReclaimStale(w) \/ ReadPending(w)
               \/ CompleteFails(w) \/ Acknowledge(w) \/ LoopError(w) \/ Crash(w)
               \/ (CheckFail(w) /\ Escape(w))
        PROVE  BookInv'
    <2>1. UNCHANGED <<rows, burned, request>>
      BY <1>3 DEF ReadNew, ReclaimStale, ReadPending, CompleteFails, Acknowledge,
           LoopError, Crash, CheckFail, Elsewhere
    <2>2. /\ stream' = stream
          /\ \A v \in Workers \ {w} : wpc'[v] = wpc[v] /\ cur'[v] = cur[v]
          /\ wpc'[w] \in {"down", "idle", "claim"}
      BY <1>3, GroupMoves DEF ReadNew, ReclaimStale, ReadPending, CompleteFails,
           Acknowledge, LoopError, Crash, TypeOK
    <2> QED
      BY <2>1, <2>2 DEF BookInv, rows, request, Current, Burning
  <1> QED
    BY <1>1, <1>2, <1>3, RequestBook, BurnBook, NextCases

(* So it holds in every reachable state.                                   *)
LEMMA BookInvariant == Spec => [](TypeOK /\ BookInv)
  BY InitType, InitBook, NextType, NextBook, PTL DEF Spec

(***************************************************************************)
(* One key, one debit, however many requests carry the key at the same     *)
(* time.                                                                   *)
(***************************************************************************)
THEOREM DebitedOnceHolds == Spec => []DebitedOnce
  <1>1. TypeOK /\ BookInv => DebitedOnce
    BY DEF TypeOK, RowsType, BookInv, DebitedOnce
  <1> QED
    BY <1>1, BookInvariant, PTL

(***************************************************************************)
(* COMPLETED and FAILED are only ever shown of a cash-out that was paid,   *)
(* or refunded.                                                            *)
(***************************************************************************)
THEOREM CashOutStatusTrueHolds == Spec => []FinalStatusTrue
  <1>1. BookInv => FinalStatusTrue
    BY DEF BookInv, FinalStatusTrue
  <1> QED
    BY <1>1, BookInvariant, PTL

-----------------------------------------------------------------------------
(***************************************************************************)
(* A PROCESSING cash-out has a worker, when workers and their writes are   *)
(* not lost.  Only a claim writes PROCESSING, and every way out of         *)
(* Burning ends the status, or was opened by its having ended.             *)
(***************************************************************************)

(* A worker that moves from one step of its burn to another.               *)
LEMMA BurnHeld ==
  ASSUME TypeOK, ProcessingHasWorker, NEW w \in Workers, BurnStep(w)
  PROVE  ProcessingHasWorker'
  <1> USE DEF TypeOK, SetStatus
  <1>1. /\ wpc[w] \notin {"down", "idle"} /\ UNCHANGED <<stream, cur>>
        /\ \E to \in WorkerPC : wpc' = [wpc EXCEPT ![w] = to]
    BY DEF BurnStep, Claim, Skip, Burn, BurnRejected, BurnUnanswered, Complete,
         CheckFail, CommitFail, Elsewhere, Step, WorkerPC, redis
  <1>2. \A v \in Workers : Current(v)' = Current(v)
    BY <1>1 DEF Current
  <1>3. PICK c \in CashOuts : c = Current(w)
    BY <1>1, CurrentCashOut, TypeParts
  <1>4. \A v \in Workers \ {w} : Burning(v)' <=> Burning(v)
    BY <1>1 DEF Burning, ConsumerType
  <1>5. /\ \A d \in CashOuts \ {c} : status'[d] = status[d]
        /\ status'[c] = "PROCESSING" => Burning(w)' \/ (UNCHANGED status /\ ~Burning(w))
    <2>1. CASE Claim(w)
      BY <1>3, <2>1 DEF Claim, Step, Burning, RowsType, ConsumerType
    <2>2. CASE Skip(w)
      BY <2>2 DEF Skip, Step, Elsewhere, rows, Burning
    <2>3. CASE Burn(w) \/ BurnRejected(w) \/ BurnUnanswered(w)
               \/ (CheckFail(w) /\ Step(w, "fail", "refund"))
      BY <2>3 DEF Burn, BurnRejected, BurnUnanswered, CheckFail, Step, Elsewhere,
           rows, Burning, ConsumerType
    <2>4. CASE Complete(w)
      BY <1>3, <2>4 DEF Complete, RowsType
    <2>5. CASE CommitFail(w)
      BY <1>3, <2>5 DEF CommitFail, Refund, RowsType
    <2> QED
      BY <2>1, <2>2, <2>3, <2>4, <2>5 DEF BurnStep
  <1> QED
    BY <1>2, <1>3, <1>4, <1>5 DEF ProcessingHasWorker

(* The invariant is inductive.                                             *)
LEMMA NextHeld ==
  ASSUME FaultKinds \cap {"record", "loop", "crash"} = {}
  PROVE  TypeOK /\ ProcessingHasWorker /\ [Next]_vars => ProcessingHasWorker'
  <1> SUFFICES ASSUME TypeOK, ProcessingHasWorker, [Next]_vars
               PROVE  ProcessingHasWorker'
    OBVIOUS
  <1>1. CASE UNCHANGED vars
    BY <1>1 DEF ProcessingHasWorker, vars, rows, redis, worker, Current, Burning
  <1>2. ASSUME NEW q \in Requests, NEW c \in CashOuts,
               \/ ReadNewKey(q, c) \/ ReadRequested(q, c) \/ ReadApproved(q, c)
               \/ ReadRejectable(q, c)
        PROVE  ProcessingHasWorker'
    BY <1>2 DEF ReadNewKey, ReadRequested, ReadApproved, ReadRejectable, Begin,
         ProcessingHasWorker, rows, redis, worker, Current, Burning
  <1>3. ASSUME NEW q \in Requests, RequestStep(q) \/ PublishFails(q) \/ RequestDies(q)
        PROVE  ProcessingHasWorker'
    <2>1. \A c \in CashOuts : status'[c] = "PROCESSING" => status[c] = "PROCESSING"
      BY <1>3 DEF RequestStep, CommitDebit, Reserve, CommitApprove, LoadForBurn,
           Publish, CommitReject, Refund, PublishFails, RequestDies, SetStatus,
           rows, TypeOK, RowsType, RequestType
    <2> QED
      BY <1>3, <2>1, RequestKeepsCurrent DEF ProcessingHasWorker, Burning
  <1>4. ASSUME NEW w \in Workers,
               \/ ReadNew(w) \/ ReclaimStale(w) \/ ReadPending(w)
               \/ CompleteFails(w) \/ Acknowledge(w) \/ LoopError(w) \/ Crash(w)
               \/ (CheckFail(w) /\ Escape(w))
        PROVE  ProcessingHasWorker'
    <2>1. /\ stream' = stream
          /\ \A v \in Workers \ {w} : wpc'[v] = wpc[v] /\ cur'[v] = cur[v]
      BY <1>4, GroupMoves DEF ReadNew, ReclaimStale, ReadPending, CompleteFails,
           Acknowledge, LoopError, Crash, TypeOK
    <2>2. UNCHANGED status
      BY <1>4 DEF ReadNew, ReclaimStale, ReadPending, CompleteFails, Acknowledge,
           LoopError, Crash, CheckFail, Elsewhere, rows
    <2>3. Burning(w) => status[Current(w)] # "PROCESSING"
      <3>1. ~CompleteFails(w) /\ ~LoopError(w) /\ ~Crash(w)
        BY DEF CompleteFails, LoopError, Crash, Fault
      <3>2. CASE CheckFail(w) /\ Escape(w)
        BY <3>2 DEF CheckFail, Step, Escape, Stop, Handle, TypeOK, ConsumerType
      <3> QED
        BY <1>4, <3>1, <3>2 DEF ReadNew, ReclaimStale, ReadPending, Acknowledge,
             FetchNew, FetchStale, FetchPending, Ack, Burning
    <2> QED
      BY <2>1, <2>2, <2>3 DEF ProcessingHasWorker, Burning, Current
  <1> QED
    BY <1>1, <1>2, <1>3, <1>4, BurnHeld, NextCases

(***************************************************************************)
(* As long as no worker is lost between its claim and its last commit, no  *)
(* cash-out is left in PROCESSING: requests that race the worker, lost     *)
(* answers and redeliveries cannot strand one.                             *)
(***************************************************************************)
THEOREM ProcessingHasWorkerHolds ==
  ASSUME FaultKinds \cap {"record", "loop", "crash"} = {}
  PROVE  Spec => []ProcessingHasWorker
  <1>1. Init => ProcessingHasWorker
    BY DEF Init, ProcessingHasWorker
  <1> QED
    BY <1>1, InitType, NextType, NextHeld, PTL DEF Spec

(* What is in a worker's hands stays its own.                              *)
LEMMA NextHand ==
  ASSUME ~SlowSettlement
  PROVE  TypeOK /\ HandInv /\ [Next]_vars => HandInv'
  <1> SUFFICES ASSUME TypeOK, HandInv, [Next]_vars PROVE HandInv'
    OBVIOUS
  <1>1. ASSUME UNCHANGED <<owner, todo>>
        PROVE  HandInv'
    BY <1>1 DEF HandInv
  <1>2. CASE UNCHANGED vars
    BY <1>1, <1>2 DEF vars, redis, worker
  <1>3. ASSUME NEW q \in Requests, NEW c \in CashOuts,
               \/ ReadNewKey(q, c) \/ ReadRequested(q, c) \/ ReadApproved(q, c)
               \/ ReadRejectable(q, c)
        PROVE  HandInv'
    BY <1>1, <1>3 DEF ReadNewKey, ReadRequested, ReadApproved, ReadRejectable, Begin,
         redis, worker
  <1>4. ASSUME NEW q \in Requests, RequestStep(q) \/ PublishFails(q) \/ RequestDies(q)
        PROVE  HandInv'
    BY <1>1, <1>4 DEF RequestStep, CommitDebit, CommitApprove, LoadForBurn, Publish,
         XAdd, CommitReject, PublishFails, RequestDies, redis, worker
  <1>5. ASSUME NEW w \in Workers, BurnStep(w)
        PROVE  HandInv'
    BY <1>1, <1>5 DEF BurnStep, Claim, Skip, Burn, BurnRejected, BurnUnanswered,
         Complete, CheckFail, CommitFail, Step, redis
  <1>6. ASSUME NEW w \in Workers,
               \/ ReadNew(w) \/ ReclaimStale(w) \/ ReadPending(w)
               \/ CompleteFails(w) \/ Acknowledge(w) \/ LoopError(w) \/ Crash(w)
               \/ (CheckFail(w) /\ Escape(w))
        PROVE  HandInv'
    BY <1>6, TypeParts, FetchHand, ReleaseHand DEF ReadNew, ReclaimStale, ReadPending,
         CompleteFails, Acknowledge, LoopError, Crash, Group
  <1> QED
    BY <1>2, <1>3, <1>4, <1>5, <1>6, NextCases

(***************************************************************************)
(* If besides no burn outlasts settlement_reclaim_idle_ms, a PROCESSING    *)
(* cash-out always has its message: the worker that has it cannot lose the *)
(* message to another, which would find PROCESSING, skip it and ack it.    *)
(***************************************************************************)
THEOREM ProcessingHasMessageHolds ==
  ASSUME ~SlowSettlement, FaultKinds \cap {"record", "loop", "crash"} = {}
  PROVE  Spec => []ProcessingHasMessage
  <1>1. Init => HandInv
    BY DEF Init, GroupInit, HandInv
  <1>2. TypeOK /\ HandInv /\ [Next]_vars => HandInv'
    BY NextHand
  <1>3. TypeOK /\ HandInv /\ ProcessingHasWorker => ProcessingHasMessage
    <2> SUFFICES ASSUME TypeOK, HandInv, ProcessingHasWorker, NEW c \in CashOuts,
                        status[c] = "PROCESSING"
                 PROVE  \E e \in Pending : stream[e] = c
      BY DEF ProcessingHasMessage
    <2>1. PICK w \in Workers : Burning(w) /\ Current(w) = c
      BY DEF ProcessingHasWorker
    <2>2. cur[w] \in todo[w] /\ cur[w] \in EntryIds
      BY <2>1, CurrentType, TypeParts DEF Burning, Group
    <2>3. cur[w] \in Pending
      BY <2>2 DEF HandInv, Pending
    <2> QED
      BY <2>1, <2>3 DEF Current
  <1> QED
    BY <1>1, <1>2, <1>3, InitType, NextType, ProcessingHasWorkerHolds, PTL DEF Spec

-----------------------------------------------------------------------------
(***************************************************************************)
(* One burn, when requests do not overlap.  A cash-out that may still be   *)
(* claimed has no burn and no burner; a worker about to burn is alone; and *)
(* an approval that is about to be written is of a cash-out that was never *)
(* approved.                                                               *)
(***************************************************************************)
AboutToBurn(w, c) == wpc[w] = "burn" /\ Current(w) = c

Unclaimed(c) == burned[c] = 0 /\ \A w \in Workers : ~AboutToBurn(w, c)

OneBurnInv ==
  /\ BurnedOnce
  /\ \A c \in CashOuts :
       status[c] \in {"NONE", "REQUESTED", "APPROVED"} => Unclaimed(c)
  /\ \A w \in Workers, c \in CashOuts : AboutToBurn(w, c) =>
       burned[c] = 0 /\ \A v \in Workers \ {w} : ~AboutToBurn(v, c)
  /\ \A w \in Workers :
       Burning(w) => status[Current(w)] \notin {"NONE", "REQUESTED"}
  /\ \A q \in Requests : rpc[q] = "approve" => status[ref[q]] = "REQUESTED"

(* Requests keep it, if there is one at a time.                            *)
LEMMA RequestOneBurn ==
  ASSUME \A p, q \in Requests : p = q,
         TypeOK, OneBurnInv, NEW q \in Requests,
         RequestStep(q) \/ PublishFails(q) \/ RequestDies(q)
  PROVE  OneBurnInv'
  <1> USE DEF TypeOK, Goto, Finish, SetStatus
  <1>1. burned' = burned /\ \A w \in Workers, c \in CashOuts :
          AboutToBurn(w, c)' <=> AboutToBurn(w, c)
    BY RequestKeepsCurrent DEF AboutToBurn
  <1>2. BurnedOnce' /\ \A c \in CashOuts : Unclaimed(c)' <=> Unclaimed(c)
    BY <1>1 DEF OneBurnInv, BurnedOnce, Unclaimed
  <1>3. \A p \in Requests : rpc'[p] # "approve"
    BY DEF RequestStep, CommitDebit, CommitApprove, LoadForBurn, Publish,
         CommitReject, PublishFails, RequestDies, RequestType
  <1>4. \A c \in CashOuts :
          /\ status'[c] \in {"NONE", "REQUESTED", "APPROVED"} =>
               status[c] \in {"NONE", "REQUESTED", "APPROVED"}
          /\ status'[c] \in {"NONE", "REQUESTED"} => status[c] \in {"NONE", "REQUESTED"}
    BY DEF RequestStep, CommitDebit, Reserve, CommitApprove, LoadForBurn, Publish,
         CommitReject, Refund, PublishFails, RequestDies, rows, RowsType,
         RequestType, OneBurnInv
  <1>5. \A w \in Workers : Burning(w)' =>
          Burning(w) /\ Current(w)' = Current(w) /\ Current(w) \in CashOuts
    BY RequestKeepsCurrent, CurrentCashOut, TypeParts DEF Burning
  <1> QED
    BY <1>1, <1>2, <1>3, <1>4, <1>5 DEF OneBurnInv

(* The claim takes an unclaimed cash-out, and the burn uses the claim up.  *)
LEMMA BurnOneBurn ==
  ASSUME TypeOK, OneBurnInv, NEW w \in Workers, BurnStep(w)
  PROVE  OneBurnInv'
  <1> USE DEF TypeOK, SetStatus
  <1>1. /\ wpc[w] \notin {"down", "idle"} /\ UNCHANGED <<request, stream, cur>>
        /\ \E to \in WorkerPC : wpc' = [wpc EXCEPT ![w] = to]
    BY DEF BurnStep, Claim, Skip, Burn, BurnRejected, BurnUnanswered, Complete,
         CheckFail, CommitFail, Elsewhere, Step, WorkerPC, redis
  <1>2. \A v \in Workers : Current(v)' = Current(v)
    BY <1>1 DEF Current
  <1>3. PICK c \in CashOuts : c = Current(w)
    BY <1>1, CurrentCashOut, TypeParts
  <1>4. \A v \in Workers \ {w} :
          /\ \A d \in CashOuts : AboutToBurn(v, d)' <=> AboutToBurn(v, d)
          /\ Burning(v)' <=> Burning(v)
    BY <1>1, <1>2 DEF AboutToBurn, Burning, ConsumerType
  <1>5. \A q \in Requests : rpc'[q] = rpc[q] /\ ref'[q] = ref[q]
    BY <1>1 DEF request
  <1>6. \A v \in Workers : Burning(v) => Current(v) \in CashOuts
    BY CurrentCashOut, TypeParts DEF Burning
  <1>7. CASE Claim(w)
    <2>1. /\ status[c] = "APPROVED" /\ status' = [status EXCEPT ![c] = "PROCESSING"]
          /\ burned' = burned
      BY <1>3, <1>7 DEF Claim
    <2>2. \A d \in CashOuts \ {c} : ~AboutToBurn(w, d)'
      BY <1>2, <1>3 DEF AboutToBurn
    <2> QED
      BY <1>2, <1>3, <1>4, <1>5, <1>6, <2>1, <2>2 DEF OneBurnInv, BurnedOnce,
           Unclaimed, RowsType, RequestType
  <1>8. CASE ~Claim(w)
    <2>1. \A d \in CashOuts : ~AboutToBurn(w, d)'
      BY <1>8 DEF BurnStep, Skip, Burn, BurnRejected, BurnUnanswered, Complete,
           CheckFail, CommitFail, Step, AboutToBurn, ConsumerType
    <2>2. \/ status' = status
          \/ /\ Burning(w)
             /\ \/ status' = [status EXCEPT ![c] = "COMPLETED"]
                \/ status' = [status EXCEPT ![c] = "FAILED"]
      BY <1>3, <1>8 DEF BurnStep, Skip, Burn, BurnRejected, BurnUnanswered, Complete,
           CheckFail, CommitFail, Refund, Elsewhere, rows, Step, Burning
    <2>3. \/ burned' = burned
          \/ AboutToBurn(w, c) /\ burned' = [burned EXCEPT ![c] = @ + 1]
      BY <1>3, <1>8 DEF BurnStep, Skip, Burn, BurnRejected, BurnUnanswered, Complete,
           CheckFail, CommitFail, Elsewhere, BurnOnChain, Step, AboutToBurn
    <2>4. Burning(w)' => Burning(w)
      BY <1>8 DEF BurnStep, Skip, Burn, BurnRejected, BurnUnanswered, Complete,
           CheckFail, CommitFail, Step, Burning, ConsumerType
    <2>5. BurnedOnce'
      BY <2>3 DEF OneBurnInv, BurnedOnce, RowsType
    <2>6. \A d \in CashOuts : status'[d] \in {"NONE", "REQUESTED", "APPROVED"} =>
            status'[d] = status[d] /\ Unclaimed(d)'
      BY <1>4, <2>1, <2>2, <2>3 DEF OneBurnInv, Unclaimed, RowsType
    <2>7. \A v \in Workers, d \in CashOuts : AboutToBurn(v, d)' =>
            burned'[d] = 0 /\ \A u \in Workers \ {v} : ~AboutToBurn(u, d)'
      BY <1>4, <2>1, <2>3 DEF OneBurnInv, RowsType
    <2>8. \A v \in Workers :
            Burning(v)' => status'[Current(v)'] \notin {"NONE", "REQUESTED"}
      BY <1>2, <1>4, <1>6, <2>2, <2>4 DEF OneBurnInv, RowsType
    <2>9. \A q \in Requests : rpc'[q] = "approve" => status'[ref'[q]] = "REQUESTED"
      BY <1>3, <1>5, <2>2 DEF OneBurnInv, RowsType, RequestType
    <2> QED
      BY <2>5, <2>6, <2>7, <2>8, <2>9 DEF OneBurnInv
  <1> QED
    BY <1>7, <1>8

(* The invariant is inductive, if there is one request at a time.          *)
LEMMA NextOneBurn ==
  ASSUME \A p, q \in Requests : p = q
  PROVE  TypeOK /\ OneBurnInv /\ [Next]_vars => OneBurnInv'
  <1> SUFFICES ASSUME TypeOK, OneBurnInv, [Next]_vars PROVE OneBurnInv'
    OBVIOUS
  <1>1. CASE UNCHANGED vars
    BY <1>1 DEF OneBurnInv, BurnedOnce, Unclaimed, AboutToBurn, Burning, vars, rows,
         redis, worker, request, Current
  <1>2. ASSUME NEW q \in Requests, NEW c \in CashOuts,
               \/ ReadNewKey(q, c) \/ ReadRequested(q, c) \/ ReadApproved(q, c)
               \/ ReadRejectable(q, c)
        PROVE  OneBurnInv'
    <2>1. PICK pc \in RequestPC :
            Begin(q, c, pc) /\ (pc = "approve" => status[c] = "REQUESTED")
      BY <1>2 DEF ReadNewKey, ReadRequested, ReadApproved, ReadRejectable, RequestPC
    <2> QED
      BY <2>1 DEF Begin, Goto, TypeOK, OneBurnInv, BurnedOnce, Unclaimed, AboutToBurn,
           Burning, RequestType, rows, redis, worker, Current
  <1>3. ASSUME NEW w \in Workers,
               \/ ReadNew(w) \/ ReclaimStale(w) \/ ReadPending(w)
               \/ CompleteFails(w) \/ Acknowledge(w) \/ LoopError(w) \/ Crash(w)
               \/ (CheckFail(w) /\ Escape(w))
        PROVE  OneBurnInv'
    <2>1. UNCHANGED <<rows, burned, request>>
      BY <1>3 DEF ReadNew, ReclaimStale, ReadPending, CompleteFails, Acknowledge,
           LoopError, Crash, CheckFail, Elsewhere
    <2>2. /\ stream' = stream
          /\ \A v \in Workers \ {w} : wpc'[v] = wpc[v] /\ cur'[v] = cur[v]
          /\ wpc'[w] \in {"down", "idle", "claim"}
      BY <1>3, GroupMoves DEF ReadNew, ReclaimStale, ReadPending, CompleteFails,
           Acknowledge, LoopError, Crash, TypeOK
    <2>3. \A v \in Workers :
            /\ \A c \in CashOuts : AboutToBurn(v, c)' => AboutToBurn(v, c)
            /\ Burning(v)' => Burning(v) /\ Current(v)' = Current(v)
      BY <2>2 DEF AboutToBurn, Burning, Current
    <2> QED
      BY <2>1, <2>3 DEF OneBurnInv, BurnedOnce, Unclaimed, rows, request
  <1> QED
    BY <1>1, <1>2, <1>3, RequestOneBurn, BurnOneBurn, NextCases

(***************************************************************************)
(* A redelivered message never burns twice: with one API request at a      *)
(* time, no crash, redelivery, slow worker or lost answer makes a second   *)
(* burn for a cash-out.                                                    *)
(***************************************************************************)
THEOREM BurnedOnceHolds ==
  ASSUME \A p, q \in Requests : p = q
  PROVE  Spec => []BurnedOnce
  <1>1. Init => OneBurnInv
    BY DEF Init, GroupInit, OneBurnInv, BurnedOnce, Unclaimed, AboutToBurn, Burning
  <1>2. OneBurnInv => BurnedOnce
    BY DEF OneBurnInv
  <1> QED
    BY <1>1, <1>2, InitType, NextType, NextOneBurn, PTL DEF Spec

-----------------------------------------------------------------------------
(***************************************************************************)
(* Every payout has a burn of its own: a worker that has burned and not    *)
(* paid yet holds a burn that no payout has used.                          *)
(***************************************************************************)
Paying(c) == {w \in Workers : wpc[w] = "complete" /\ Current(w) = c}

BackedInv == \A c \in CashOuts : fiat[c] + Cardinality(Paying(c)) <= burned[c]

(* Workers join a set of workers, or leave it, one at a time.              *)
LEMMA WorkersCard ==
  ASSUME IsFiniteSet(Workers), NEW S \in SUBSET Workers, NEW w
  PROVE  /\ Cardinality(S) \in Nat
         /\ Cardinality(S \cup {w}) \in Nat
         /\ Cardinality(S \cup {w}) <= Cardinality(S) + 1
         /\ Cardinality(S \ {w}) \in Nat
         /\ Cardinality(S \ {w}) <= Cardinality(S)
         /\ w \in S => Cardinality(S \ {w}) = Cardinality(S) - 1
  <1>1. IsFiniteSet(S)
    BY FS_Subset
  <1>2. Cardinality(S) \in Nat
    BY <1>1, FS_CardinalityType
  <1>3. Cardinality(S \cup {w}) =
          IF w \in S THEN Cardinality(S) ELSE Cardinality(S) + 1
    BY <1>1, FS_AddElement
  <1>4. /\ IsFiniteSet(S \ {w})
        /\ Cardinality(S \ {w}) = IF w \in S THEN Cardinality(S) - 1 ELSE Cardinality(S)
    BY <1>1, FS_RemoveElement
  <1>5. Cardinality(S \ {w}) \in Nat
    BY <1>4, FS_CardinalityType
  <1> QED
    BY <1>2, <1>3, <1>4, <1>5

(* In particular the set of those that have burned and not paid.           *)
LEMMA PayingCard ==
  ASSUME IsFiniteSet(Workers), NEW c, NEW w
  PROVE  /\ Cardinality(Paying(c)) \in Nat
         /\ Cardinality(Paying(c) \cup {w}) \in Nat
         /\ Cardinality(Paying(c) \cup {w}) <= Cardinality(Paying(c)) + 1
         /\ Cardinality(Paying(c) \ {w}) \in Nat
         /\ Cardinality(Paying(c) \ {w}) <= Cardinality(Paying(c))
         /\ w \in Paying(c) => Cardinality(Paying(c) \ {w}) = Cardinality(Paying(c)) - 1
  <1>1. Paying(c) \in SUBSET Workers
    BY DEF Paying
  <1> QED
    BY <1>1, WorkersCard

(* A worker burning for a cash-out keeps the invariant.                    *)
LEMMA BurnBacked ==
  ASSUME IsFiniteSet(Workers), TypeOK, BackedInv, NEW w \in Workers, BurnStep(w)
  PROVE  BackedInv'
  <1> USE DEF TypeOK
  <1>1. /\ wpc[w] \notin {"down", "idle"} /\ UNCHANGED <<stream, cur>>
        /\ \E to \in WorkerPC : wpc' = [wpc EXCEPT ![w] = to]
    BY DEF BurnStep, Claim, Skip, Burn, BurnRejected, BurnUnanswered, Complete,
         CheckFail, CommitFail, Elsewhere, Step, WorkerPC, redis
  <1>2. \A v \in Workers : Current(v)' = Current(v)
    BY <1>1 DEF Current
  <1>3. PICK c \in CashOuts : c = Current(w)
    BY <1>1, CurrentCashOut, TypeParts
  <1>4. \A d \in CashOuts \ {c} : Paying(d)' = Paying(d)
    BY <1>1, <1>2, <1>3 DEF Paying, ConsumerType
  <1>5. \A d \in CashOuts : Cardinality(Paying(d)) \in Nat
    BY PayingCard
  <1>6. CASE Burn(w)
    <2>1. Paying(c)' = Paying(c) \cup {w}
      BY <1>1, <1>2, <1>3, <1>6 DEF Burn, Step, Paying, ConsumerType
    <2>2. /\ fiat' = fiat /\ burned' = [burned EXCEPT ![c] = @ + 1]
      BY <1>3, <1>6 DEF Burn, BurnOnChain, rows
    <2>3. Cardinality(Paying(c)') <= Cardinality(Paying(c)) + 1
          /\ Cardinality(Paying(c)') \in Nat
      BY <2>1, PayingCard
    <2> QED
      BY <1>4, <1>5, <2>2, <2>3 DEF BackedInv, RowsType
  <1>7. CASE Complete(w)
    <2>1. Paying(c)' = Paying(c) \ {w} /\ w \in Paying(c)
      BY <1>1, <1>2, <1>3, <1>7 DEF Complete, Step, Paying, ConsumerType
    <2>2. burned' = burned /\ fiat' = [fiat EXCEPT ![c] = @ + 1]
      BY <1>3, <1>7 DEF Complete
    <2>3. Cardinality(Paying(c)') = Cardinality(Paying(c)) - 1
      BY <2>1, PayingCard
    <2> QED
      BY <1>4, <1>5, <2>2, <2>3 DEF BackedInv, RowsType
  <1>8. CASE ~Burn(w) /\ ~Complete(w)
    <2>1. Paying(c)' = Paying(c)
      BY <1>1, <1>2, <1>3, <1>8 DEF BurnStep, Claim, Skip, BurnRejected,
           BurnUnanswered, CheckFail, CommitFail, Step, Paying, ConsumerType
    <2>2. fiat' = fiat /\ (burned' = burned \/ burned' = [burned EXCEPT ![c] = @ + 1])
      BY <1>3, <1>8 DEF BurnStep, Claim, Skip, BurnRejected, BurnUnanswered,
           BurnOnChain, CheckFail, CommitFail, Refund, Elsewhere, rows
    <2> QED
      BY <1>4, <1>5, <2>1, <2>2 DEF BackedInv, RowsType
  <1> QED
    BY <1>6, <1>7, <1>8

(* The invariant is inductive.                                             *)
LEMMA NextBacked ==
  ASSUME IsFiniteSet(Workers)
  PROVE  TypeOK /\ BackedInv /\ [Next]_vars => BackedInv'
  <1> SUFFICES ASSUME TypeOK, BackedInv, [Next]_vars PROVE BackedInv'
    OBVIOUS
  <1>1. CASE UNCHANGED vars
    BY <1>1 DEF BackedInv, Paying, vars, rows, redis, worker, Current
  <1>2. ASSUME NEW q \in Requests, NEW c \in CashOuts,
               \/ ReadNewKey(q, c) \/ ReadRequested(q, c) \/ ReadApproved(q, c)
               \/ ReadRejectable(q, c)
        PROVE  BackedInv'
    BY <1>2 DEF ReadNewKey, ReadRequested, ReadApproved, ReadRejectable, Begin,
         BackedInv, Paying, rows, redis, worker, Current
  <1>3. ASSUME NEW q \in Requests, RequestStep(q) \/ PublishFails(q) \/ RequestDies(q)
        PROVE  BackedInv'
    <2>1. \A c \in CashOuts : Paying(c)' = Paying(c)
      BY <1>3, RequestKeepsCurrent DEF Paying
    <2>2. fiat' = fiat /\ burned' = burned
      BY <1>3 DEF RequestStep, CommitDebit, CommitApprove, LoadForBurn, Publish,
           CommitReject, Refund, PublishFails, RequestDies, rows
    <2> QED
      BY <2>1, <2>2 DEF BackedInv
  <1>4. ASSUME NEW w \in Workers,
               \/ ReadNew(w) \/ ReclaimStale(w) \/ ReadPending(w)
               \/ CompleteFails(w) \/ Acknowledge(w) \/ LoopError(w) \/ Crash(w)
               \/ (CheckFail(w) /\ Escape(w))
        PROVE  BackedInv'
    <2>1. fiat' = fiat /\ burned' = burned
      BY <1>4 DEF ReadNew, ReclaimStale, ReadPending, CompleteFails, Acknowledge,
           LoopError, Crash, CheckFail, Elsewhere, rows
    <2>2. /\ stream' = stream
          /\ \A v \in Workers \ {w} : wpc'[v] = wpc[v] /\ cur'[v] = cur[v]
          /\ wpc'[w] \in {"down", "idle", "claim"}
      BY <1>4, GroupMoves DEF ReadNew, ReclaimStale, ReadPending, CompleteFails,
           Acknowledge, LoopError, Crash, TypeOK
    <2>3. ASSUME NEW c \in CashOuts
          PROVE  fiat'[c] + Cardinality(Paying(c)') <= burned'[c]
      <3>1. Paying(c)' = Paying(c) \ {w}
        BY <2>2 DEF Paying, Current
      <3>2. /\ Cardinality(Paying(c)') \in Nat /\ Cardinality(Paying(c)) \in Nat
            /\ Cardinality(Paying(c)') <= Cardinality(Paying(c))
        <4>1. /\ Cardinality(Paying(c)) \in Nat /\ Cardinality(Paying(c) \ {w}) \in Nat
              /\ Cardinality(Paying(c) \ {w}) <= Cardinality(Paying(c))
          BY PayingCard
        <4> QED
          BY <3>1, <4>1
      <3> QED
        BY <2>1, <3>2 DEF BackedInv, TypeOK, RowsType
    <2> QED
      BY <2>3 DEF BackedInv
  <1> QED
    BY <1>1, <1>2, <1>3, <1>4, BurnBacked, NextCases

(***************************************************************************)
(* The recipient is never credited fiat for a burn that did not land, and  *)
(* nothing is burned, paid or refunded that was not reserved, whatever     *)
(* requests, workers and faults do.                                        *)
(***************************************************************************)
THEOREM FiatBackedHolds == ASSUME IsFiniteSet(Workers) PROVE Spec => []FiatBacked
  <1>1. Init => BackedInv
    <2> SUFFICES ASSUME Init PROVE BackedInv
      OBVIOUS
    <2>1. \A c : Paying(c) = {}
      BY DEF Init, GroupInit, Paying
    <2> QED
      BY <2>1, FS_EmptySet DEF Init, BackedInv
  <1>2. TypeOK /\ BookInv /\ BackedInv => FiatBacked
    <2> SUFFICES ASSUME TypeOK, BookInv, BackedInv, NEW c \in CashOuts
                 PROVE  /\ fiat[c] <= burned[c]
                        /\ burned[c] + refunds[c] > 0 => debits[c] > 0
      BY DEF FiatBacked
    <2>1. Cardinality(Paying(c)) \in Nat
      BY PayingCard
    <2> QED
      BY <2>1 DEF TypeOK, RowsType, BookInv, BackedInv
  <1>3. TypeOK /\ BackedInv /\ [Next]_vars => BackedInv'
    BY NextBacked
  <1> QED
    BY <1>1, <1>2, <1>3, BookInvariant, PTL DEF Spec

-----------------------------------------------------------------------------
(***************************************************************************)
(* Every burn uses up an approval: an approval is either still to be       *)
(* claimed, or held by a worker that is about to burn, or used.            *)
(***************************************************************************)
Claimed(c) == {w \in Workers : wpc[w] = "burn" /\ Current(w) = c}

Claimable(c) == IF status[c] = "APPROVED" THEN 1 ELSE 0

ApprovedInv ==
  \A c \in CashOuts : burned[c] + Cardinality(Claimed(c)) + Claimable(c) <= approvals[c]

(* The set of workers that are about to burn for a cash-out.               *)
LEMMA ClaimedCard ==
  ASSUME IsFiniteSet(Workers), NEW c, NEW w
  PROVE  /\ Cardinality(Claimed(c)) \in Nat
         /\ Cardinality(Claimed(c) \cup {w}) \in Nat
         /\ Cardinality(Claimed(c) \cup {w}) <= Cardinality(Claimed(c)) + 1
         /\ Cardinality(Claimed(c) \ {w}) \in Nat
         /\ Cardinality(Claimed(c) \ {w}) <= Cardinality(Claimed(c))
         /\ w \in Claimed(c) => Cardinality(Claimed(c) \ {w}) = Cardinality(Claimed(c)) - 1
  <1>1. Claimed(c) \in SUBSET Workers
    BY DEF Claimed
  <1> QED
    BY <1>1, WorkersCard

(* A claim takes an approval, a burn uses the claim up.                    *)
LEMMA BurnKeepsApproved ==
  ASSUME IsFiniteSet(Workers), TypeOK, ApprovedInv, NEW w \in Workers, BurnStep(w)
  PROVE  ApprovedInv'
  <1> USE DEF TypeOK
  <1>1. /\ wpc[w] \notin {"down", "idle"} /\ UNCHANGED <<stream, cur>>
        /\ \E to \in WorkerPC : wpc' = [wpc EXCEPT ![w] = to]
    BY DEF BurnStep, Claim, Skip, Burn, BurnRejected, BurnUnanswered, Complete,
         CheckFail, CommitFail, Elsewhere, Step, WorkerPC, redis
  <1>2. \A v \in Workers : Current(v)' = Current(v)
    BY <1>1 DEF Current
  <1>3. PICK c \in CashOuts : c = Current(w)
    BY <1>1, CurrentCashOut, TypeParts
  <1>4. \A d \in CashOuts \ {c} : Claimed(d)' = Claimed(d)
    BY <1>1, <1>2, <1>3 DEF Claimed, ConsumerType
  <1>5. \A d \in CashOuts : Cardinality(Claimed(d)) \in Nat
    BY ClaimedCard
  <1>6. approvals' = approvals
    BY DEF BurnStep, Claim, Skip, Burn, BurnRejected, BurnUnanswered, Complete,
         CheckFail, CommitFail, Refund, Elsewhere, rows
  <1>7. CASE Claim(w)
    <2>1. Claimed(c)' = Claimed(c) \cup {w}
      BY <1>1, <1>2, <1>3, <1>7 DEF Claim, Step, Claimed, ConsumerType
    <2>2. /\ burned' = burned /\ status[c] = "APPROVED"
          /\ status' = [status EXCEPT ![c] = "PROCESSING"]
      BY <1>3, <1>7 DEF Claim, SetStatus
    <2>3. Cardinality(Claimed(c)') <= Cardinality(Claimed(c)) + 1
          /\ Cardinality(Claimed(c)') \in Nat
      BY <2>1, ClaimedCard
    <2> QED
      BY <1>4, <1>5, <1>6, <2>2, <2>3 DEF ApprovedInv, Claimable, RowsType
  <1>8. CASE Burn(w) \/ BurnUnanswered(w)
    <2>1. Claimed(c)' = Claimed(c) \ {w} /\ w \in Claimed(c)
      BY <1>1, <1>2, <1>3, <1>8 DEF Burn, BurnUnanswered, Step, Claimed, ConsumerType
    <2>2. status' = status /\ burned' = [burned EXCEPT ![c] = @ + 1]
      BY <1>3, <1>8 DEF Burn, BurnUnanswered, BurnOnChain, rows
    <2>3. Cardinality(Claimed(c)') = Cardinality(Claimed(c)) - 1
      BY <2>1, ClaimedCard
    <2> QED
      BY <1>4, <1>5, <1>6, <2>2, <2>3 DEF ApprovedInv, Claimable, RowsType
  <1>9. CASE ~Claim(w) /\ ~Burn(w) /\ ~BurnUnanswered(w)
    <2>1. Claimed(c)' = Claimed(c) \ {w}
      BY <1>1, <1>2, <1>3, <1>9 DEF BurnStep, Skip, BurnRejected, Complete,
           CheckFail, CommitFail, Step, Claimed, ConsumerType
    <2>2. /\ burned' = burned
          /\ \/ status' = status
             \/ status' = [status EXCEPT ![c] = "COMPLETED"]
             \/ status' = [status EXCEPT ![c] = "FAILED"]
      BY <1>3, <1>9 DEF BurnStep, Skip, BurnRejected, Complete, CheckFail,
           CommitFail, Refund, SetStatus, Elsewhere, rows
    <2>3. /\ Cardinality(Claimed(c)') \in Nat
          /\ Cardinality(Claimed(c)') <= Cardinality(Claimed(c))
      BY <2>1, ClaimedCard
    <2> QED
      BY <1>4, <1>5, <1>6, <2>2, <2>3 DEF ApprovedInv, Claimable, RowsType
  <1> QED
    BY <1>7, <1>8, <1>9

(* The invariant is inductive.                                             *)
LEMMA NextApproved ==
  ASSUME IsFiniteSet(Workers)
  PROVE  TypeOK /\ ApprovedInv /\ [Next]_vars => ApprovedInv'
  <1> SUFFICES ASSUME TypeOK, ApprovedInv, [Next]_vars PROVE ApprovedInv'
    OBVIOUS
  <1>1. CASE UNCHANGED vars
    BY <1>1 DEF ApprovedInv, Claimed, Claimable, vars, rows, redis, worker, Current
  <1>2. ASSUME NEW q \in Requests, NEW c \in CashOuts,
               \/ ReadNewKey(q, c) \/ ReadRequested(q, c) \/ ReadApproved(q, c)
               \/ ReadRejectable(q, c)
        PROVE  ApprovedInv'
    BY <1>2 DEF ReadNewKey, ReadRequested, ReadApproved, ReadRejectable, Begin,
         ApprovedInv, Claimed, Claimable, rows, redis, worker, Current
  <1>3. ASSUME NEW q \in Requests, RequestStep(q) \/ PublishFails(q) \/ RequestDies(q)
        PROVE  ApprovedInv'
    <2>1. \A c \in CashOuts : Claimed(c)' = Claimed(c)
      BY <1>3, RequestKeepsCurrent DEF Claimed
    <2>2. burned' = burned
      BY <1>3, RequestKeepsCurrent
    <2>3. \A c \in CashOuts : Cardinality(Claimed(c)) \in Nat
      BY ClaimedCard
    <2>4. \A c \in CashOuts :
            \/ approvals'[c] = approvals[c]
                 /\ (status'[c] = "APPROVED" => status[c] = "APPROVED")
            \/ approvals'[c] = approvals[c] + 1
      BY <1>3 DEF RequestStep, CommitDebit, Reserve, CommitApprove, LoadForBurn,
           Publish, CommitReject, Refund, PublishFails, RequestDies, SetStatus, rows,
           TypeOK, RowsType, RequestType
    <2> QED
      BY <2>1, <2>2, <2>3, <2>4 DEF ApprovedInv, Claimable, TypeOK, RowsType
  <1>4. ASSUME NEW w \in Workers,
               \/ ReadNew(w) \/ ReclaimStale(w) \/ ReadPending(w)
               \/ CompleteFails(w) \/ Acknowledge(w) \/ LoopError(w) \/ Crash(w)
               \/ (CheckFail(w) /\ Escape(w))
        PROVE  ApprovedInv'
    <2>1. burned' = burned /\ status' = status /\ approvals' = approvals
      BY <1>4 DEF ReadNew, ReclaimStale, ReadPending, CompleteFails, Acknowledge,
           LoopError, Crash, CheckFail, Elsewhere, rows
    <2>2. /\ stream' = stream
          /\ \A v \in Workers \ {w} : wpc'[v] = wpc[v] /\ cur'[v] = cur[v]
          /\ wpc'[w] \in {"down", "idle", "claim"}
      BY <1>4, GroupMoves DEF ReadNew, ReclaimStale, ReadPending, CompleteFails,
           Acknowledge, LoopError, Crash, TypeOK
    <2>3. \A c \in CashOuts : Claimed(c)' = Claimed(c) \ {w}
      BY <2>2 DEF Claimed, Current
    <2>4. \A c \in CashOuts :
            /\ Cardinality(Claimed(c)) \in Nat
            /\ Cardinality(Claimed(c) \ {w}) \in Nat
            /\ Cardinality(Claimed(c) \ {w}) <= Cardinality(Claimed(c))
      BY ClaimedCard
    <2> QED
      BY <2>1, <2>3, <2>4 DEF ApprovedInv, Claimable, TypeOK, RowsType
  <1> QED
    BY <1>1, <1>2, <1>3, <1>4, BurnKeepsApproved, NextCases

(***************************************************************************)
(* No redelivery, take-over, repeated publish or lost answer burns a       *)
(* cash-out more often than admins approved it, whatever requests overlap. *)
(***************************************************************************)
THEOREM BurnApprovedHolds == ASSUME IsFiniteSet(Workers) PROVE Spec => []BurnApproved
  <1>1. Init => ApprovedInv
    <2> SUFFICES ASSUME Init PROVE ApprovedInv
      OBVIOUS
    <2>1. \A c : Claimed(c) = {}
      BY DEF Init, GroupInit, Claimed
    <2> QED
      BY <2>1, FS_EmptySet DEF Init, ApprovedInv, Claimable
  <1>2. TypeOK /\ ApprovedInv => BurnApproved
    <2> SUFFICES ASSUME TypeOK, ApprovedInv, NEW c \in CashOuts
                 PROVE  burned[c] <= approvals[c]
      BY DEF BurnApproved
    <2>1. Cardinality(Claimed(c)) \in Nat
      BY ClaimedCard
    <2> QED
      BY <2>1 DEF TypeOK, RowsType, ApprovedInv, Claimable
  <1>3. TypeOK /\ ApprovedInv /\ [Next]_vars => ApprovedInv'
    BY NextApproved
  <1> QED
    BY <1>1, <1>2, <1>3, InitType, NextType, PTL DEF Spec

-----------------------------------------------------------------------------
(***************************************************************************)
(* The cash-outs implement Withdrawal.  Every approval is still to be      *)
(* claimed, or in the hands of a worker, or has ended in a payout or in a  *)
(* refund of the worker's; what was refunded otherwise was rejected.       *)
(***************************************************************************)
Working(c) == {w \in Workers : Burning(w) /\ Current(w) = c}

Ended(c) == fiat[c] + (refunds[c] - rejections[c])

DecisionInv ==
  \A c \in CashOuts :
    /\ rejections[c] <= refunds[c]
    /\ Ended(c) + Cardinality(Working(c)) + Claimable(c) <= approvals[c]

(* The set of workers that have a cash-out between claim and last commit.  *)
LEMMA WorkingCard ==
  ASSUME IsFiniteSet(Workers), NEW c, NEW w
  PROVE  /\ Cardinality(Working(c)) \in Nat
         /\ Cardinality(Working(c) \cup {w}) \in Nat
         /\ Cardinality(Working(c) \cup {w}) <= Cardinality(Working(c)) + 1
         /\ Cardinality(Working(c) \ {w}) \in Nat
         /\ Cardinality(Working(c) \ {w}) <= Cardinality(Working(c))
         /\ w \in Working(c) => Cardinality(Working(c) \ {w}) = Cardinality(Working(c)) - 1
  <1>1. Working(c) \in SUBSET Workers
    BY DEF Working
  <1> QED
    BY <1>1, WorkersCard

(* A claim takes an approval, and the payout or the refund ends it.        *)
LEMMA BurnDecided ==
  ASSUME IsFiniteSet(Workers), TypeOK, DecisionInv, NEW w \in Workers, BurnStep(w)
  PROVE  DecisionInv'
  <1> USE DEF TypeOK
  <1>1. /\ wpc[w] \notin {"down", "idle"} /\ UNCHANGED <<stream, cur>>
        /\ \E to \in WorkerPC : wpc' = [wpc EXCEPT ![w] = to]
    BY DEF BurnStep, Claim, Skip, Burn, BurnRejected, BurnUnanswered, Complete,
         CheckFail, CommitFail, Elsewhere, Step, WorkerPC, redis
  <1>2. \A v \in Workers : Current(v)' = Current(v)
    BY <1>1 DEF Current
  <1>3. PICK c \in CashOuts : c = Current(w)
    BY <1>1, CurrentCashOut, TypeParts
  <1>4. \A d \in CashOuts \ {c} : Working(d)' = Working(d)
    BY <1>1, <1>2, <1>3 DEF Working, Burning, ConsumerType
  <1>5. \A d \in CashOuts : Cardinality(Working(d)) \in Nat
    BY WorkingCard
  <1>6. approvals' = approvals /\ rejections' = rejections
    BY DEF BurnStep, Claim, Skip, Burn, BurnRejected, BurnUnanswered, Complete,
         CheckFail, CommitFail, Refund, Elsewhere, rows
  <1>7. CASE Claim(w)
    <2>1. Working(c)' = Working(c) \cup {w}
      BY <1>1, <1>2, <1>3, <1>7 DEF Claim, Step, Working, Burning, ConsumerType
    <2>2. /\ fiat' = fiat /\ refunds' = refunds /\ status[c] = "APPROVED"
          /\ status' = [status EXCEPT ![c] = "PROCESSING"]
      BY <1>3, <1>7 DEF Claim, SetStatus
    <2>3. Cardinality(Working(c)') <= Cardinality(Working(c)) + 1
          /\ Cardinality(Working(c)') \in Nat
      BY <2>1, WorkingCard
    <2> QED
      BY <1>4, <1>5, <1>6, <2>2, <2>3 DEF DecisionInv, Ended, Claimable, RowsType
  <1>8. CASE Complete(w) \/ CommitFail(w)
    <2>1. Working(c)' = Working(c) \ {w} /\ w \in Working(c)
      BY <1>1, <1>2, <1>3, <1>8 DEF Complete, CommitFail, Step, Working, Burning,
           ConsumerType
    <2>2. /\ \/ refunds' = refunds /\ fiat' = [fiat EXCEPT ![c] = @ + 1]
             \/ fiat' = fiat /\ refunds' = [refunds EXCEPT ![c] = @ + 1]
          /\ \/ status' = [status EXCEPT ![c] = "COMPLETED"]
             \/ status' = [status EXCEPT ![c] = "FAILED"]
      BY <1>3, <1>8 DEF Complete, CommitFail, Refund, SetStatus
    <2>3. Cardinality(Working(c)') = Cardinality(Working(c)) - 1
      BY <2>1, WorkingCard
    <2>4. ASSUME NEW d \in CashOuts \ {c}
          PROVE  rejections'[d] <= refunds'[d]
                 /\ Ended(d)' + Cardinality(Working(d)') + Claimable(d)' <= approvals'[d]
      BY <1>4, <1>6, <2>2 DEF DecisionInv, Ended, Claimable, RowsType
    <2>5. /\ rejections'[c] <= refunds'[c] /\ Ended(c)' = Ended(c) + 1
          /\ Claimable(c)' = 0
      <3>1. /\ fiat[c] \in Nat /\ refunds[c] \in Nat /\ rejections[c] \in Nat
            /\ rejections'[c] = rejections[c] /\ rejections[c] <= refunds[c]
        BY <1>6 DEF DecisionInv, RowsType
      <3>2. \/ refunds'[c] = refunds[c] /\ fiat'[c] = fiat[c] + 1
            \/ fiat'[c] = fiat[c] /\ refunds'[c] = refunds[c] + 1
        BY <2>2 DEF RowsType
      <3>3. status'[c] # "APPROVED"
        BY <2>2 DEF RowsType
      <3> QED
        BY <3>1, <3>2, <3>3 DEF Ended, Claimable
    <2>6. Ended(c)' + Cardinality(Working(c)') + Claimable(c)' <= approvals'[c]
      BY <1>5, <1>6, <2>3, <2>5 DEF DecisionInv, Ended, Claimable, RowsType
    <2> QED
      BY <2>4, <2>5, <2>6 DEF DecisionInv
  <1>9. CASE ~Claim(w) /\ ~Complete(w) /\ ~CommitFail(w)
    <2>1. \A v \in Workers : Burning(v)' <=> Burning(v)
      BY <1>1, <1>9 DEF BurnStep, Skip, Burn, BurnRejected, BurnUnanswered, CheckFail,
           Step, Burning, ConsumerType
    <2>2. \A d \in CashOuts : Working(d)' = Working(d)
      BY <1>2, <2>1 DEF Working
    <2>3. fiat' = fiat /\ refunds' = refunds /\ status' = status
      BY <1>9 DEF BurnStep, Skip, Burn, BurnRejected, BurnUnanswered, CheckFail,
           Elsewhere, rows
    <2> QED
      BY <1>6, <2>2, <2>3 DEF DecisionInv, Ended, Claimable
  <1> QED
    BY <1>7, <1>8, <1>9

(* The invariant is inductive.                                             *)
LEMMA NextDecided ==
  ASSUME IsFiniteSet(Workers)
  PROVE  TypeOK /\ DecisionInv /\ [Next]_vars => DecisionInv'
  <1> SUFFICES ASSUME TypeOK, DecisionInv, [Next]_vars PROVE DecisionInv'
    OBVIOUS
  <1>1. CASE UNCHANGED vars
    BY <1>1 DEF DecisionInv, Ended, Working, Burning, Claimable, vars, rows, redis,
         worker, Current
  <1>2. ASSUME NEW q \in Requests, NEW c \in CashOuts,
               \/ ReadNewKey(q, c) \/ ReadRequested(q, c) \/ ReadApproved(q, c)
               \/ ReadRejectable(q, c)
        PROVE  DecisionInv'
    BY <1>2 DEF ReadNewKey, ReadRequested, ReadApproved, ReadRejectable, Begin,
         DecisionInv, Ended, Working, Burning, Claimable, rows, redis, worker, Current
  <1>3. ASSUME NEW q \in Requests, RequestStep(q) \/ PublishFails(q) \/ RequestDies(q)
        PROVE  DecisionInv'
    <2>1. \A c \in CashOuts : Working(c)' = Working(c)
      BY <1>3, RequestKeepsCurrent DEF Working, Burning
    <2>2. \A c \in CashOuts : Cardinality(Working(c)) \in Nat
      BY WorkingCard
    <2>3. fiat' = fiat
      BY <1>3 DEF RequestStep, CommitDebit, CommitApprove, LoadForBurn, Publish,
           CommitReject, Refund, PublishFails, RequestDies, rows
    <2>4. \A c \in CashOuts :
            \/ /\ refunds'[c] = refunds[c] /\ rejections'[c] = rejections[c]
               /\ \/ /\ approvals'[c] = approvals[c]
                     /\ status'[c] = "APPROVED" => status[c] = "APPROVED"
                  \/ approvals'[c] = approvals[c] + 1
            \/ /\ refunds'[c] = refunds[c] + 1 /\ rejections'[c] = rejections[c] + 1
               /\ approvals'[c] = approvals[c] /\ status'[c] # "APPROVED"
      BY <1>3 DEF RequestStep, CommitDebit, Reserve, CommitApprove, LoadForBurn,
           Publish, CommitReject, Refund, PublishFails, RequestDies, SetStatus, rows,
           TypeOK, RowsType, RequestType
    <2> QED
      BY <2>1, <2>2, <2>3, <2>4 DEF DecisionInv, Ended, Claimable, TypeOK, RowsType
  <1>4. ASSUME NEW w \in Workers,
               \/ ReadNew(w) \/ ReclaimStale(w) \/ ReadPending(w)
               \/ CompleteFails(w) \/ Acknowledge(w) \/ LoopError(w) \/ Crash(w)
               \/ (CheckFail(w) /\ Escape(w))
        PROVE  DecisionInv'
    <2>1. UNCHANGED rows
      BY <1>4 DEF ReadNew, ReclaimStale, ReadPending, CompleteFails, Acknowledge,
           LoopError, Crash, CheckFail, Elsewhere
    <2>2. /\ stream' = stream
          /\ \A v \in Workers \ {w} : wpc'[v] = wpc[v] /\ cur'[v] = cur[v]
          /\ wpc'[w] \in {"down", "idle", "claim"}
      BY <1>4, GroupMoves DEF ReadNew, ReclaimStale, ReadPending, CompleteFails,
           Acknowledge, LoopError, Crash, TypeOK
    <2>3. \A c \in CashOuts : Working(c)' = Working(c) \ {w}
      BY <2>2 DEF Working, Burning, Current
    <2>4. \A c \in CashOuts :
            /\ Cardinality(Working(c)) \in Nat
            /\ Cardinality(Working(c) \ {w}) \in Nat
            /\ Cardinality(Working(c) \ {w}) <= Cardinality(Working(c))
      BY WorkingCard
    <2> QED
      BY <2>1, <2>3, <2>4 DEF DecisionInv, Ended, Claimable, rows, TypeOK, RowsType
  <1> QED
    BY <1>1, <1>2, <1>3, <1>4, BurnDecided, NextCases

(* What the money side of the rows is to Withdrawal.                       *)
Reserved == {c \in CashOuts : debits[c] > 0}

Returned == [c \in CashOuts |-> refunds[c] - rejections[c]]

Money == <<balance, Reserved, approvals, burned, fiat, Returned>>

MoneyInv == TypeOK /\ BookInv /\ BackedInv /\ ApprovedInv /\ DecisionInv

(* Of a request, only the three commits move money.                        *)
LEMMA RequestMoney ==
  ASSUME MoneyInv, NEW q \in Requests,
         RequestStep(q) \/ PublishFails(q) \/ RequestDies(q)
  PROVE  W!Next \/ UNCHANGED Money
  <1> USE DEF MoneyInv, TypeOK, RowsType, RequestType
  <1>1. CASE CommitDebit(q) /\ ~UNCHANGED debits
    <2>1. PICK c \in CashOuts : c = ref[q]
      BY <1>1 DEF CommitDebit
    <2>2. balance > 0 /\ status[c] = "NONE" /\ Reserve(c)
      BY <1>1, <2>1 DEF CommitDebit
    <2>3. debits[c] = 0
      BY <2>2 DEF BookInv
    <2>4. c \notin Reserved /\ Reserved' = Reserved \cup {c}
      BY <2>2, <2>3 DEF Reserve, Reserved
    <2>5. UNCHANGED <<approvals, burned, fiat, Returned>>
      BY <1>1 DEF CommitDebit, Returned
    <2>6. W!Reserve(c)
      BY <2>2, <2>4, <2>5 DEF W!Reserve, Reserve, Reserved, Returned
    <2> QED
      BY <2>6 DEF W!Next
  <1>2. CASE CommitDebit(q) /\ UNCHANGED debits
    <2>1. UNCHANGED rows /\ burned' = burned
      BY <1>2 DEF CommitDebit, Reserve, rows
    <2> QED
      BY <2>1 DEF Money, Reserved, Returned, rows
  <1>3. CASE CommitApprove(q)
    <2>1. PICK c \in CashOuts : c = ref[q]
      BY <1>3 DEF CommitApprove
    <2>2. c \in Reserved
      BY <1>3, <2>1 DEF CommitApprove, BookInv, Reserved
    <2>3. UNCHANGED <<balance, Reserved, burned, fiat, Returned>>
      BY <1>3 DEF CommitApprove, Reserved, Returned
    <2>4. W!Approve(c)
      BY <1>3, <2>1, <2>2, <2>3 DEF CommitApprove, W!Approve, Reserved, Returned
    <2> QED
      BY <2>4 DEF W!Next
  <1>4. CASE CommitReject(q)
    <2>1. PICK c \in CashOuts : c = ref[q]
      BY <1>4 DEF CommitReject
    <2>2. c \in Reserved
      BY <1>4, <2>1 DEF CommitReject, BookInv, Reserved
    <2>3. \A d \in CashOuts : refunds'[d] - rejections'[d] = refunds[d] - rejections[d]
      BY <1>4 DEF CommitReject, Refund
    <2>4. UNCHANGED <<Reserved, approvals, burned, fiat, Returned>>
      BY <1>4, <2>3 DEF CommitReject, Refund, Reserved, Returned
    <2>5. W!Reject(c)
      BY <1>4, <2>1, <2>2, <2>4 DEF CommitReject, Refund, W!Reject, Reserved, Returned
    <2> QED
      BY <2>5 DEF W!Next
  <1>5. CASE LoadForBurn(q) \/ Publish(q) \/ PublishFails(q) \/ RequestDies(q)
    BY <1>5 DEF LoadForBurn, Publish, PublishFails, RequestDies, rows, Money, Reserved,
         Returned
  <1> QED
    BY <1>1, <1>2, <1>3, <1>4, <1>5 DEF RequestStep

(* Of a worker, only the burn and the two commits that end an approval.    *)
LEMMA BurnMoney ==
  ASSUME IsFiniteSet(Workers), MoneyInv, NEW w \in Workers, BurnStep(w)
  PROVE  W!Next \/ UNCHANGED Money
  <1> USE DEF MoneyInv, TypeOK, RowsType
  <1>1. wpc[w] \notin {"down", "idle"}
    BY DEF BurnStep, Claim, Skip, Burn, BurnRejected, BurnUnanswered, Complete,
         CheckFail, CommitFail, Step
  <1>2. PICK c \in CashOuts : c = Current(w)
    BY <1>1, CurrentCashOut, TypeParts
  <1>3. ASSUME Burning(w)
        PROVE  fiat[c] + Returned[c] < approvals[c]
    <2>1. w \in Working(c)
      BY <1>2, <1>3 DEF Working
    <2>2. Cardinality(Working(c)) \in Nat /\ Cardinality(Working(c)) - 1 \in Nat
      BY <2>1, WorkingCard
    <2> QED
      BY <2>2 DEF DecisionInv, Ended, Claimable, Returned
  <1>4. CASE Burn(w) \/ BurnUnanswered(w)
    <2>1. w \in Claimed(c) /\ Burning(w)
      BY <1>2, <1>4 DEF Burn, BurnUnanswered, Step, Claimed, Burning
    <2>2. Cardinality(Claimed(c)) \in Nat /\ Cardinality(Claimed(c)) - 1 \in Nat
      BY <2>1, ClaimedCard
    <2>3. burned[c] < approvals[c]
      BY <2>2 DEF ApprovedInv, Claimable
    <2>4. /\ burned' = [burned EXCEPT ![c] = @ + 1]
          /\ UNCHANGED <<balance, Reserved, approvals, fiat, Returned>>
      BY <1>2, <1>4 DEF Burn, BurnUnanswered, BurnOnChain, rows, Reserved, Returned
    <2>5. W!Burn(c)
      BY <1>3, <2>1, <2>3, <2>4 DEF W!Burn, W!Open, Reserved, Returned
    <2> QED
      BY <2>5 DEF W!Next
  <1>5. CASE Complete(w)
    <2>1. w \in Paying(c) /\ Burning(w)
      BY <1>2, <1>5 DEF Complete, Step, Paying, Burning
    <2>2. Cardinality(Paying(c)) \in Nat /\ Cardinality(Paying(c)) - 1 \in Nat
      BY <2>1, PayingCard
    <2>3. fiat[c] < burned[c]
      BY <2>2 DEF BackedInv
    <2>4. /\ fiat' = [fiat EXCEPT ![c] = @ + 1]
          /\ UNCHANGED <<balance, Reserved, approvals, burned, Returned>>
      BY <1>2, <1>5 DEF Complete, Reserved, Returned
    <2>5. W!PayOut(c)
      BY <1>3, <2>1, <2>3, <2>4 DEF W!PayOut, W!Open, Reserved, Returned
    <2> QED
      BY <2>5 DEF W!Next
  <1>6. CASE CommitFail(w)
    <2>1. Burning(w)
      BY <1>6 DEF CommitFail, Step, Burning
    <2>2. /\ balance' = balance + 1
          /\ refunds' = [refunds EXCEPT ![c] = @ + 1]
          /\ UNCHANGED <<Reserved, approvals, burned, fiat, rejections>>
      BY <1>2, <1>6 DEF CommitFail, Refund, Reserved
    <2>3. Returned' = [Returned EXCEPT ![c] = @ + 1]
      <3>1. \A d \in CashOuts : refunds'[d] - rejections'[d] =
              IF d = c THEN (refunds[d] - rejections[d]) + 1
                       ELSE refunds[d] - rejections[d]
        BY <2>2
      <3> QED
        BY <3>1 DEF Returned
    <2>4. W!GiveBack(c)
      BY <1>3, <2>1, <2>2, <2>3 DEF W!GiveBack, W!Open, Reserved, Returned
    <2> QED
      BY <2>4 DEF W!Next
  <1>7. CASE Claim(w) \/ Skip(w) \/ BurnRejected(w) \/ CheckFail(w)
    BY <1>7 DEF Claim, Skip, BurnRejected, CheckFail, Elsewhere, rows, Money, Reserved,
         Returned
  <1> QED
    BY <1>4, <1>5, <1>6, <1>7 DEF BurnStep

(* Every step is one of Withdrawal's, or moves no money.                   *)
LEMMA WithdrawalStep ==
  ASSUME IsFiniteSet(Workers)
  PROVE  MoneyInv /\ [Next]_vars => [W!Next]_(W!vars)
  <1> SUFFICES ASSUME MoneyInv, [Next]_vars PROVE W!Next \/ UNCHANGED Money
    BY DEF W!vars, Money, Reserved, Returned
  <1>1. CASE UNCHANGED vars
    BY <1>1 DEF vars, rows, Money, Reserved, Returned
  <1>2. ASSUME NEW q \in Requests, NEW c \in CashOuts,
               \/ ReadNewKey(q, c) \/ ReadRequested(q, c) \/ ReadApproved(q, c)
               \/ ReadRejectable(q, c)
        PROVE  UNCHANGED Money
    BY <1>2 DEF ReadNewKey, ReadRequested, ReadApproved, ReadRejectable, Begin, rows,
         Money, Reserved, Returned
  <1>3. ASSUME NEW w \in Workers,
               \/ ReadNew(w) \/ ReclaimStale(w) \/ ReadPending(w)
               \/ CompleteFails(w) \/ Acknowledge(w) \/ LoopError(w) \/ Crash(w)
               \/ (CheckFail(w) /\ Escape(w))
        PROVE  UNCHANGED Money
    BY <1>3 DEF ReadNew, ReclaimStale, ReadPending, CompleteFails, Acknowledge,
         LoopError, Crash, CheckFail, Elsewhere, rows, Money, Reserved, Returned
  <1> QED
    BY <1>1, <1>2, <1>3, RequestMoney, BurnMoney, NextCases

(* The parts of the invariant hold at the start.                           *)
LEMMA InitMoney == Init => MoneyInv
  <1> SUFFICES ASSUME Init PROVE MoneyInv
    OBVIOUS
  <1>1. \A c : Paying(c) = {} /\ Claimed(c) = {} /\ Working(c) = {}
    BY DEF Init, GroupInit, Paying, Claimed, Working, Burning
  <1>2. BackedInv /\ ApprovedInv /\ DecisionInv
    BY <1>1, FS_EmptySet DEF Init, BackedInv, ApprovedInv, DecisionInv, Ended, Claimable
  <1> QED
    BY <1>2, InitType, InitBook DEF MoneyInv

(***************************************************************************)
(* The money of a cash-out moves as Withdrawal says, for any number of     *)
(* workers, overlapping requests, redeliveries and faults: an approval is  *)
(* paid or given back, never both, and never twice.                        *)
(***************************************************************************)
THEOREM ImplementsWithdrawalHolds ==
  ASSUME IsFiniteSet(Workers) PROVE Spec => ImplementsWithdrawal
  <1>1. Init => W!Init
    BY DEF Init, W!Init
  <1>2. MoneyInv /\ [Next]_vars => MoneyInv'
    BY NextType, NextBook, NextBacked, NextApproved, NextDecided DEF MoneyInv
  <1>3. MoneyInv /\ [Next]_vars => [W!Next]_(W!vars)
    BY WithdrawalStep
  <1> QED
    BY <1>1, <1>2, <1>3, InitMoney, PTL DEF Spec, W!Spec, ImplementsWithdrawal

-----------------------------------------------------------------------------
(***************************************************************************)
(* What Withdrawal leaves open is how often admins decide.  When requests  *)
(* do not overlap each decision is taken once: an approval is written over *)
(* REQUESTED, which does not come back, and a rejection that is about to   *)
(* be written is the first.                                                *)
(***************************************************************************)
JudgedInv ==
  /\ \A c \in CashOuts :
       /\ approvals[c] <= IF status[c] \in {"NONE", "REQUESTED"} THEN 0 ELSE 1
       /\ rejections[c] <= IF status[c] \in {"NONE", "REQUESTED", "APPROVED"} THEN 0 ELSE 1
  /\ \A q \in Requests : rpc[q] = "reject" => rejections[ref[q]] = 0

(* Requests keep it, if there is one at a time.                            *)
LEMMA RequestJudged ==
  ASSUME \A p, q \in Requests : p = q,
         TypeOK, OneBurnInv, JudgedInv, NEW q \in Requests,
         RequestStep(q) \/ PublishFails(q) \/ RequestDies(q)
  PROVE  JudgedInv'
  <1> USE DEF TypeOK, RowsType, RequestType, JudgedInv, Goto, Finish, SetStatus
  <1>1. CASE CommitDebit(q)
    BY <1>1 DEF CommitDebit, Reserve
  <1>2. CASE CommitApprove(q)
    BY <1>2 DEF CommitApprove, OneBurnInv
  <1>3. CASE LoadForBurn(q) \/ Publish(q) \/ PublishFails(q) \/ RequestDies(q)
    BY <1>3 DEF LoadForBurn, Publish, PublishFails, RequestDies, rows
  <1>4. CASE CommitReject(q)
    BY <1>4 DEF CommitReject, Refund
  <1> QED
    BY <1>1, <1>2, <1>3, <1>4 DEF RequestStep

(* The invariant is inductive, if there is one request at a time.          *)
LEMMA NextJudged ==
  ASSUME \A p, q \in Requests : p = q
  PROVE  TypeOK /\ OneBurnInv /\ JudgedInv /\ [Next]_vars => JudgedInv'
  <1> SUFFICES ASSUME TypeOK, OneBurnInv, JudgedInv, [Next]_vars
               PROVE  JudgedInv'
    OBVIOUS
  <1>1. CASE UNCHANGED vars
    BY <1>1 DEF JudgedInv, vars, rows, request
  <1>2. ASSUME NEW q \in Requests, NEW c \in CashOuts,
               \/ ReadNewKey(q, c) \/ ReadRequested(q, c) \/ ReadApproved(q, c)
               \/ ReadRejectable(q, c)
        PROVE  JudgedInv'
    BY <1>2 DEF ReadNewKey, ReadRequested, ReadApproved, ReadRejectable, Begin, Goto,
         JudgedInv, TypeOK, RowsType, RequestType, rows
  <1>3. ASSUME NEW w \in Workers, BurnStep(w)
        PROVE  JudgedInv'
    <2>1. UNCHANGED <<approvals, rejections, rpc, ref>>
      BY <1>3 DEF BurnStep, Claim, Skip, Burn, BurnRejected, BurnUnanswered, Complete,
           CheckFail, CommitFail, Refund, Elsewhere, rows, request
    <2>2. \A c \in CashOuts :
            status'[c] = status[c] \/ status'[c] \in {"PROCESSING", "COMPLETED", "FAILED"}
      BY <1>3 DEF BurnStep, Claim, Skip, Burn, BurnRejected, BurnUnanswered, Complete,
           CheckFail, CommitFail, Refund, SetStatus, Elsewhere, rows, TypeOK, RowsType
    <2> QED
      BY <2>1, <2>2 DEF JudgedInv, TypeOK, RowsType
  <1>4. ASSUME NEW w \in Workers,
               \/ ReadNew(w) \/ ReclaimStale(w) \/ ReadPending(w)
               \/ CompleteFails(w) \/ Acknowledge(w) \/ LoopError(w) \/ Crash(w)
               \/ (CheckFail(w) /\ Escape(w))
        PROVE  JudgedInv'
    BY <1>4 DEF ReadNew, ReclaimStale, ReadPending, CompleteFails, Acknowledge,
         LoopError, Crash, CheckFail, Elsewhere, JudgedInv, rows, request
  <1> QED
    BY <1>1, <1>2, <1>3, <1>4, RequestJudged, NextCases

(* A cash-out is approved at most once and rejected at most once, and the  *)
(* workers end it at most once: it is paid, or refunded by a worker, or in *)
(* one worker's hands.                                                     *)
EndedOnce ==
  \A c \in CashOuts :
    /\ approvals[c] <= 1 /\ rejections[c] <= 1
    /\ Ended(c) + Cardinality(Working(c)) <= 1

(***************************************************************************)
(* With one API request at a time, whatever the workers, the queue and the *)
(* faults do, a cash-out has one approval, one rejection and one end at    *)
(* most.  What is left is the race of a rejection with the worker:         *)
(* fail_cash_out may refund what a worker claims after the check.          *)
(***************************************************************************)
THEOREM EndedOnceHolds ==
  ASSUME IsFiniteSet(Workers), \A p, q \in Requests : p = q
  PROVE  Spec => []EndedOnce
  <1> DEFINE Inv == MoneyInv /\ OneBurnInv /\ JudgedInv
  <1>1. Init => Inv
    <2>1. Init => OneBurnInv /\ JudgedInv
      BY DEF Init, GroupInit, OneBurnInv, BurnedOnce, Unclaimed, AboutToBurn, Burning,
           JudgedInv
    <2> QED
      BY <2>1, InitMoney
  <1>2. Inv /\ [Next]_vars => Inv'
    BY NextType, NextBook, NextBacked, NextApproved, NextDecided, NextOneBurn, NextJudged
      DEF MoneyInv
  <1>3. Inv => EndedOnce
    <2> SUFFICES ASSUME Inv, NEW c \in CashOuts
                 PROVE  /\ approvals[c] <= 1 /\ rejections[c] <= 1
                        /\ Ended(c) + Cardinality(Working(c)) <= 1
      BY DEF EndedOnce
    <2>1. Cardinality(Working(c)) \in Nat
      BY WorkingCard
    <2> QED
      BY <2>1 DEF MoneyInv, JudgedInv, DecisionInv, Ended, Claimable, TypeOK, RowsType
  <1> QED
    BY <1>1, <1>2, <1>3, PTL DEF Spec

-----------------------------------------------------------------------------
(***************************************************************************)
(* One end.  Of a cash-out that no decision was written over, one thing is *)
(* true at most: it may still be claimed or rejected, it is in the hands   *)
(* of one worker, it was paid once, it was refunded once.                  *)
(***************************************************************************)
Undecided(c) == IF status[c] \in {"NONE", "REQUESTED", "APPROVED"} THEN 1 ELSE 0

OneEndInv ==
  \A c \in CashOuts \ overwritten :
    fiat[c] + refunds[c] + Cardinality(Working(c)) + Undecided(c) <= 1

(* A claim takes what is approved, and the payout or the refund ends it.   *)
LEMMA BurnOneEnd ==
  ASSUME IsFiniteSet(Workers), TypeOK, OneEndInv, NEW w \in Workers, BurnStep(w)
  PROVE  OneEndInv'
  <1> USE DEF TypeOK
  <1>1. /\ wpc[w] \notin {"down", "idle"} /\ UNCHANGED <<stream, cur>>
        /\ \E to \in WorkerPC : wpc' = [wpc EXCEPT ![w] = to]
    BY DEF BurnStep, Claim, Skip, Burn, BurnRejected, BurnUnanswered, Complete,
         CheckFail, CommitFail, Elsewhere, Step, WorkerPC, redis
  <1>2. \A v \in Workers : Current(v)' = Current(v)
    BY <1>1 DEF Current
  <1>3. PICK c \in CashOuts : c = Current(w)
    BY <1>1, CurrentCashOut, TypeParts
  <1>4. \A d \in CashOuts \ {c} : Working(d)' = Working(d)
    BY <1>1, <1>2, <1>3 DEF Working, Burning, ConsumerType
  <1>5. \A d \in CashOuts : Cardinality(Working(d)) \in Nat
    BY WorkingCard
  <1>6. overwritten' = overwritten
    BY DEF BurnStep, Claim, Skip, Burn, BurnRejected, BurnUnanswered, Complete,
         CheckFail, CommitFail, Refund, Elsewhere, rows
  <1>7. CASE Claim(w)
    <2>1. Working(c)' = Working(c) \cup {w}
      BY <1>1, <1>2, <1>3, <1>7 DEF Claim, Step, Working, Burning, ConsumerType
    <2>2. /\ fiat' = fiat /\ refunds' = refunds /\ status[c] = "APPROVED"
          /\ status' = [status EXCEPT ![c] = "PROCESSING"]
      BY <1>3, <1>7 DEF Claim, SetStatus
    <2>3. Cardinality(Working(c)') <= Cardinality(Working(c)) + 1
          /\ Cardinality(Working(c)') \in Nat
      BY <2>1, WorkingCard
    <2> QED
      BY <1>4, <1>5, <1>6, <2>2, <2>3 DEF OneEndInv, Undecided, RowsType
  <1>8. CASE Complete(w) \/ CommitFail(w)
    <2>1. Working(c)' = Working(c) \ {w} /\ w \in Working(c)
      BY <1>1, <1>2, <1>3, <1>8 DEF Complete, CommitFail, Step, Working, Burning,
           ConsumerType
    <2>2. /\ \/ refunds' = refunds /\ fiat' = [fiat EXCEPT ![c] = @ + 1]
             \/ fiat' = fiat /\ refunds' = [refunds EXCEPT ![c] = @ + 1]
          /\ \/ status' = [status EXCEPT ![c] = "COMPLETED"]
             \/ status' = [status EXCEPT ![c] = "FAILED"]
      BY <1>3, <1>8 DEF Complete, CommitFail, Refund, SetStatus
    <2>3. Cardinality(Working(c)') = Cardinality(Working(c)) - 1
      BY <2>1, WorkingCard
    <2>4. ASSUME NEW d \in CashOuts \ overwritten, d # c
          PROVE  fiat'[d] + refunds'[d] + Cardinality(Working(d)') + Undecided(d)' <= 1
      BY <1>4, <2>2, <2>4 DEF OneEndInv, Undecided, RowsType
    <2>5. /\ fiat'[c] + refunds'[c] = fiat[c] + refunds[c] + 1
          /\ fiat[c] + refunds[c] \in Nat /\ Undecided(c)' = 0
      BY <2>2 DEF Undecided, RowsType
    <2>6. c \notin overwritten =>
            fiat'[c] + refunds'[c] + Cardinality(Working(c)') + Undecided(c)' <= 1
      BY <1>5, <2>3, <2>5 DEF OneEndInv, Undecided
    <2> QED
      BY <1>6, <2>4, <2>6 DEF OneEndInv
  <1>9. CASE ~Claim(w) /\ ~Complete(w) /\ ~CommitFail(w)
    <2>1. \A v \in Workers : Burning(v)' <=> Burning(v)
      BY <1>1, <1>9 DEF BurnStep, Skip, Burn, BurnRejected, BurnUnanswered, CheckFail,
           Step, Burning, ConsumerType
    <2>2. \A d \in CashOuts : Working(d)' = Working(d)
      BY <1>2, <2>1 DEF Working
    <2>3. fiat' = fiat /\ refunds' = refunds /\ status' = status
      BY <1>9 DEF BurnStep, Skip, Burn, BurnRejected, BurnUnanswered, CheckFail,
           Elsewhere, rows
    <2> QED
      BY <1>6, <2>2, <2>3 DEF OneEndInv, Undecided
  <1> QED
    BY <1>7, <1>8, <1>9

(* The invariant is inductive.                                             *)
LEMMA NextOneEnd ==
  ASSUME IsFiniteSet(Workers)
  PROVE  TypeOK /\ OneEndInv /\ [Next]_vars => OneEndInv'
  <1> SUFFICES ASSUME TypeOK, OneEndInv, [Next]_vars PROVE OneEndInv'
    OBVIOUS
  <1>1. CASE UNCHANGED vars
    BY <1>1 DEF OneEndInv, Working, Burning, Undecided, vars, rows, redis, worker, Current
  <1>2. ASSUME NEW q \in Requests, NEW c \in CashOuts,
               \/ ReadNewKey(q, c) \/ ReadRequested(q, c) \/ ReadApproved(q, c)
               \/ ReadRejectable(q, c)
        PROVE  OneEndInv'
    BY <1>2 DEF ReadNewKey, ReadRequested, ReadApproved, ReadRejectable, Begin,
         OneEndInv, Working, Burning, Undecided, rows, redis, worker, Current
  <1>3. ASSUME NEW q \in Requests, RequestStep(q) \/ PublishFails(q) \/ RequestDies(q)
        PROVE  OneEndInv'
    <2>1. \A c \in CashOuts : Working(c)' = Working(c)
      BY <1>3, RequestKeepsCurrent DEF Working, Burning
    <2>2. \A c \in CashOuts : Cardinality(Working(c)) \in Nat
      BY WorkingCard
    <2>3. fiat' = fiat
      BY <1>3 DEF RequestStep, CommitDebit, CommitApprove, LoadForBurn, Publish,
           CommitReject, Refund, PublishFails, RequestDies, rows
    <2>4. \A c \in CashOuts : c \notin overwritten' =>
            /\ c \notin overwritten
            /\ \/ refunds'[c] = refunds[c] /\ Undecided(c)' = Undecided(c)
               \/ /\ refunds'[c] = refunds[c] + 1
                  /\ Undecided(c) = 1 /\ Undecided(c)' = 0
      <3> USE DEF TypeOK, RowsType, RequestType, SetStatus, Undecided
      <3>1. CASE CommitDebit(q)
        BY <3>1 DEF CommitDebit, Reserve
      <3>2. CASE CommitApprove(q)
        BY <3>2 DEF CommitApprove, Overwrite
      <3>3. CASE LoadForBurn(q) \/ Publish(q) \/ PublishFails(q) \/ RequestDies(q)
        BY <3>3 DEF LoadForBurn, Publish, PublishFails, RequestDies, rows
      <3>4. CASE CommitReject(q)
        BY <3>4 DEF CommitReject, Refund, Overwrite
      <3> QED
        BY <1>3, <3>1, <3>2, <3>3, <3>4 DEF RequestStep
    <2>5. \A c \in CashOuts : fiat[c] \in Nat /\ refunds[c] \in Nat
      BY DEF TypeOK, RowsType
    <2> QED
      BY <2>1, <2>2, <2>3, <2>4, <2>5 DEF OneEndInv, Undecided
  <1>4. ASSUME NEW w \in Workers,
               \/ ReadNew(w) \/ ReclaimStale(w) \/ ReadPending(w)
               \/ CompleteFails(w) \/ Acknowledge(w) \/ LoopError(w) \/ Crash(w)
               \/ (CheckFail(w) /\ Escape(w))
        PROVE  OneEndInv'
    <2>1. UNCHANGED rows
      BY <1>4 DEF ReadNew, ReclaimStale, ReadPending, CompleteFails, Acknowledge,
           LoopError, Crash, CheckFail, Elsewhere
    <2>2. /\ stream' = stream
          /\ \A v \in Workers \ {w} : wpc'[v] = wpc[v] /\ cur'[v] = cur[v]
          /\ wpc'[w] \in {"down", "idle", "claim"}
      BY <1>4, GroupMoves DEF ReadNew, ReclaimStale, ReadPending, CompleteFails,
           Acknowledge, LoopError, Crash, TypeOK
    <2>3. \A c \in CashOuts : Working(c)' = Working(c) \ {w}
      BY <2>2 DEF Working, Burning, Current
    <2>4. \A c \in CashOuts :
            /\ Cardinality(Working(c)) \in Nat
            /\ Cardinality(Working(c) \ {w}) \in Nat
            /\ Cardinality(Working(c) \ {w}) <= Cardinality(Working(c))
      BY WorkingCard
    <2> QED
      BY <2>1, <2>3, <2>4 DEF OneEndInv, Undecided, rows, TypeOK, RowsType
  <1> QED
    BY <1>1, <1>2, <1>3, <1>4, BurnOneEnd, NextCases

(***************************************************************************)
(* A cash-out that no stale decision of an admin's was written over is     *)
(* paid once or refunded once and never both, for any number of requests,  *)
(* workers, messages and faults.                                           *)
(***************************************************************************)
THEOREM OneEndHolds == ASSUME IsFiniteSet(Workers) PROVE Spec => []OneEnd
  <1>1. Init => TypeOK /\ OneEndInv
    <2> SUFFICES ASSUME Init PROVE OneEndInv
      BY InitType
    <2>1. \A c \in CashOuts : Working(c) = {}
      BY DEF Init, GroupInit, Working, Burning
    <2>2. \A c \in CashOuts : Cardinality(Working(c)) = 0
      BY <2>1, FS_EmptySet
    <2> QED
      BY <2>2 DEF Init, OneEndInv, Undecided
  <1>2. TypeOK /\ OneEndInv /\ [Next]_vars => (TypeOK /\ OneEndInv)'
    BY NextType, NextOneEnd
  <1>3. TypeOK /\ OneEndInv => OneEnd
    <2> SUFFICES ASSUME TypeOK, OneEndInv, NEW c \in CashOuts \ overwritten
                 PROVE  fiat[c] + refunds[c] <= 1
      BY DEF OneEnd
    <2>1. Cardinality(Working(c)) \in Nat
      BY WorkingCard
    <2> QED
      BY <2>1 DEF OneEndInv, Undecided, TypeOK, RowsType
  <1> QED
    BY <1>1, <1>2, <1>3, PTL DEF Spec

-----------------------------------------------------------------------------
(***************************************************************************)
(* The queue under the cash-outs delivers as Delivery says.                *)
(***************************************************************************)

(* A step that leaves Redis and the batches alone is no step of Delivery.  *)
LEMMA DeliveryStutters == UNCHANGED <<redis, todo>> => UNCHANGED D!vars
  BY DEF redis, D!vars, Pending

(* Every step is one of Delivery or none.                                  *)
LEMMA DeliveryStep == TypeOK /\ [Next]_vars => [D!Next]_(D!vars)
  <1> SUFFICES ASSUME TypeOK, [Next]_vars PROVE D!Next \/ UNCHANGED D!vars
    OBVIOUS
  <1>1. CASE UNCHANGED vars
    BY <1>1, DeliveryStutters DEF vars, worker
  <1>2. ASSUME NEW q \in Requests, NEW c \in CashOuts,
               \/ ReadNewKey(q, c) \/ ReadRequested(q, c) \/ ReadApproved(q, c)
               \/ ReadRejectable(q, c)
        PROVE  UNCHANGED D!vars
    BY <1>2, DeliveryStutters DEF ReadNewKey, ReadRequested, ReadApproved,
         ReadRejectable, Begin, worker
  <1>3. ASSUME NEW q \in Requests, RequestStep(q) \/ PublishFails(q) \/ RequestDies(q)
        PROVE  D!Next \/ UNCHANGED D!vars
    <2>1. CASE Publish(q)
      <3>1. ref[q] \in CashOuts
        BY <2>1 DEF Publish, TypeOK, RequestType
      <3>2. D!Send(ref[q])
        BY <2>1 DEF Publish, XAdd, worker, Pending, D!Send
      <3> QED
        BY <3>1, <3>2 DEF D!Next
    <2>2. CASE ~Publish(q)
      BY <1>3, <2>2, DeliveryStutters DEF RequestStep, CommitDebit, CommitApprove,
           LoadForBurn, CommitReject, PublishFails, RequestDies, worker
    <2> QED
      BY <2>1, <2>2
  <1>4. ASSUME NEW w \in Workers, BurnStep(w)
        PROVE  UNCHANGED D!vars
    BY <1>4, DeliveryStutters DEF BurnStep, Claim, Skip, Burn, BurnRejected,
         BurnUnanswered, Complete, CheckFail, CommitFail, Step
  <1>5. ASSUME NEW w \in Workers, ReadNew(w) \/ ReclaimStale(w) \/ ReadPending(w)
        PROVE  D!Next
    <2>1. FetchNew(w) \/ FetchStale(w) \/ FetchPending(w)
      BY <1>5 DEF ReadNew, ReclaimStale, ReadPending
    <2>2. D!Deliver(w) \/ D!Redeliver(w)
      BY <2>1, TypeParts, FetchDelivers DEF Group, D!Deliver, D!Redeliver
    <2> QED
      BY <2>2 DEF D!Next
  <1>6. ASSUME NEW w \in Workers,
               \/ CompleteFails(w) \/ Acknowledge(w) \/ LoopError(w) \/ Crash(w)
               \/ (CheckFail(w) /\ Escape(w))
        PROVE  D!Next
    <2>1. LeaveUnacked(w) \/ Ack(w) \/ Escape(w) \/ Die(w)
      BY <1>6 DEF CompleteFails, Acknowledge, LoopError, Crash
    <2>2. D!Finish(w) \/ D!LetGo(w)
      BY <2>1, TypeParts, ReleaseDelivers DEF Group, D!Finish, D!LetGo
    <2> QED
      BY <2>2 DEF D!Next
  <1> QED
    BY <1>1, <1>2, <1>3, <1>4, <1>5, <1>6, NextCases

(***************************************************************************)
(* At-least-once delivery to competing consumers, for any number of        *)
(* workers and messages and whatever faults there are: what is published   *)
(* is given out in order, stays open until a worker that has it acks it,   *)
(* and is not given out afterwards.                                        *)
(***************************************************************************)
THEOREM CashOutDelivers == Spec => ImplementsDelivery
  <1>1. Init => D!Init
    BY DEF Init, GroupInit, D!Init, Pending
  <1>2. TypeOK /\ [Next]_vars => [D!Next]_(D!vars)
    BY DeliveryStep
  <1> QED
    BY <1>1, <1>2, CashOutTypeCorrect, PTL DEF Spec, ImplementsDelivery, D!Spec
=============================================================================
