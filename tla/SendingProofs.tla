---------------------------- MODULE SendingProofs ----------------------------
(***************************************************************************)
(* Proofs about Sending, for any applications, reviews, requests, limits,  *)
(* days and months, on both databases.                                     *)
(***************************************************************************)
EXTENDS Sending, FiniteSetTheorems, TLAPS

USE NoApplicationAssumption, QuotesAssumption, LimitsAssumption, TimesAssumption

-----------------------------------------------------------------------------
(***************************************************************************)
(* Type correctness.  A remittance that a task is about to write to is one *)
(* whose quote was committed, so that no task makes a row of a quote that  *)
(* is still being checked.                                                 *)
(***************************************************************************)
PayInv == \A k \in Tasks : subject[k] # None => qpc[subject[k]] = "done"

Types == TypeOK /\ PayInv

(* The initial state is well typed.                                        *)
LEMMA InitTypes == Init => Types
  BY DEF Init, KycInit, LimitsInit, Types, TypeOK, KycType, LimitsType, PayInv,
       KYCStatus, ApplicationStatus, Decisions, QuotePC

(* The steps of applications and reviews.                                  *)
LEMMA KycStepType ==
  ASSUME KycType, KycRead \/ KycWrite
  PROVE  KycType'
  <1> USE DEF KycType, KYCStatus, ApplicationStatus, Decisions
  <1>1. ASSUME NEW a \in Applications, LoadApplicant(a) \/ LookForExisting(a)
        PROVE  KycType'
    BY <1>1 DEF LoadApplicant, LookForExisting
  <1>2. ASSUME NEW a \in Applications, CommitApplication(a)
        PROVE  KycType'
    BY <1>2 DEF CommitApplication, Assigned
  <1>3. ASSUME NEW v \in Reviews, NEW a \in Applications, NEW d \in Decisions,
               LoadApplication(v, a, d)
        PROVE  KycType'
    BY <1>3 DEF LoadApplication, Judgements
  <1>4. ASSUME NEW v \in Reviews, LoadReviewed(v)
        PROVE  KycType'
    BY <1>4 DEF LoadReviewed
  <1>5. ASSUME NEW v \in Reviews, CommitReview(v)
        PROVE  KycType'
    <2>1. review[v] \in Judgements
      BY <1>5 DEF CommitReview
    <2>2. review[v].decision \in Decisions /\ review[v].of \in Applications
      BY <2>1 DEF Judgements
    <2> QED
      BY <1>5, <2>2 DEF CommitReview, Assigned
  <1> QED
    BY <1>1, <1>2, <1>3, <1>4, <1>5 DEF KycRead, KycWrite

\* A task reads a row.
Starts(k, r) ==
  \/ StartCashIn(k, r) \/ StartRetry(k, r) \/ StartQueueing(k, r)
  \/ StartFailing(k, r) \/ StartRefund(k, r)

(* The steps of quotes, payments and settlement.                           *)
LEMMA LimitsStepType ==
  ASSUME LimitsType, PayInv, KycType, loaded \in [Quotes -> KYCStatus],
         LimitsNext \/ \E q \in Quotes : StartQuote(q, kyc_status)
  PROVE  LimitsType' /\ PayInv' /\ loaded' \in [Quotes -> KYCStatus]
  <1> USE DEF LimitsType, PayInv
  <1>1. ASSUME NEW q \in Quotes, StartQuote(q, kyc_status)
        PROVE  LimitsType' /\ PayInv' /\ loaded' \in [Quotes -> KYCStatus]
    BY <1>1 DEF StartQuote, Goto, rows, later, QuotePC, KycType
  <1>2. ASSUME NEW q \in Quotes, QuoteStep(q)
        PROVE  LimitsType' /\ PayInv' /\ loaded' \in [Quotes -> KYCStatus]
    <2>1. CASE LockSender(q)
      BY <2>1 DEF LockSender, Lock, Goto, rows, later, QuotePC
    <2>2. CASE CheckLimits(q) \/ RecheckLimits(q)
      BY <2>2 DEF CheckLimits, RecheckLimits, End, Release, Goto, rows, later, QuotePC
    <2>3. CASE InsertQuote(q)
      BY <2>3 DEF InsertQuote, Lock, Goto, later, QuotePC
    <2>4. CASE CommitQuote(q)
      BY <2>4 DEF CommitQuote, End, Release, Goto, later, QuotePC, RowStatus
    <2>5. CASE AbandonQuote(q)
      BY <2>5 DEF AbandonQuote, End, Release, Goto, rows, later, QuotePC
    <2> QED
      BY <1>2, <2>1, <2>2, <2>3, <2>4, <2>5 DEF QuoteStep
  <1>3. ASSUME NEW k \in Tasks, CommitStatus(k)
        PROVE  LimitsType' /\ PayInv' /\ loaded' \in [Quotes -> KYCStatus]
    BY <1>3 DEF CommitStatus, Finish, outside, RowStatus
  <1>4. ASSUME NEW k \in Tasks, AbandonTask(k)
        PROVE  LimitsType' /\ PayInv' /\ loaded' \in [Quotes -> KYCStatus]
    BY <1>4 DEF AbandonTask, Finish, outside
  <1>5. ASSUME NEW k \in Tasks, NEW r \in Quotes, Starts(k, r)
        PROVE  LimitsType' /\ PayInv' /\ loaded' \in [Quotes -> KYCStatus]
    <2>1. qpc[r] = "done"
      BY <1>5 DEF Starts, StartCashIn, StartRetry, StartQueueing, StartFailing, StartRefund,
           RowStatus
    <2>2. PICK to \in {"FUNDED", "FAILED", "REFUNDED"} : Read(k, r, to)
      BY <1>5 DEF Starts, StartCashIn, StartRetry, StartQueueing, StartFailing, StartRefund
    <2> QED
      BY <2>1, <2>2 DEF Read, outside, RowStatus
  <1>6. CASE Tick
    BY <1>6 DEF Tick, rows, later
  <1> QED
    BY <1>1, <1>2, <1>3, <1>4, <1>5, <1>6 DEF LimitsNext, TaskStep, Starts

(* Every step keeps the types.                                             *)
LEMMA StepTypes ==
  ASSUME Types, [Next]_vars
  PROVE  Types'
  <1>1. CASE (KycRead \/ KycWrite) /\ UNCHANGED limits
    BY <1>1, KycStepType DEF limits, Types, TypeOK, LimitsType, PayInv
  <1>2. CASE /\ LimitsNext \/ \E q \in Quotes : StartQuote(q, kyc_status)
             /\ UNCHANGED kyc
    BY <1>2, LimitsStepType DEF kyc, Types, TypeOK, KycType
  <1>3. CASE UNCHANGED vars
    BY <1>3 DEF vars, kyc, limits, Types, TypeOK, KycType, LimitsType, PayInv
  <1> QED
    BY <1>1, <1>2, <1>3 DEF Next

(***************************************************************************)
(* The type invariant holds in every reachable state.                      *)
(***************************************************************************)
THEOREM SendingTypeCorrect == Spec => []TypeOK
  <1>1. Types /\ [Next]_vars => Types'
    BY StepTypes
  <1>2. Types => TypeOK
    BY DEF Types
  <1> QED
    BY <1>1, <1>2, InitTypes, PTL DEF Spec

-----------------------------------------------------------------------------
(***************************************************************************)
(* Only approved users send: whatever a request has loaded, some admin has *)
(* committed.                                                              *)
(***************************************************************************)
ApprovedInv ==
  /\ kyc_status = "APPROVED" => approvals > 0
  /\ \A q \in Quotes :
       /\ qpc[q] # "new" => loaded[q] = "APPROVED"
       /\ loaded[q] = "APPROVED" => approvals > 0

(* Approvals are never taken back.                                         *)
LEMMA KycApproved ==
  ASSUME Types, ApprovedInv, KycRead \/ KycWrite
  PROVE  approvals' >= approvals /\ (kyc_status' = "APPROVED" => approvals' > 0)
  <1> USE DEF Types, TypeOK, KycType, ApprovedInv
  <1>1. CASE KycRead
    BY <1>1 DEF KycRead, LoadApplicant, LookForExisting, LoadReviewed, LoadApplication
  <1>2. ASSUME NEW a \in Applications, CommitApplication(a)
        PROVE  approvals' >= approvals /\ (kyc_status' = "APPROVED" => approvals' > 0)
    BY <1>2 DEF CommitApplication, Assigned
  <1>3. ASSUME NEW v \in Reviews, CommitReview(v)
        PROVE  approvals' >= approvals /\ (kyc_status' = "APPROVED" => approvals' > 0)
    BY <1>3 DEF CommitReview, Assigned
  <1> QED
    BY <1>1, <1>2, <1>3 DEF KycWrite

(* Nobody's loaded status changes once they have begun.                    *)
LEMMA LimitsApproved ==
  ASSUME Types, ApprovedInv, LimitsNext, UNCHANGED kyc
  PROVE  loaded' = loaded /\ \A q \in Quotes : qpc'[q] # "new" => qpc[q] # "new"
  BY DEF LimitsNext, QuoteStep, LockSender, CheckLimits, InsertQuote, RecheckLimits,
       CommitQuote, AbandonQuote, End, Goto, rows, outside, TaskStep, CommitStatus,
       AbandonTask, Finish, StartCashIn, StartRetry, StartQueueing, StartFailing,
       StartRefund, Read, Tick,
       Types, TypeOK, LimitsType

(* Every step keeps the invariant.                                         *)
LEMMA StepApproved ==
  ASSUME Types, ApprovedInv, [Next]_vars
  PROVE  ApprovedInv'
  <1>1. CASE (KycRead \/ KycWrite) /\ UNCHANGED limits
    <2>1. approvals \in Nat /\ approvals' \in Nat
      BY <1>1, KycStepType DEF Types, TypeOK, KycType
    <2> QED
      BY <1>1, <2>1, KycApproved DEF limits, ApprovedInv
  <1>2. CASE LimitsNext /\ UNCHANGED kyc
    BY <1>2, LimitsApproved DEF kyc, ApprovedInv
  <1>3. ASSUME NEW q \in Quotes, StartQuote(q, kyc_status), UNCHANGED kyc
        PROVE  ApprovedInv'
    BY <1>3 DEF StartQuote, Goto, kyc, ApprovedInv, Types, TypeOK, LimitsType
  <1>4. CASE UNCHANGED vars
    BY <1>4 DEF vars, kyc, limits, ApprovedInv
  <1> QED
    BY <1>1, <1>2, <1>3, <1>4 DEF Next

(***************************************************************************)
(* There is a remittance only of a user whom some admin has approved.      *)
(***************************************************************************)
THEOREM OnlyApprovedSendHolds == Spec => []OnlyApprovedSend
  <1>1. Init => Types /\ ApprovedInv
    BY InitTypes DEF Init, KycInit, LimitsInit, ApprovedInv
  <1>2. Types /\ ApprovedInv /\ [Next]_vars => Types' /\ ApprovedInv'
    BY StepTypes, StepApproved
  <1>3. Types /\ ApprovedInv => OnlyApprovedSend
    BY DEF Types, TypeOK, LimitsType, ApprovedInv, OnlyApprovedSend
  <1> QED
    BY <1>1, <1>2, <1>3, PTL DEF Spec

-----------------------------------------------------------------------------
(***************************************************************************)
(* The limits.  Between its second check and its commit a request has the  *)
(* lock, so that the remittances that count beside its own can only become *)
(* fewer; at the commit its day and month still have room.                 *)
(***************************************************************************)
LockInv ==
  \A q \in Quotes :
    /\ qpc[q] \in {"recheck", "commit"} => writer = q
    /\ qpc[q] \in {"check", "insert"} /\ database = "postgresql" => writer = q

TimeInv ==
  \A q \in Quotes :
    /\ now[q] <= clock
    /\ qpc[q] \in {"recheck", "commit"} => now[q] <= created[q]

\* The remittances that share the window of the one q is about to commit.
Rivals(starts, q) ==
  {r \in Quotes \ revived :
     Counts(r, clock) /\ SameWindow(starts, created[r], created[q])} \cup {q}

RoomFor(starts, limit) ==
  \A q \in Quotes : qpc[q] = "commit" => Cardinality(Rivals(starts, q)) <= limit

Capped(starts, limit) == \A t \in Nat : Cardinality(SentIn(starts, t)) <= limit

Within(starts, limit) == RoomFor(starts, limit) /\ Capped(starts, limit)

LimitsInv ==
  /\ LockInv /\ TimeInv
  /\ Within(Midnights, DailyLimit)
  /\ Within(MonthStarts, MonthlyLimit)

(* A smaller set of quotes has fewer members.                              *)
LEMMA Fewer ==
  ASSUME NEW S \in SUBSET Quotes, NEW T \in SUBSET S
  PROVE  /\ Cardinality(S) \in Nat /\ Cardinality(T) \in Nat
         /\ Cardinality(T) <= Cardinality(S)
  <1>1. IsFiniteSet(S)
    BY FS_Subset
  <1>2. IsFiniteSet(T) /\ Cardinality(T) <= Cardinality(S)
    BY <1>1, FS_Subset
  <1> QED
    BY <1>1, <1>2, FS_CardinalityType

(* Being in the same window is transitive.                                 *)
LEMMA WindowsJoin ==
  ASSUME NEW starts \in SUBSET Nat, NEW x \in Nat, NEW y \in Nat, NEW t \in Nat,
         SameWindow(starts, x, t), SameWindow(starts, y, t)
  PROVE  SameWindow(starts, x, y)
  BY DEF SameWindow

\* A step after which no other remittance counts than before, and none has
\* changed its window.
Quiet ==
  /\ \A r \in Quotes : r \notin revived' /\ Counts(r, clock)' =>
       r \notin revived /\ Counts(r, clock) /\ created'[r] = created[r]
  /\ \A q \in Quotes : qpc'[q] = "commit" =>
       created'[q] = created[q] /\ (qpc[q] = "commit" \/ qpc[q] = "recheck")

(* A quiet step leaves the totals within the limit.                        *)
LEMMA QuietCapped ==
  ASSUME NEW starts \in SUBSET Nat, NEW limit \in Nat, Quiet, Capped(starts, limit)
  PROVE  Capped(starts, limit)'
  <1> SUFFICES ASSUME NEW t \in Nat
               PROVE  Cardinality(SentIn(starts, t)') <= limit
    BY DEF Capped
  <1>1. SentIn(starts, t) \in SUBSET Quotes
    BY DEF SentIn
  <1>2. SentIn(starts, t)' \in SUBSET SentIn(starts, t)
    BY DEF SentIn, Quiet, SameWindow
  <1>3. Cardinality(SentIn(starts, t)) <= limit
    BY DEF Capped
  <1> QED
    BY <1>1, <1>2, <1>3, Fewer

(* And the room of a request that is about to commit.                      *)
LEMMA QuietRoom ==
  ASSUME NEW starts \in SUBSET Nat, NEW limit \in Nat, Quiet,
         NEW q \in Quotes, qpc'[q] = "commit", Cardinality(Rivals(starts, q)) <= limit
  PROVE  Cardinality(Rivals(starts, q)') <= limit
  <1>1. Rivals(starts, q) \in SUBSET Quotes
    BY DEF Rivals
  <1>2. Rivals(starts, q)' \in SUBSET Rivals(starts, q)
    BY DEF Rivals, Quiet, SameWindow
  <1> QED
    BY <1>1, <1>2, Fewer

(* What the second check counts includes all rivals.                       *)
LEMMA RivalsCounted ==
  ASSUME Types, TimeInv, NEW starts \in SUBSET Nat, NEW q \in Quotes,
         qpc[q] = "recheck"
  PROVE  /\ Total(starts, now[q], {q}) \in SUBSET Quotes
         /\ Rivals(starts, q) \in SUBSET Total(starts, now[q], {q})
  <1>1. now[q] \in Nat /\ created[q] \in Nat /\ clock \in Nat
        /\ now[q] <= clock /\ now[q] <= created[q]
    BY DEF Types, TypeOK, LimitsType, TimeInv
  <1>2. ASSUME NEW r \in Quotes, Counts(r, clock)
        PROVE  Counts(r, now[q])
    BY <1>1, <1>2 DEF Counts, Types, TypeOK, LimitsType
  <1>3. ASSUME NEW r \in Quotes, SameWindow(starts, created[r], created[q])
        PROVE  Since(starts, r, now[q])
    <2> SUFFICES ASSUME NEW m \in starts, m <= now[q] PROVE m <= created[r]
      BY DEF Since
    <2>1. m <= created[q]
      BY <1>1
    <2> QED
      BY <1>3, <2>1 DEF SameWindow
  <1> QED
    BY <1>2, <1>3 DEF Total, Rivals

(* The second check leaves room.                                           *)
LEMMA RecheckRoom ==
  ASSUME Types, TimeInv, NEW q \in Quotes, qpc[q] = "recheck", Fits(q, {q}, 0)
  PROVE  /\ Cardinality(Rivals(Midnights, q)) <= DailyLimit
         /\ Cardinality(Rivals(MonthStarts, q)) <= MonthlyLimit
  <1> DEFINE lim == limits_for(loaded[q])
  <1>1. /\ lim.daily \in Nat /\ lim.daily <= DailyLimit
        /\ lim.monthly \in Nat /\ lim.monthly <= MonthlyLimit
    BY DEF limits_for
  <1>2. Midnights \in SUBSET Nat /\ MonthStarts \in SUBSET Nat
    OBVIOUS
  <1>3. /\ Cardinality(Total(Midnights, now[q], {q})) + 0 <= lim.daily
        /\ Cardinality(Total(MonthStarts, now[q], {q})) + 0 <= lim.monthly
    BY DEF Fits
  <1> HIDE DEF lim
  <1>4. /\ Cardinality(Total(Midnights, now[q], {q})) \in Nat
        /\ Cardinality(Rivals(Midnights, q)) \in Nat
        /\ Cardinality(Rivals(Midnights, q)) <= Cardinality(Total(Midnights, now[q], {q}))
    BY <1>2, RivalsCounted, Fewer
  <1>5. /\ Cardinality(Total(MonthStarts, now[q], {q})) \in Nat
        /\ Cardinality(Rivals(MonthStarts, q)) \in Nat
        /\ Cardinality(Rivals(MonthStarts, q)) <= Cardinality(Total(MonthStarts, now[q], {q}))
    BY <1>2, RivalsCounted, Fewer
  <1> QED
    BY <1>1, <1>3, <1>4, <1>5

(* A commit uses the room it has.                                          *)
LEMMA CommitCapped ==
  ASSUME Types, LockInv, NEW q \in Quotes, CommitQuote(q),
         NEW starts \in SUBSET Nat, NEW limit \in Nat, Within(starts, limit)
  PROVE  Within(starts, limit)'
  <1>1. \A p \in Quotes : qpc'[p] # "commit"
    BY DEF CommitQuote, End, Goto, LockInv, Types, TypeOK, LimitsType
  <1>2. /\ clock' = clock /\ created' = created /\ revived' = revived
        /\ \A r \in Quotes \ {q} : status'[r] = status[r] /\ expires'[r] = expires[r]
    BY DEF CommitQuote, later, Types, TypeOK, LimitsType
  <1>3. \A r \in Quotes \ {q} : Counts(r, clock)' <=> Counts(r, clock)
    BY <1>2 DEF Counts
  <1>4. ASSUME NEW t \in Nat
        PROVE  Cardinality(SentIn(starts, t)') <= limit
    <2>1. CASE SameWindow(starts, created[q], t)
      <3>1. ASSUME NEW r \in Quotes, SameWindow(starts, created[r], t)
            PROVE  SameWindow(starts, created[r], created[q])
        BY <2>1, <3>1, WindowsJoin DEF Types, TypeOK, LimitsType
      <3>2. SentIn(starts, t)' \in SUBSET Rivals(starts, q)
        BY <1>2, <1>3, <3>1 DEF SentIn, Rivals, SameWindow
      <3>3. Rivals(starts, q) \in SUBSET Quotes /\ Cardinality(Rivals(starts, q)) <= limit
        BY DEF Rivals, Within, RoomFor, CommitQuote, later
      <3> QED
        BY <3>2, <3>3, Fewer
    <2>2. CASE ~SameWindow(starts, created[q], t)
      <3>1. SentIn(starts, t)' \in SUBSET SentIn(starts, t)
        BY <1>2, <1>3, <2>2 DEF SentIn, SameWindow
      <3>2. SentIn(starts, t) \in SUBSET Quotes /\ Cardinality(SentIn(starts, t)) <= limit
        BY DEF SentIn, Within, Capped
      <3> QED
        BY <3>1, <3>2, Fewer
    <2> QED
      BY <2>1, <2>2
  <1> QED
    BY <1>1, <1>4 DEF Within, RoomFor, Capped

\* The steps of Next other than a commit of a quote.
OtherStep ==
  \/ (KycRead \/ KycWrite \/ UNCHANGED kyc) /\ UNCHANGED limits
  \/ \E q \in Quotes :
       \/ StartQuote(q, kyc_status) \/ LockSender(q) \/ CheckLimits(q) \/ InsertQuote(q)
       \/ RecheckLimits(q) \/ AbandonQuote(q)
  \/ \E k \in Tasks :
       CommitStatus(k) \/ AbandonTask(k) \/ \E r \in Quotes : Starts(k, r)
  \/ Tick

(* They are all quiet, and the way to the commit is through the check.     *)
LEMMA OtherQuiet ==
  ASSUME Types, TimeInv, OtherStep
  PROVE  Quiet /\ \A q \in Quotes : qpc'[q] = "commit" /\ qpc[q] # "commit" =>
                    qpc[q] = "recheck" /\ Fits(q, {q}, 0)
  <1> DEFINE Goal == Quiet /\ \A q \in Quotes : qpc'[q] = "commit" /\ qpc[q] # "commit" =>
                       qpc[q] = "recheck" /\ Fits(q, {q}, 0)
  <1> USE DEF Types, TypeOK, LimitsType
  <1>1. CASE UNCHANGED limits
    BY <1>1 DEF limits, Quiet, Counts
  <1>2. ASSUME NEW q \in Quotes,
               StartQuote(q, kyc_status) \/ LockSender(q) \/ CheckLimits(q) \/ AbandonQuote(q)
        PROVE  Goal
    BY <1>2 DEF StartQuote, LockSender, CheckLimits, AbandonQuote, End, Goto, rows, later, Quiet,
         Counts
  <1>3. ASSUME NEW q \in Quotes, InsertQuote(q)
        PROVE  Goal
    <2>1. ~Counts(q, clock)'
      BY <1>3 DEF InsertQuote, Counts, RowStatus
    <2> QED
      BY <1>3, <2>1 DEF InsertQuote, Goto, later, Quiet, Counts
  <1>4. ASSUME NEW q \in Quotes, RecheckLimits(q)
        PROVE  Goal
    <2>1. Quiet
      BY <1>4 DEF RecheckLimits, End, Goto, rows, later, Quiet, Counts
    <2>2. qpc'[q] = "commit" => qpc[q] = "recheck" /\ Fits(q, {q}, 0)
      BY <1>4 DEF RecheckLimits, End, Goto
    <2>3. \A p \in Quotes \ {q} : qpc'[p] = qpc[p]
      BY <1>4 DEF RecheckLimits, End, Goto
    <2> QED
      BY <2>1, <2>2, <2>3
  <1>5. ASSUME NEW k \in Tasks, CommitStatus(k)
        PROVE  Goal
    <2>1. PICK s \in Quotes : s = subject[k]
      BY <1>5 DEF CommitStatus, Finish
    <2>2. \A r \in Quotes : r # s => (Counts(r, clock)' <=> Counts(r, clock))
      BY <1>5, <2>1 DEF CommitStatus, outside, Counts
    <2>3. s \notin revived' /\ Counts(s, clock)' => s \notin revived /\ Counts(s, clock)
      BY <1>5, <2>1 DEF CommitStatus, outside, Counts
    <2>4. \A r \in Quotes : r \notin revived' => r \notin revived
      BY <1>5 DEF CommitStatus
    <2> QED
      BY <1>5, <2>2, <2>3, <2>4 DEF CommitStatus, outside, Quiet
  <1>6. ASSUME NEW k \in Tasks, NEW r \in Quotes, Starts(k, r)
        PROVE  Goal
    BY <1>6 DEF Starts, StartCashIn, StartRetry, StartQueueing, StartFailing, StartRefund,
         Read, outside, Quiet, Counts
  <1>7. ASSUME NEW k \in Tasks, AbandonTask(k)
        PROVE  Goal
    BY <1>7 DEF AbandonTask, Finish, outside, Quiet, Counts
  <1>8. CASE Tick
    BY <1>8 DEF Tick, rows, later, Quiet, Counts
  <1> QED
    BY <1>1, <1>2, <1>3, <1>4, <1>5, <1>6, <1>7, <1>8 DEF OtherStep

(* They keep the totals within the limits and the room at the commit.      *)
LEMMA OtherWithin ==
  ASSUME Types, LimitsInv, OtherStep
  PROVE  Within(Midnights, DailyLimit)' /\ Within(MonthStarts, MonthlyLimit)'
  <1>1. Quiet /\ Types /\ TimeInv
    BY OtherQuiet DEF LimitsInv
  <1>2. Capped(Midnights, DailyLimit)' /\ Capped(MonthStarts, MonthlyLimit)'
    <2>1. Capped(Midnights, DailyLimit) /\ Capped(MonthStarts, MonthlyLimit)
      BY DEF LimitsInv, Within
    <2>2. Midnights \in SUBSET Nat /\ MonthStarts \in SUBSET Nat
      OBVIOUS
    <2> QED
      BY <1>1, <2>1, <2>2, QuietCapped
  <1>3. ASSUME NEW q \in Quotes, qpc'[q] = "commit"
        PROVE  /\ Cardinality(Rivals(Midnights, q)') <= DailyLimit
               /\ Cardinality(Rivals(MonthStarts, q)') <= MonthlyLimit
    <2>1. /\ Cardinality(Rivals(Midnights, q)) <= DailyLimit
          /\ Cardinality(Rivals(MonthStarts, q)) <= MonthlyLimit
      <3>1. CASE qpc[q] = "commit"
        BY <3>1 DEF LimitsInv, Within, RoomFor
      <3>2. CASE qpc[q] # "commit"
        BY <1>1, <1>3, <3>2, OtherQuiet, RecheckRoom
      <3> QED
        BY <3>1, <3>2
    <2>2. Midnights \in SUBSET Nat /\ MonthStarts \in SUBSET Nat
      OBVIOUS
    <2> QED
      BY <1>1, <1>3, <2>1, <2>2, QuietRoom
  <1> QED
    BY <1>2, <1>3 DEF Within, RoomFor

(* Who has the lock, and when what was read was read.                      *)
LEMMA StepLock ==
  ASSUME Types, LockInv, TimeInv, OtherStep \/ \E q \in Quotes : CommitQuote(q)
  PROVE  LockInv' /\ TimeInv'
  <1> USE DEF Types, TypeOK, LimitsType, LockInv, TimeInv
  <1>1. CASE UNCHANGED limits
    BY <1>1 DEF limits
  <1>2. ASSUME NEW q \in Quotes, StartQuote(q, kyc_status)
        PROVE  LockInv' /\ TimeInv'
    BY <1>2 DEF StartQuote, Goto, rows
  <1>3. ASSUME NEW q \in Quotes, LockSender(q)
        PROVE  LockInv' /\ TimeInv'
    BY <1>3 DEF LockSender, Lock, Goto, rows
  <1>4. ASSUME NEW q \in Quotes, CheckLimits(q) \/ RecheckLimits(q)
        PROVE  LockInv' /\ TimeInv'
    BY <1>4 DEF CheckLimits, RecheckLimits, End, Release, Goto, rows
  <1>5. ASSUME NEW q \in Quotes, InsertQuote(q)
        PROVE  LockInv' /\ TimeInv'
    BY <1>5 DEF InsertQuote, Lock, Goto
  <1>6. ASSUME NEW q \in Quotes, AbandonQuote(q) \/ CommitQuote(q)
        PROVE  LockInv' /\ TimeInv'
    BY <1>6 DEF AbandonQuote, CommitQuote, End, Release, Goto, rows
  <1>7. ASSUME NEW k \in Tasks, CommitStatus(k) \/ AbandonTask(k)
        PROVE  LockInv' /\ TimeInv'
    BY <1>7 DEF CommitStatus, AbandonTask, outside
  <1>8. ASSUME NEW k \in Tasks, NEW r \in Quotes, Starts(k, r)
        PROVE  LockInv' /\ TimeInv'
    BY <1>8 DEF Starts, StartCashIn, StartRetry, StartQueueing, StartFailing, StartRefund,
         Read, outside
  <1>9. CASE Tick
    BY <1>9 DEF Tick, rows
  <1> QED
    BY <1>1, <1>2, <1>3, <1>4, <1>5, <1>6, <1>7, <1>8, <1>9 DEF OtherStep

(* It holds at the start.                                                  *)
LEMMA InitLimits == Init => LimitsInv
  <1> SUFFICES ASSUME Init PROVE LimitsInv
    OBVIOUS
  <1>1. LockInv /\ TimeInv
    BY DEF Init, LimitsInit, LockInv, TimeInv
  <1>2. ASSUME NEW starts, NEW limit \in Nat
        PROVE  Within(starts, limit)
    <2>1. \A t \in Nat : SentIn(starts, t) = {}
      BY DEF Init, LimitsInit, SentIn, Counts, RowStatus
    <2>2. Capped(starts, limit)
      BY <2>1, FS_EmptySet DEF Capped
    <2> QED
      BY <2>2 DEF Init, LimitsInit, Within, RoomFor
  <1> QED
    BY <1>1, <1>2 DEF LimitsInv

(* Every step keeps the invariant.                                         *)
LEMMA StepLimits ==
  ASSUME Types, LimitsInv, [Next]_vars
  PROVE  LimitsInv'
  <1>1. OtherStep \/ \E q \in Quotes : CommitQuote(q)
    BY DEF Next, LimitsNext, QuoteStep, TaskStep, Starts, OtherStep, vars
  <1>2. LockInv' /\ TimeInv'
    BY <1>1, StepLock DEF LimitsInv
  <1>3. CASE OtherStep
    BY <1>2, <1>3, OtherWithin DEF LimitsInv
  <1>4. ASSUME NEW q \in Quotes, CommitQuote(q)
        PROVE  LimitsInv'
    <2>1. Midnights \in SUBSET Nat /\ MonthStarts \in SUBSET Nat
      OBVIOUS
    <2> QED
      BY <1>2, <1>4, <2>1, CommitCapped DEF LimitsInv
  <1> QED
    BY <1>1, <1>3, <1>4

(***************************************************************************)
(* In no day and no month does a sender come to more than the limit, for   *)
(* any number of overlapping requests, late writes of the status and       *)
(* reviews, and on both databases, but for the remittances that a late     *)
(* write made count again after their headroom was given back (revived).   *)
(***************************************************************************)
THEOREM WithinLimitsHolds == Spec => []WithinLimits
  <1>1. Init => Types /\ LimitsInv
    BY InitTypes, InitLimits
  <1>2. Types /\ LimitsInv /\ [Next]_vars => Types' /\ LimitsInv'
    BY StepTypes, StepLimits
  <1>3. Types /\ LimitsInv => WithinLimits
    BY DEF Types, TypeOK, LimitsType, LimitsInv, Within, Capped, WithinLimits
  <1> QED
    BY <1>1, <1>2, <1>3, PTL DEF Spec
-----------------------------------------------------------------------------
(***************************************************************************)
(* The two status columns, when a user applies once and two reviews        *)
(* overlap.                                                                *)
(*                                                                         *)
(* That the columns are equal is not inductive, because a review leaves    *)
(* users.kyc_status alone when it had loaded the very value it assigns.    *)
(* Such a review has loaded the outcome of another one, which is over, so  *)
(* that nobody is left to change the column before it commits.             *)
(***************************************************************************)
OneApplication == \A a, b \in Applications : a = b

TwoReviews == \A u, v, w \in Reviews : u = v \/ v = w \/ u = w

SomeReviewDone == \E u \in Reviews : rpc[u] = "done"

\* A review that is going to leave users.kyc_status alone.
Silent(v) == rpc[v] = "commit" /\ reviewed[v] = review[v].decision

ApplyInv ==
  \A a \in Applications :
    /\ apc[a] # "done" => application[a] = NoRow
    /\ application[a] = NoRow =>
         /\ kyc_status = "NOT_STARTED"
         /\ applicant[a] = "NOT_STARTED"
         /\ \A v \in Reviews : rpc[v] = "new"
    /\ application[a] # NoRow => kyc_status = application[a]

ReviewInv ==
  /\ kyc_status \in Decisions => SomeReviewDone
  /\ \A v \in Reviews :
       /\ rpc[v] = "commit" /\ reviewed[v] \in Decisions => SomeReviewDone
       /\ Silent(v) => kyc_status = reviewed[v]
       /\ rpc[v] # "new" => application[review[v].of] # NoRow

SyncInv == (Applications = {} => kyc_status = "NOT_STARTED") /\ ApplyInv /\ ReviewInv

(* No status of an application stands for a missing row.                   *)
LEMMA StatusIsRow ==
  /\ "PENDING" # NoRow
  /\ \A d \in Decisions : d # NoRow
  BY DEF ApplicationStatus

(* A user nobody has reviewed and who has not applied is in sync.          *)
LEMMA InitSync == ASSUME Init PROVE SyncInv
  BY DEF Init, KycInit, SyncInv, ApplyInv, ReviewInv, Silent, Decisions

(* The steps of the application.                                           *)
LEMMA ApplySync ==
  ASSUME OneApplication, KycType, SyncInv, NEW a \in Applications,
         LoadApplicant(a) \/ LookForExisting(a) \/ CommitApplication(a)
  PROVE  SyncInv'
  <1> USE DEF KycType, SyncInv
  <1>1. application[a] = NoRow /\ kyc_status = "NOT_STARTED"
        /\ applicant[a] = "NOT_STARTED" /\ \A v \in Reviews : rpc[v] = "new"
    BY DEF ApplyInv, LoadApplicant, LookForExisting, CommitApplication
  <1>2. CASE LoadApplicant(a)
    BY <1>1, <1>2 DEF LoadApplicant, ApplyInv, ReviewInv, Silent, SomeReviewDone,
         OneApplication
  <1>3. CASE LookForExisting(a)
    <2>1. ~Existing
      BY <1>1, StatusIsRow DEF Existing, OneApplication, Decisions
    <2> QED
      BY <1>1, <1>3, <2>1 DEF LookForExisting, ApplyInv, ReviewInv, Silent,
           SomeReviewDone, OneApplication
  <1>4. CASE CommitApplication(a)
    BY <1>1, <1>4, StatusIsRow DEF CommitApplication, Assigned, ApplyInv, ReviewInv, Silent,
         SomeReviewDone, OneApplication, Decisions
  <1> QED
    BY <1>2, <1>3, <1>4

(* A review loads the application, then the user.                          *)
LEMMA ReadSync ==
  ASSUME OneApplication, KycType, SyncInv, NEW v \in Reviews,
         \/ LoadReviewed(v)
         \/ \E a \in Applications, d \in Decisions : LoadApplication(v, a, d)
  PROVE  SyncInv'
  <1> USE DEF KycType, SyncInv
  <1>1. CASE LoadReviewed(v)
    <2>1. ApplyInv'
      BY <1>1 DEF LoadReviewed, ApplyInv, ReviewInv, OneApplication, Judgements
    <2>2. SomeReviewDone => SomeReviewDone'
      BY <1>1 DEF LoadReviewed, SomeReviewDone
    <2>3. ReviewInv'
      BY <1>1, <2>2 DEF LoadReviewed, ReviewInv, Silent
    <2> QED
      BY <1>1, <2>1, <2>3 DEF LoadReviewed
  <1>2. ASSUME NEW a \in Applications, NEW d \in Decisions, LoadApplication(v, a, d)
        PROVE  SyncInv'
    <2>1. application[a] # NoRow
      BY <1>2, StatusIsRow DEF LoadApplication
    <2>2. ApplyInv'
      BY <1>2, <2>1 DEF LoadApplication, ApplyInv, OneApplication
    <2>3. SomeReviewDone => SomeReviewDone'
      BY <1>2 DEF LoadApplication, SomeReviewDone
    <2>4. ReviewInv'
      BY <1>2, <2>1, <2>3 DEF LoadApplication, ReviewInv, Silent
    <2> QED
      BY <1>2, <2>2, <2>4 DEF LoadApplication
  <1> QED
    BY <1>1, <1>2

(* A review that commits leaves both columns with its decision.            *)
LEMMA CommitSync ==
  ASSUME OneApplication, TwoReviews, KycType, SyncInv, NEW v \in Reviews, CommitReview(v)
  PROVE  SyncInv'
  <1> USE DEF KycType, SyncInv
  <1>1. review[v] \in Judgements /\ rpc[v] = "commit"
    BY DEF CommitReview
  <1>2. review[v].of \in Applications /\ review[v].decision \in Decisions
    BY <1>1 DEF Judgements
  <1>3. application[review[v].of] # NoRow
    BY <1>1 DEF ReviewInv
  <1>4. kyc_status' = review[v].decision
    BY <1>1 DEF CommitReview, Assigned, ReviewInv, Silent
  <1>5. ApplyInv'
    BY <1>2, <1>3, <1>4, StatusIsRow DEF CommitReview, ApplyInv, OneApplication
  <1>6. SomeReviewDone'
    BY DEF CommitReview, SomeReviewDone
  <1>7. ASSUME NEW u \in Reviews, Silent(u)' PROVE FALSE
    <2>1. u # v /\ rpc[u] = "commit" /\ reviewed[u] \in Decisions
      <3>1. u # v /\ rpc[u] = "commit" /\ reviewed[u] = review[u].decision
        BY <1>7 DEF CommitReview, Silent
      <3>2. review[u] \in Judgements
        BY <3>1
      <3> QED
        BY <3>1, <3>2 DEF Judgements
    <2>2. PICK w \in Reviews : rpc[w] = "done"
      BY <2>1 DEF ReviewInv, SomeReviewDone
    <2> QED
      BY <1>1, <2>1, <2>2 DEF TwoReviews
  <1>8. \A b \in Applications : application[b] # NoRow => application'[b] # NoRow
    BY <1>2, StatusIsRow DEF CommitReview
  <1> QED
    BY <1>2, <1>5, <1>6, <1>7, <1>8 DEF CommitReview, ReviewInv, Decisions

(* Every step keeps the columns in sync.                                   *)
LEMMA StepSync ==
  ASSUME OneApplication, TwoReviews, Types, SyncInv, [Next]_vars
  PROVE  SyncInv'
  <1>1. CASE KycRead \/ KycWrite
    BY <1>1, ApplySync, ReadSync, CommitSync DEF Types, TypeOK, KycRead, KycWrite
  <1>2. CASE UNCHANGED kyc
    BY <1>2 DEF kyc, SyncInv, ApplyInv, ReviewInv, Silent, SomeReviewDone
  <1> QED
    BY <1>1, <1>2 DEF Next, vars

(***************************************************************************)
(* approve_kyc and reject_kyc keep users.kyc_status and the application in *)
(* sync for a user who applies once, when at most two reviews overlap and  *)
(* whatever they decide.  Neither assumption can be dropped: the run with  *)
(* two applications refutes the one, a third review the other.             *)
(***************************************************************************)
THEOREM StatusesInSyncHolds ==
  ASSUME OneApplication, TwoReviews
  PROVE  Spec => []StatusesInSync
  <1>1. SyncInv => StatusesInSync
    BY StatusIsRow DEF SyncInv, ApplyInv, OneApplication, StatusesInSync, Decisions
  <1>2. Init => Types /\ SyncInv
    BY InitTypes, InitSync
  <1>3. Types /\ SyncInv /\ [Next]_vars => (Types /\ SyncInv)'
    BY StepTypes, StepSync
  <1> QED
    BY <1>1, <1>2, <1>3, PTL DEF Spec
=============================================================================
