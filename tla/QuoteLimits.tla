---------------------------- MODULE QuoteLimits ----------------------------
(***************************************************************************)
(* The daily and monthly limit of one sender: create_quote with            *)
(* limits_service, and what makes a remittance count or stop counting      *)
(* later: its expiry, its cash-in and queueing, its failure, retry and     *)
(* refund, none of which compares the status again before writing it.      *)
(*                                                                         *)
(* On PostgreSQL a request locks the sender's users row before it looks at *)
(* the totals; on SQLite FOR UPDATE does nothing, and a transaction has    *)
(* the database's write lock from its first write on.  Either lock is held *)
(* to the end of the transaction.  All amounts are one unit, and limits    *)
(* are counted in units.                                                   *)
(***************************************************************************)
EXTENDS Integers, FiniteSets

CONSTANTS
  Quotes,         \* requests to POST /remittances/quote, and their remittances
  Tasks,          \* what writes remittances.status later: requests and workers
  DailyLimit,     \* verified_daily_limit
  MonthlyLimit,   \* verified_monthly_limit
  QuoteTtl,       \* quote_ttl_minutes
  Midnights,      \* when a day begins in South Africa
  MonthStarts,    \* when a month does
  MaxTime,        \* bound: the clock
  None

\* FUNDED: CASH_IN_CONFIRMED, QUEUED, SETTLING and SETTLED, which all count.
\* FAILED is always after the cash-in.
RowStatus == {"QUOTED", "FUNDED", "FAILED", "REFUNDED"}

ASSUME QuotesAssumption == IsFiniteSet(Quotes) /\ None \notin Quotes \cup RowStatus
ASSUME LimitsAssumption == DailyLimit \in Nat /\ MonthlyLimit \in Nat
ASSUME TimesAssumption ==
  /\ QuoteTtl \in Nat \ {0} /\ MaxTime \in Nat
  /\ MonthStarts \subseteq Midnights /\ Midnights \subseteq Nat

VARIABLES
  database,  \* the one that database_url names
  clock,     \* datetime.now(timezone.utc)
  writer,    \* the request that has the lock
  qpc,       \* where each request for a quote is
  now,       \* when it began
  loaded,    \* the kyc_status of the sender that it has loaded
  status,    \* remittances.status, None while no row is committed
  created,   \* created_at
  expires,   \* quote_expires_at
  subject,   \* the remittance that each task has read, or None
  outcome,   \* the status that it is going to write
  revived    \* history: remittances that a late write made count again

limits == <<database, clock, writer, qpc, now, loaded, status, created, expires,
            subject, outcome, revived>>

QuotePC == {"new", "lock", "check", "insert", "recheck", "commit", "done"}

LimitsInit ==
  /\ database \in {"postgresql", "sqlite"}
  /\ clock = 0
  /\ writer = None
  /\ qpc = [q \in Quotes |-> "new"]
  /\ now = [q \in Quotes |-> 0]
  /\ loaded = [q \in Quotes |-> "NOT_STARTED"]
  /\ status = [q \in Quotes |-> None]
  /\ created = [q \in Quotes |-> 0]
  /\ expires = [q \in Quotes |-> 0]
  /\ subject = [k \in Tasks |-> None]
  /\ outcome = [k \in Tasks |-> None]
  /\ revived = {}

-----------------------------------------------------------------------------
(***************************************************************************)
(* limits_service.                                                         *)
(***************************************************************************)

\* LIMIT_CONSUMING_STATUSES, and a quote only while it is live.
Counts(r, t) ==
  \/ status[r] \in {"FUNDED", "FAILED"}
  \/ status[r] = "QUOTED" /\ expires[r] > t

\* window_starts: created_at is not before the day, or month, of t began.
Since(starts, r, t) == \A m \in starts : m <= t => m <= created[r]

\* sender_totals, with a row of the request's own.
Total(starts, t, own) == {r \in Quotes : Counts(r, t) /\ Since(starts, r, t)} \cup own

\* unverified_daily_limit and unverified_monthly_limit are zero.
limits_for(kyc_status) ==
  IF kyc_status = "APPROVED" THEN [daily |-> DailyLimit, monthly |-> MonthlyLimit]
  ELSE [daily |-> 0, monthly |-> 0]

\* assert_within_limits, for one more send of amount.
Fits(q, own, amount) ==
  LET lim == limits_for(loaded[q]) IN
  /\ Cardinality(Total(Midnights, now[q], own)) + amount <= lim.daily
  /\ Cardinality(Total(MonthStarts, now[q], own)) + amount <= lim.monthly

-----------------------------------------------------------------------------
(***************************************************************************)
(* create_quote.                                                           *)
(***************************************************************************)
Goto(q, pc) == qpc' = [qpc EXCEPT ![q] = pc]

Release(q) == writer' = IF writer = q THEN None ELSE writer

\* The request ends, and its transaction with it.
End(q) == Goto(q, "done") /\ Release(q)

later == <<subject, outcome, revived>>

rows == <<status, created, expires, later>>

\* require_kyc_approved has loaded the sender.
StartQuote(q, kyc_status) ==
  /\ qpc[q] = "new"
  /\ kyc_status = "APPROVED"
  /\ Goto(q, "lock")
  /\ now' = [now EXCEPT ![q] = clock]
  /\ loaded' = [loaded EXCEPT ![q] = kyc_status]
  /\ UNCHANGED <<database, clock, writer, rows>>

Lock(q) == writer = None /\ writer' = q

\* SELECT ... FOR UPDATE of the users row.
LockSender(q) ==
  /\ qpc[q] = "lock"
  /\ IF database = "postgresql" THEN Lock(q) ELSE UNCHANGED writer
  /\ Goto(q, "check")
  /\ UNCHANGED <<database, clock, now, loaded, rows>>

CheckLimits(q) ==
  /\ qpc[q] = "check"
  /\ IF Fits(q, {}, 1) THEN Goto(q, "insert") /\ UNCHANGED writer ELSE End(q)
  /\ UNCHANGED <<database, clock, now, loaded, rows>>

\* Mutant of InsertQuote: the row is committed at once.
InsertQuoteCommitted(q) ==
  /\ qpc[q] = "insert"
  /\ Goto(q, "recheck")
  /\ status' = [status EXCEPT ![q] = "QUOTED"]
  /\ created' = [created EXCEPT ![q] = clock]
  /\ expires' = [expires EXCEPT ![q] = now[q] + QuoteTtl]
  /\ UNCHANGED <<database, clock, writer, now, loaded, later>>

\* The flush of the new remittance.
InsertQuote(q) ==
  /\ qpc[q] = "insert"
  /\ IF database = "sqlite" THEN Lock(q) ELSE UNCHANGED writer
  /\ Goto(q, "recheck")
  /\ created' = [created EXCEPT ![q] = clock]
  /\ UNCHANGED <<database, clock, now, loaded, status, expires, later>>

\* Mutant of RecheckLimits: the first check is enough.
RecheckNothing(q) ==
  /\ qpc[q] = "recheck"
  /\ Goto(q, "commit")
  /\ UNCHANGED <<database, clock, writer, now, loaded, rows>>

RecheckLimits(q) ==
  /\ qpc[q] = "recheck"
  /\ IF Fits(q, {q}, 0) THEN Goto(q, "commit") /\ UNCHANGED writer ELSE End(q)
  /\ UNCHANGED <<database, clock, now, loaded, rows>>

CommitQuote(q) ==
  /\ qpc[q] = "commit"
  /\ End(q)
  /\ status' = [status EXCEPT ![q] = "QUOTED"]
  /\ expires' = [expires EXCEPT ![q] = now[q] + QuoteTtl]
  /\ UNCHANGED <<database, clock, now, loaded, created, later>>

\* No rate, an amount that is too small, a lost connection, or a lock that was
\* waited for too long.
AbandonQuote(q) ==
  /\ qpc[q] \notin {"new", "done"}
  /\ End(q)
  /\ UNCHANGED <<database, clock, now, loaded, rows>>

-----------------------------------------------------------------------------
(***************************************************************************)
(* What happens to the remittance later.  A task reads the row, and some   *)
(* time later writes a status over whatever the row has become.  Of the    *)
(* races in Settlement only their effect on the totals is told apart here: *)
(* a task that finds FUNDED may be any that CASH_IN_CONFIRMED, QUEUED or   *)
(* SETTLING admits, and the key that refuses a second refund, or a credit  *)
(* after one, is left out, because such a refund frees headroom at most.   *)
(***************************************************************************)
outside == <<database, clock, writer, qpc, now, loaded, created, expires>>

\* A free task finds the row fit for what it is to do.
Read(k, r, to) ==
  /\ subject[k] = None
  /\ subject' = [subject EXCEPT ![k] = r]
  /\ outcome' = [outcome EXCEPT ![k] = to]
  /\ UNCHANGED <<outside, status, revived>>

\* simulate_cash_in for the sender, or for an admin (confirm-payment).
StartCashIn(k, r) ==
  /\ status[r] = "QUOTED" /\ clock < expires[r]
  /\ Read(k, r, "FUNDED")

\* requeue_failed_remittance.
StartRetry(k, r) == status[r] = "FAILED" /\ Read(k, r, "FUNDED")

\* queue_for_settlement loads the row, after the first commit of the request
\* or because the cash-in was confirmed before, to write QUEUED; or a worker
\* claims it and is going to write SETTLED.
StartQueueing(k, r) == status[r] = "FUNDED" /\ Read(k, r, "FUNDED")

\* A worker claims it, and the settlement is going to fail.
StartFailing(k, r) == status[r] = "FUNDED" /\ Read(k, r, "FAILED")

\* refund_failed_remittance.
StartRefund(k, r) == status[r] = "FAILED" /\ Read(k, r, "REFUNDED")

Finish(k) ==
  /\ subject[k] # None
  /\ subject' = [subject EXCEPT ![k] = None]
  /\ outcome' = [outcome EXCEPT ![k] = None]

\* The status is written, whatever the row has become since it was read.
\* SQLite makes it wait for the transaction of a quote.
CommitStatus(k) ==
  LET r == subject[k] IN
  /\ database = "sqlite" => writer = None
  /\ Finish(k)
  /\ status' = [status EXCEPT ![r] = outcome[k]]
  /\ revived' = IF outcome[k] = "REFUNDED" \/ Counts(r, clock) THEN revived
                 ELSE revived \cup {r}
  /\ UNCHANGED outside

\* The recipient is not registered, nothing can be published, the row has the
\* status already, the transaction is rolled back, or the process dies.
AbandonTask(k) == Finish(k) /\ UNCHANGED <<outside, status, revived>>

Tick ==
  /\ clock < MaxTime
  /\ clock' = clock + 1
  /\ UNCHANGED <<database, writer, qpc, now, loaded, rows>>

QuoteStep(q) ==
  \/ LockSender(q) \/ CheckLimits(q) \/ InsertQuote(q) \/ RecheckLimits(q)
  \/ CommitQuote(q) \/ AbandonQuote(q)

TaskStep(k) ==
  \/ CommitStatus(k) \/ AbandonTask(k)
  \/ \E r \in Quotes :
       \/ StartCashIn(k, r) \/ StartRetry(k, r) \/ StartQueueing(k, r)
       \/ StartFailing(k, r) \/ StartRefund(k, r)

LimitsNext ==
  \/ \E q \in Quotes : QuoteStep(q)
  \/ \E k \in Tasks : TaskStep(k)
  \/ Tick

-----------------------------------------------------------------------------
LimitsType ==
  /\ database \in {"postgresql", "sqlite"}
  /\ clock \in Nat
  /\ writer \in Quotes \cup {None}
  /\ qpc \in [Quotes -> QuotePC]
  /\ now \in [Quotes -> Nat]
  /\ status \in [Quotes -> RowStatus \cup {None}]
  /\ created \in [Quotes -> Nat]
  /\ expires \in [Quotes -> Nat]
  /\ subject \in [Tasks -> Quotes \cup {None}]
  /\ outcome \in [Tasks -> {"FUNDED", "FAILED", "REFUNDED", None}]
  /\ \A k \in Tasks : outcome[k] = None <=> subject[k] = None
  /\ revived \subseteq Quotes
  /\ \A q \in Quotes : qpc[q] # "done" => status[q] = None

SameWindow(starts, s, t) == \A m \in starts : (m <= s) <=> (m <= t)

\* What was sent, or may still be, of what was quoted in the day or month of t.
SentIn(starts, t) ==
  {r \in Quotes \ revived : Counts(r, clock) /\ SameWindow(starts, created[r], t)}

(***************************************************************************)
(* "which is what actually holds on both databases" (create_quote): in no  *)
(* day and no month do the remittances of a sender that are paid, on their *)
(* way, failed and not refunded, or still payable come to more than the    *)
(* limit, though requests overlap, begin before midnight and end after it, *)
(* and quotes expire, fail and are refunded while others are checked.      *)
(* Exempt is a remittance that a late write made count when it had given   *)
(* back its headroom: paid in after it expired, or queued, retried or      *)
(* failed after it was refunded, by a task that had looked before.  The    *)
(* code compares nothing there, and the total may then exceed the limit.   *)
(***************************************************************************)
WithinLimits ==
  \A t \in 0 .. clock :
    /\ Cardinality(SentIn(Midnights, t)) <= DailyLimit
    /\ Cardinality(SentIn(MonthStarts, t)) <= MonthlyLimit
=============================================================================
