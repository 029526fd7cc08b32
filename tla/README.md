# CrossFX in TLA+

CrossFX sends rand from South Africa and pays out UCTUSD, a token on the XRP
Ledger, from pooled custody. A sender takes a quote and pays in; the API puts a
message on a Redis Stream; a worker moves tokens between two pool accounts and
credits the recipient in an internal ledger. A recipient cashes out: the tokens
are reserved, an admin approves, the worker burns them and credits fiat.

This directory holds TLA+ models of the parts in which money moves, is priced
or is limited while several processes share state, configurations that check them with TLC, and proofs
checked with TLAPS. Paths below are relative to `src/`; line numbers are in
`PROJECT.json` under `map`.

## 1. Inventory

| Component | State | Operations | Modelled in |
|---|---|---|---|
| Settlement queue, `backend/app/services/settlement_queue.py` | stream, group position, pending entries list | publish, read_new, read_pending, reclaim_stale, acknowledge | `ConsumerGroup` |
| Worker loop, `backend/worker/settlement_worker.py` | position, batch in hand | run, _reclaim_abandoned, handle | `ConsumerGroup` |
| Settling, same file | the rows it writes | _settle, _claim, _record_success, _fail | `Settlement` |
| Burning, same file | the rows it writes | _burn_cash_out, _fail_cash_out | `CashOut` |
| Cash-in, retry, refund, `cashin_cashout_service.py`, `routers/remittances.py`, `routers/admin.py` | `remittances.status`, `cash_in_confirmed_at` | confirm-cash-in, confirm-payment, refund | `Settlement` |
| Cash-out, same service, `routers/wallet.py`, `routers/admin.py` | `cash_outs.status` | request, approve, reject | `CashOut` |
| Ledger, `services/ledger.py`, `models/wallet.py` | wallets, balances, wallet_transactions, unique constraints | wallet_for, credit, debit, record_external | `Ledger`; its entries also in `Settlement` and `CashOut` |
| XRPL service, `services/xrpl_service.py` | the chain | send_pooled_payment, burn | by outcome, in `Settlement` and `CashOut` |
| Quotes and limits, `routers/remittances.py`, `services/limits_service.py` | remittances that count, users row lock | create_quote, assert_within_limits | `QuoteLimits`, `Sending` |
| FX rate, `services/fx_rate_service.py` | process cache and its lock | get_usd_zar_rate (api source), reset_api_cache | `FxRate`, `Pricing` |
| Fees, `services/fee_service.py` | none (arithmetic) | calculate_quote, calculate_cash_out_payout | `Fees`, `Pricing` |
| KYC, `routers/kyc.py`, `routers/admin.py` | applications, `users.kyc_status` | submit, approve, reject | `Kyc`, `Sending` |
| Accounts, beneficiaries | users, beneficiaries | register, update, create, delete | no |
| Authentication, encryption, configuration, schemas, migrations, scripts, frontend, performance tests | | | no |

**How they interact.** API handlers and workers share two things: the database
and the stream. A handler reads a row through SQLAlchemy, decides, and commits
later; the ORM then emits `UPDATE ... WHERE id = ?` for the changed columns, so
the write lands whatever the row has become in between. Only the worker's claim
(`_claim`, and the update in `_burn_cash_out`) compares the status it replaces.
A handler commits first and publishes afterwards; `queue_for_settlement` then
writes QUEUED and commits once more. The worker acks a message after its last
commit, except when the record of a landed payment was rolled back.

**What is hard here.** A handler's write lands on the worker's progress. A
message is delivered again after a crash, a restart under the same name, or
because its consumer is slow. The chain moves and the database does not, or
nobody learns whether the chain moved. Two admins act on one row. Two
transactions use a wallet for the first time. Parallel quotes race for the last
of a limit, across midnight and on two databases. Threads share a rate that
runs out. The list
`hazards` of `PROJECT.json` has each of these at its line with the properties
that would catch it.

**What makes it correct.** The recipient is credited or the sender refunded,
one of them and once; nothing is paid out that was not paid in; a payout has a
burn of its own, a debit is made once per request; a status shown as final is
true; nothing is left in the middle for good. A balance is what its entries add
up to. No sender exceeds a limit or sends without having been approved. A rate
that is used is not too old, and rounding never pays out more than came in.

## 2. Modules

| Module | Content |
|---|---|
| `ConsumerGroup` | stream, pending entries list and worker loop, for messages about anything |
| `Delivery` | abstract: what the queue promises its consumers |
| `Settlement` | EXTENDS `ConsumerGroup`: requests and workers on remittances |
| `Payout` | abstract: what settlement promises about a remittance's money |
| `CashOut` | EXTENDS `ConsumerGroup`: requests and workers on cash-outs |
| `Withdrawal` | abstract: what a cash-out promises about the user's money |
| `Ledger` | wallets, balance rows, entries and the rows they are written with, under concurrent transactions |
| `Balances` | abstract: what the ledger promises its callers |
| `FxRate` | the cached exchange rate |
| `Fees` | the arithmetic of quotes and cash-outs, no state |
| `Pricing` | EXTENDS `FxRate` and `Fees`: requests get a rate and are priced with it |
| `Kyc` | applications of one user and their review |
| `QuoteLimits` | quotes of one sender, the limits, and what becomes of the quotes |
| `Sending` | EXTENDS `Kyc` and `QuoteLimits`, which share `users.kyc_status` and the users row |
| `ConsumerGroupProofs` | lemmas about the group's steps, used by the next two |
| `SettlementProofs`, `CashOutProofs`, `LedgerProofs`, `PricingProofs`, `SendingProofs` | theorems |
| `MCSettlement`, `MCCashOut`, `MCLedger`, `MCPricing`, `MCSending` | symmetry and values for the runs |

**Grain.** An action is one database transaction, one Redis command or one
XRPL submission. Between two actions anybody else may act. What a handler has
read stays in its variables (`rpc`, `rem`, `seen`; `ref` in `CashOut`) until it
uses it. A refused request changes nothing and has no action.

**`ConsumerGroup`.** `stream` is the sequence of messages, `delivered` the
group's position, `owner[e]` the consumer whose pending list holds entry `e`,
`todo[w]` and `cur[w]` the batch a worker is working through, `fetched[w]` how
it got it. `reclaim_stale` takes any set of entries that may have been idle for
long enough. An entry's idle time runs from its delivery, also while a live
worker has it: `SlowSettlement = TRUE` lets the reclaim take such entries,
`FALSE` states the configuration's intent that the idle time outlasts the work.
`SettlementError` goes on with the batch without an ack; any other exception
abandons the batch, and ends the process if it came out of the start-up replay,
which is outside the loop's `try` (`Escape`).

**`Settlement`.** `status`, `confirmed` and `entries` are the columns and rows;
`credits`, `refunds` and `paid` count what happened to the money. `entries`
holds kinds of `wallet_transactions` rows, and `Insertable` is the unique
constraint on (remittance, direction, status): the recipient's credit and the
sender's refund have the same key. Requests: `ReadQuoted`, `ReadConfirmed`,
`ReadFailed`, `ReadRefundable` start one; `CommitCashIn`, `CommitRequeue`,
`CommitRefund`, `LoadForQueue`, `Publish`, `PublishFails`, `CommitQueued` carry
it on. Worker: `Claim`/`Skip`, `Submit`/`SubmitRejected`/`SubmitUnanswered`,
`ResolveFails`, `RecordSuccess`/`RecordFails`, `Fail`, `Acknowledge`.

**`CashOut`.** A cash-out is named by its idempotency key; `NONE` is a key with
no row. `balance` is the user's UCTUSD, `debits`, `refunds`, `approvals`,
`burned` and `fiat` count what happened; `rejections` counts the refunds that an
admin's rejection made, so that the worker's can be told from them, and
`overwritten` remembers the cash-outs over which `approve_cash_out` or
`fail_cash_out` wrote when their status had moved on. `FaultKinds` selects the faults of an
instance, because some properties hold only without some of them.

**`Ledger`.** PostgreSQL at READ COMMITTED, statement by statement. What
transactions wait for is named by its key: a user's wallet, a balance row, an
entry by its unique key (remittance, direction, status), and a row of
`remittances` or `cash_outs`. `lock[k]` is the transaction that has the row locked
or has written it, `base[t]` the amount a transaction has read, and `job[t]` what
it does: `settle`, `fail` and `refund` (`_record_success`, `_fail`,
`refund_failed_remittance`), `request`, `complete` and `reject` of a cash-out,
`status`, a status written by itself (confirmation, claim, approval, retry,
`_fail`'s second try), and `view`, GET /wallet. A transaction looks up its wallet
(`FindOwnWallet`, `InsertOwnWallet`), reads its balance row FOR UPDATE
(`SelectRow`) or inserts it (`InsertRow`), and flushes (`Write`) the amount with
the entry; a settlement then looks up the sender's wallet (`FindPayerWallet`,
`InsertPayerWallet`) and flushes the sender's entry; the row of the caller comes
last. The statements of one flush come in either order. `_fail` assigns FAILED
before it looks up the wallet, so that the SAVEPOINT of a wallet's insert flushes
it early. A second entry with one key, or a second cash-out, is a violation
(`Violate`), a debit that is not covered a refusal (`Refuse`); both end the
transaction. A lost insert is read again without FOR UPDATE, as in
`_insert_or_reselect`. `DeadlockVictim` is the database's deadlock detection: a
transaction that waits in a circle (`Circle`) may be ended. SQLite is not modelled
here: FOR UPDATE does nothing there, and `_locked_balance_row` says that it relies
on PostgreSQL.

**`FxRate`, `Fees`, `Pricing`.** `clock` is `time.time()`, a rate is named by the
moment the provider answered with it, and `RateAt` is the market. The first look
at the cache takes no lock; `Acquire`, `Recheck`, `StartFetch`, `Store` and
`FetchFails` follow `_api_rate`, which fetches while it holds the lock. `Fees`
works in cents, token units and rate units; `Decimal.quantize` is a division
that rounds half up (fees, margin) or down (tokens, cash-out fee, payouts). The
28 digits of Python's Decimal context are taken to be enough for a quotient
before it is quantized.

**`Kyc`, `QuoteLimits`, `Sending`.** A request loads the user, looks, and commits;
the ORM writes `kyc_status` only if the request assigned another value than it
had loaded (`Assigned`). `create_quote` is `StartQuote`, `LockSender`,
`CheckLimits`, `InsertQuote`, `RecheckLimits`, `CommitQuote`; `database` is
PostgreSQL, where FOR UPDATE locks the users row, or SQLite, where the flush
takes the write lock. `with_for_update` does not refresh an object that is
loaded already, so `loaded` stays as it was. `now` is taken at the request's
start, `created_at` at the flush. FUNDED stands for the four statuses between
cash-in and settlement. Whatever writes the status later is a task (`Tasks`), a
request or a worker: it reads the row (`StartCashIn`, `StartRetry`,
`StartQueueing`, `StartFailing`, `StartRefund`) and writes over whatever the row
has become (`CommitStatus`). confirm-cash-in and confirm-payment are two tasks one
after the other, the CASH_IN_CONFIRMED of the first commit and the QUEUED of the
second, since `queue_for_settlement` loads the row again in between. `revived`
remembers the remittances that such a write made count after they had given their
headroom back: paid in after the quote expired, or queued, retried or failed over
REFUNDED.

**The abstract specifications.** `Payout`, `Withdrawal` and `Balances` say what
happens to money and nothing of messages, statuses, locks or requests; `Delivery`
says what happens to messages and nothing of what they are about.

- In `Payout` a remittance is paid in, and then credited or refunded.
- In `Withdrawal` a unit is reserved once per cash-out; an approval allows one
  burn and ends at most once, in a payout with a burn of its own or in the unit
  going back; a rejection gives the unit back. Several approvals of one cash-out
  are several permissions to burn, which is what the code makes of them
  (`CashOutTwice`). The mapping takes `reserved` to the cash-outs with a debit
  and `returned` to the refunds that are not rejections.
- In `Balances` a movement is one step, and a debit is made only on an account
  that has the money at that moment. The mapping restricts `amount`, `incoming`
  and `outgoing` to the rows that exist from the start; of rows made later it is
  false (`LedgerFirstRow`).
- In `Delivery` a message is given out for the first time once, in order and to
  one consumer, stays open until a consumer that has it finishes it, and may be
  given out again until then. This is "at-least-once delivery" and "competing
  consumers" of `settlement_queue.py`. `open` is the pending entries list, `hands`
  the batches of the workers. A read of new messages delivers; a reclaim and the
  replay at start-up redeliver; an ack finishes; `SettlementError`, an escaping
  exception and a crash let go. An entry that is reclaimed from a slow worker is
  in two hands at once, and the ack of either finishes it.

**Simplifications.** The worker's load of the row right after its claim is part
of the claim; `_fail`'s load, its write and the second write after a violated
constraint are one step. All cash-outs are of one
user and one unit; a request without an Idempotency-Key is a key used once. In
`CashOut` a balance movement is one step; `Ledger` has its parts, and
`ImplementsBalances` is what justifies the one step for a balance that exists. In `Ledger`
and `QuoteLimits` amounts are one unit too. Which status admits a call is for
`Settlement` and `CashOut` to say; in `Ledger` a call may come at any time, and
again. `Ledger` leaves out two kinds of wait: for the users row, which an insert
that refers to it shares and `create_quote` locks, because whoever holds it there
waits for nothing; and it keeps one that may not occur, because the ORM writes no
FAILED over a FAILED it has loaded. In `QuoteLimits` FUNDED admits every task that
one of its four statuses does, and the unique key that refuses a second refund, or
a credit after one, is left out. `read_pending` and `reclaim_stale` return at
most ten entries; the instances have at most three. The sender of a remittance
exists. The rows the settlement runs start from are quotes. Redis loses
nothing. Messages that cannot be parsed are not published by this code.
`MaxFetch` is the whole time a fetch takes; httpx applies its timeout to each
operation of it. An admin confirms a payment without a KYC check, as a task
does in `QuoteLimits`.

## 3. Runs

Passing runs. Deadlock is checked in `LedgerMovements` only, where a wallet can
always be viewed. In the others it is not: a system in which
every message is acked, or every request answered, and no bound leaves room for
another has nothing to do.

| Run | Instance | Shows |
|---|---|---|
| `SettlementPayout` | 1 remittance, 2 workers, 2 requests, 2 messages, 2 faults, slow workers | `TypeOK`, `PaidOutOnce`, `PayoutCovered`, `FinalStatusTrue`, and that `Settlement` implements `Payout` and `Delivery` |
| `SettlementLiveness` | 1 remittance, 3 workers, 1 request, 2 messages, 2 faults | `SettlingHasMessage`, `MessageResolves` |
| `CashOutRaces` | 2 cash-outs for 1 unit, 2 workers, 2 requests, 2 messages, slow workers; any 1 fault while at most one of them was debited | `TypeOK`, `DebitedOnce`, `FiatBacked`, `FinalStatusTrue`, `BurnApproved`, `OneEnd`, and that `CashOut` implements `Withdrawal` |
| `CashOutLiveness` | 1 cash-out, 2 workers, 2 requests, 2 messages, 2 faults, no worker lost | `ProcessingHasWorker`, `ProcessingHasMessage`, `ApprovalResolves` |
| `LedgerMovements` | 2 users, one with a balance of 1 and one without a wallet, a remittance each way, 3 cash-outs of the first, 2 transactions, 2 that write entries | `TypeOK`, `BalanceReconstructible`, `OnlySettlementsDeadlock`, `TransactionsEnd`, and that `Ledger` implements `Balances` |
| `PricingRates` | 2 requests, time to live 1, fall-back 2, fetch 1, clock to 5; 8 amounts sent, 9 cashed out | `TypeOK`, `FreshEnough`, `NoNeedlessFetch`, `RatesAdvance`, `TokensExact`, `NothingFromRounding`, `RequestsAnswered` |
| `SendingLimits` | 3 quotes, limits 1 a day and 2 a month, 2 days, clock to 1, 2 tasks, 1 application, 2 reviews, both databases | `TypeOK`, `WithinLimits`, `OnlyApprovedSend`, `StatusesInSync` |

**Bounds.** Two requests and two workers are the smallest numbers with a stale
write and a redelivery race; two messages give every handler a duplicate to
meet; two faults give a crash followed by a lost answer, or two lost workers,
which is why the liveness run has three. Two cash-outs for one unit make the
debits compete. `FaultsWithOne` cuts `CashOutRaces`: a state after the fault is
extended only while one cash-out at most was debited, as is the case unless the
unit came back and the other took it; without the fault both go through. `Room`
keeps the bound on messages from cutting a request off before its publish.
`MaxPaid` caps the count of payments: two are enough to see a second one. Two
transactions over a balance that exists and a user without a wallet give the
insert race, the lock queue, and the deadlocks of a settlement with a refund or a
failure of the same remittance; two settlements in a circle would need two users
without one, and are in the theorem. `MaxWrites` bounds the transactions that
write entries: two meet on every row; the third, in `LedgerFirstRow`, is the one
that is lost. The clock of `PricingRates` lets a rate be fetched, run out,
be fallen back on, and become too old. Its fees and basis points are those of
`app/config.py`, its tokens and rates in coarser units (TLC's integers have 32
bits), and its amounts lie where the fees swallow the amount or a rounding
turns. Three quotes over two days, with a request or a quote's life across midnight,
exceed either limit if a check is missing, and two tasks are what a late write
over REFUNDED takes. The
safety properties are proved for every value of these constants; the runs
confirm that the statements are about behaviours that occur.

**Fairness.** `FairSpec` has weak fairness of each worker's loop and of each
request once it was started: a process that is not dead runs on, and
`submit_and_wait` returns or raises. It asks for no request, no restart of a
dead worker and no fault. `MessageResolves` therefore does not promise that a
remittance whose publish failed is ever settled: nothing in the code does that
by itself, an admin has to call the endpoint again. `ApprovalResolves` is
stated for instances in which no worker is lost after its claim, because
otherwise it is false (`CashOutStranded`). In `Ledger` a transaction that was
begun runs on, with strong fairness where it waits for a lock, since the
database queues the waiters of a lock, and a deadlock is broken
(`deadlock_timeout`). In `Pricing` a thread runs on: weak fairness, since a
request takes the lock once and the fetch under it times out.

Runs that refute something the repository says. Each is reached without
anything but ordinary calls, or with the one fault named.

| Run | Statement | What happens |
|---|---|---|
| `SettlementRepublish` | `SubmittedOnce`: publishing again is safe by construction | QUEUED is written after the worker has settled; a repeated confirmation publishes again and the tokens move twice |
| `CashOutStranded` | `ProcessingHasMessage` | a burn whose record was rolled back: the redelivered message is skipped and acked, the cash-out stays PROCESSING |
| `CashOutTwice` | `BurnedOnce` | of two approvals at once the second lands after the worker is done; burned and paid twice |
| `LedgerFirstRow` | `EveryBalanceReconstructible` | the loser of the insert reads the winner's row without its lock; a movement that commits in between is overwritten |
| `SendingKyc` | `StatusesInSync` | an application sent twice: after one was approved the other's commit writes PENDING; if that one is then rejected the user is REJECTED, has an approved application, and cannot apply again (409) |

Two of these statements hold under a condition, which a passing run checks and a
theorem states: `ProcessingHasMessage` when no burn outlasts the idle time and no
worker or record is lost (`CashOutLiveness`), `StatusesInSync` for a user who
applies once and whom at most two reviews judge (`SendingLimits`). `BurnedOnce`
holds when requests come one at a time, by a theorem; a second one,
`EndedOnceHolds`, says the same of the end of a cash-out.

The same stale writes have other forms that need no run of their own: a second
confirmation's CASH_IN_CONFIRMED that lands on a settled remittance, whose second
settlement may then be recorded as FAILED though the recipient was credited; a
rejection that read APPROVED and commits while the worker burns, so that the
cash-out is refunded and paid; QUEUED
over SETTLED (`SettlementRepublish` passes through it), two workers settling one
remittance when the idle time is too short, a second on-chain payment after a
crash between payment and record, and a refund of a burn whose answer was lost.
`SettlementPayout` and `CashOutRaces` include all of these behaviours.

Met while modelling, without a run: the table of section 6.2 of the
specification says that `failed` does not count against a limit, and
`LIMIT_CONSUMING_STATUSES` counts it; line 285 says that fees round half up, and
the cash-out fee rounds down; a cash-out of so few tokens that its payout is
0.00 passes `calculate_cash_out_payout`, is burned, and cannot be completed,
because the ledger refuses to credit zero. And two forms of a late write that a
property exempts, because the code does what the property rules out. The total of
a sender may exceed the limit when a remittance counts again after its headroom
was given to another quote: the request confirms a cash-in, a worker fails it, an
admin refunds it, the sender takes a new quote, and the QUEUED of the first
request lands over REFUNDED. `WithinLimits` says that nothing else exceeds it. A
cash-out may be refunded twice, or refunded and paid, when a decision lands over a
status that has moved on; `OneEnd` says that nothing else ends a cash-out twice.

## 4. Proofs

All theorems are about `Spec` of the module named, for every set of remittances
or cash-outs, workers and requests, every bound, and `SlowSettlement` either
way, unless an assumption is stated. The constants' assumptions are the named
ASSUMEs of the modules: `None` is not a worker, a remittance or a cash-out, and
the bounds are natural numbers; the scales of `Fees` are positive and its fees at
most the whole; the set of quotes is finite and a time to live positive.

| Theorem | Assumes | Argument |
|---|---|---|
| `TypeCorrect`, `CashOutTypeCorrect` | | inductive; the group's part once, in `ConsumerGroupProofs` |
| `PaidOutOnceHolds`, `PayoutCoveredHolds`, `FinalStatusTrueHolds` | | `PayoutInv` |
| `ImplementsPayoutHolds` | | every step is a step of `Payout` or a stutter, from `PayoutInv` |
| `SettlingHasMessageHolds` | `~SlowSettlement` | `RecoveryInv` |
| `ImplementsDeliveryHolds`, `CashOutDelivers` | | every step is a step of `Delivery` or a stutter, from `TypeOK` and two lemmas of `ConsumerGroupProofs` |
| `DebitedOnceHolds`, `CashOutStatusTrueHolds` | | `BookInv` |
| `FiatBackedHolds` | finitely many workers | `BookInv`, `BackedInv` |
| `BurnApprovedHolds` | finitely many workers | `ApprovedInv` of `CashOutProofs` |
| `ImplementsWithdrawalHolds` | finitely many workers | every step is a step of `Withdrawal` or a stutter, from `MoneyInv` |
| `OneEndHolds` | finitely many workers | `OneEndInv` |
| `BurnedOnceHolds` | one request at a time | `OneBurnInv` |
| `EndedOnceHolds` | one request at a time, finitely many workers | `JudgedInv`, with `OneBurnInv` and `MoneyInv` |
| `ProcessingHasWorkerHolds` | no "record", "loop" or "crash" fault | inductive with `TypeOK` |
| `ProcessingHasMessageHolds` | the same, and `~SlowSettlement` | `HandInv` of `ConsumerGroupProofs`, and `ProcessingHasWorker` |
| `LedgerTypeCorrect` | | `CoverInv` |
| `BalanceReconstructibleHolds` | | `OpenInv` |
| `ImplementsBalancesHolds` | | every step is a step of `Balances` or a stutter, from `OpenInv` and `CoverInv` |
| `OnlySettlementsDeadlockHolds` | | `HoldInv` |
| `DeadlockVictimsSettle` | | an action property, from `OnlySettlementsDeadlock` |
| `PricingTypeCorrect`, `TokensExactHolds`, `NothingFromRoundingHolds` | | `PriceInv`, from lemmas about the roundings |
| `FreshEnoughHolds`, `NoNeedlessFetchHolds`, `RatesAdvanceHolds` | | `FxInv` |
| `SendingTypeCorrect`, `OnlyApprovedSendHolds` | | `ApprovedInv` of `SendingProofs` |
| `WithinLimitsHolds` | | `LimitsInv` |
| `StatusesInSyncHolds` | one application, at most two reviews | `SyncInv` |

- `PayoutInv`: `PaidOutOnce` speaks of counters, and what keeps them down is the
  unique constraint on `entries`. The invariant ties each counter to its entry,
  says that credit and refund exclude each other, that a final status has its
  entry, and that a request past its commit and a worker past its claim are
  about a remittance that was paid in; a worker about to record has paid.
- `RecoveryInv`: an entry in a worker's hands is in that worker's pending list,
  no two workers hold the same entry, and a remittance that is SETTLING has an
  anchor: a pending entry that is in the hands of a worker past its claim, or
  that will be redelivered as a reclaimed one. The last part is where
  RECLAIMABLE has to contain SETTLING.
- `BookInv`: a debit and its row come together, and whoever is about to write
  knows that the row is there.
- `BackedInv`: payouts made plus workers that have burned and not paid yet are
  at most the burns.
- `OneBurnInv`: a cash-out that can still be claimed has no burn and no burner,
  and an approval about to be written is of a REQUESTED cash-out. Overlapping
  requests break the last part, and the run `CashOutTwice` shows how.
- `ApprovedInv` (cash-outs): an approval is still to be claimed, or held by a
  worker about to burn, or used. It counts, so it needs cardinalities.
- `MoneyInv`: `BookInv`, `BackedInv` and `ApprovedInv` with `DecisionInv`, which
  counts decisions: the payouts, the refunds that are not rejections, the workers
  between claim and last commit, and one for a row that can be claimed are
  together at most the approvals. A claim moves one from the row to a worker, the
  worker's last commit moves it to a payout or a refund; so the commit finds an
  approval that has not ended, which is the guard of `Withdrawal`'s step.
- `OneEndInv`: of a cash-out that no late decision was written over, one of four
  things at most: it may still be decided or claimed, one worker has it, it was paid
  once, it was refunded once. Each commit moves it from one to the next, and a
  decision that does not find the status it was for is the exemption.
- `JudgedInv`: an approval is written over REQUESTED and a rejection about to be
  written is the first, so that, when requests do not overlap, admins decide once;
  `DecisionInv` then leaves the workers one end. A rejection may still refund what
  a worker is paying (it checks APPROVED, the worker claims, it commits), so the
  theorem counts rejections apart.
- `FetchDelivers`, `ReleaseDelivers` (in `ConsumerGroupProofs`): each way of reading
  the stream is a delivery or a redelivery to an empty-handed worker, each way of
  ending a message an ack of what is in hand or a letting go. They need only the
  types, so at-least-once delivery holds with slow workers and all faults; that
  it does not mean "handled once" is what the other theorems are about.
- `HandInv`: an entry in a worker's hands is that worker's in Redis too, so that
  nobody else can ack it. It fails as soon as an entry is reclaimed from a worker
  that is only slow.
- `CoverInv`: a debit past its check was covered by what it read.
- `OpenInv`: whoever moves a balance that was there has its row locked from the
  read on, and what it read is what is committed. It never gets to the insert,
  behind which the row is read without a lock; that is what fails for a new row.
  For `Balances` the same fact says that the commit adds to, or takes from, the
  committed amount, and `CoverInv` that a debit still finds the money.
- `HoldInv`: which locks a transaction may have at which point. A cash-out takes
  its wallet, its balance row and its `cash_outs` row in that order, and whoever
  has the last of them waits for nothing; entries with a key, and wallets of
  somebody else, are only held by settlements, failures and refunds. A wallet
  that is not committed has no balance row that is, so that a circle through a
  wallet cannot close over a cash-out. In a circle everybody waits and is waited
  for, and the invariant leaves that to settlements, failures and refunds.
- `FxInv`: whoever is between taking the lock and giving it back holds it; a rate
  arrives within the timeout; while somebody fetches, the cache has run out, so
  every rate served before is older than the one on the way.
- `PriceInv`: the three statements about a price together. They rest on what a
  division that rounds down, or half up, returns, and are proved for every scale.
- `ApprovedInv` (sending): whatever a request has loaded, somebody has committed.
- `LimitsInv`: between its second check and its commit a request has the lock, so
  that what counts beside its own quote can only become less, but for what a late
  write revives, which is why `revived` is there; at the commit its day and month
  have room. That the window is the one of `created_at`, and the check that of
  `now`, is where the times come in: what is counted from `now`'s midnight on
  includes what is counted from a later one.

- `SyncInv`: the columns are equal once there is an application. That alone is
  not inductive: a review that has loaded the value it assigns leaves
  `users.kyc_status` alone. Such a review has loaded the outcome of another one
  that is over, and with two reviews nobody is left to change the column before
  it commits. A third review is, and TLC finds the counterexample.

Only model-checked: the liveness properties `MessageResolves`,
`ApprovalResolves`, `TransactionsEnd` and `RequestsAnswered`; TLAPS does not
reason about fairness here.

## 5. Not modelled

- Accounts and beneficiaries: each endpoint writes one row, guarded by a unique
  constraint or a foreign key. The one thing that takes several actors, an e-mail
  address that changes between cash-in and settlement, is listed as a hazard; the
  code states no promise about it that could be checked.
- The mock rate (a function of the clock) and the stored rates (one SELECT).
- Custody: the pool's balance against all claims (specification section 9.6)
  would join remittances and cash-outs on one stream. `PayoutCovered`,
  `FiatBacked` and `NothingFromRounding` state its parts; the product of the two
  models is out of TLC's reach with the bounds that make the races happen.
- XRPL account set-up and trust lines, migrations and set-up scripts (run once by
  hand), authentication and encryption (primitives without state), configuration
  and schemas (constants of the modules), the frontend (shows what the API
  answers) and the performance tests.
