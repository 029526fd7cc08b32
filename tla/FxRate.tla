------------------------------- MODULE FxRate -------------------------------
(***************************************************************************)
(* Where a request gets its exchange rate from: the "api" source of        *)
(* services/fx_rate_service.py, a rate cached in the process and shared by *)
(* its request threads.  A fresh rate is read without the lock; to refresh *)
(* it a thread takes the lock, looks again, and asks the provider while it *)
(* holds the lock.  When the provider fails the last rate is good for a    *)
(* while longer.                                                           *)
(*                                                                         *)
(* A rate is named by the moment the provider answered with it.            *)
(***************************************************************************)
EXTENDS Integers, FiniteSets

CONSTANTS
  Requests,   \* requests for a rate, each in a thread of its own
  Ttl,        \* fx_rate_cache_seconds
  MaxStale,   \* fx_rate_max_stale_seconds
  MaxFetch,   \* how long the provider may take (fx_api_timeout_seconds)
  MaxTime,    \* bound: the clock
  None

Cached == [rate : Nat, fetched : Nat, expires : Nat]

Answers == [rate : Nat, at : Nat]

ASSUME NoRequestAssumption == None \notin Requests \cup Cached \cup Answers
ASSUME TimesAssumption == {Ttl, MaxStale, MaxFetch, MaxTime} \subseteq Nat

VARIABLES
  clock,    \* time.time()
  cache,    \* _api_cache: None, or the rate with its two times
  mutex,    \* _api_lock: None, or the request that holds it
  fpc,      \* where each request is
  asked,    \* when it asked the provider
  answer    \* the rate it got and when, or None

fx == <<clock, cache, mutex, fpc, asked, answer>>

FetchPC == {"new", "lock", "recheck", "fetch", "store", "served", "refused"}

FxInit ==
  /\ clock = 0
  /\ cache = None
  /\ mutex = None
  /\ fpc = [q \in Requests |-> "new"]
  /\ asked = [q \in Requests |-> 0]
  /\ answer = [q \in Requests |-> None]

Fresh == cache # None /\ clock < cache.expires

Serve(q, rate) ==
  /\ fpc' = [fpc EXCEPT ![q] = "served"]
  /\ answer' = [answer EXCEPT ![q] = [rate |-> rate, at |-> clock]]

FxGoto(q, pc) == fpc' = [fpc EXCEPT ![q] = pc]

\* The first look, without the lock.
LookUp(q) ==
  /\ fpc[q] = "new"
  /\ \/ Fresh /\ Serve(q, cache.rate)
     \/ ~Fresh /\ FxGoto(q, "lock") /\ UNCHANGED answer
  /\ UNCHANGED <<clock, cache, mutex, asked>>

\* Mutant of Acquire: there is no lock.
AcquireNothing(q) ==
  /\ fpc[q] = "lock"
  /\ FxGoto(q, "recheck")
  /\ UNCHANGED <<clock, cache, mutex, asked, answer>>

Acquire(q) ==
  /\ fpc[q] = "lock"
  /\ mutex = None
  /\ mutex' = q
  /\ FxGoto(q, "recheck")
  /\ UNCHANGED <<clock, cache, asked, answer>>

StartFetch(q) ==
  /\ FxGoto(q, "fetch")
  /\ asked' = [asked EXCEPT ![q] = clock]
  /\ UNCHANGED <<mutex, answer>>

\* Mutant of Recheck: whoever gets the lock fetches.
RecheckNothing(q) ==
  /\ fpc[q] = "recheck"
  /\ StartFetch(q)
  /\ UNCHANGED <<clock, cache>>

\* Another thread may have refreshed it while this one waited.
Recheck(q) ==
  /\ fpc[q] = "recheck"
  /\ \/ Fresh /\ Serve(q, cache.rate) /\ mutex' = None /\ UNCHANGED asked
     \/ ~Fresh /\ StartFetch(q)
  /\ UNCHANGED <<clock, cache>>

\* The provider answers; its answer is on the way.
ProviderAnswers(q) ==
  /\ fpc[q] = "fetch"
  /\ FxGoto(q, "store")
  /\ answer' = [answer EXCEPT ![q] = [rate |-> clock, at |-> clock]]
  /\ UNCHANGED <<clock, cache, mutex, asked>>

\* Mutant of Store: the lock is not released.
StoreAndKeepLock(q) ==
  /\ fpc[q] = "store"
  /\ cache' = [rate |-> answer[q].rate, fetched |-> clock, expires |-> clock + Ttl]
  /\ Serve(q, answer[q].rate)
  /\ UNCHANGED <<clock, mutex, asked>>

\* The rate is stored under the time it arrived at.
Store(q) ==
  /\ fpc[q] = "store"
  /\ cache' = [rate |-> answer[q].rate, fetched |-> clock, expires |-> clock + Ttl]
  /\ Serve(q, answer[q].rate)
  /\ mutex' = None
  /\ UNCHANGED <<clock, asked>>

\* Mutant of Usable: the last rate is good for ever.
UsableForEver == cache # None

\* _fallback: the last rate, unless it is too old.
Usable == cache # None /\ clock - cache.fetched <= MaxStale

\* No answer, an error status, or an answer without a rate or with one that
\* is not positive: FxRateUnavailableError if there is no rate to fall back on.
FetchFails(q) ==
  /\ fpc[q] \in {"fetch", "store"}
  /\ \/ Usable /\ Serve(q, cache.rate)
     \/ ~Usable /\ FxGoto(q, "refused") /\ answer' = [answer EXCEPT ![q] = None]
  /\ mutex' = None
  /\ UNCHANGED <<clock, cache, asked>>

\* reset_api_cache: a manual refresh.
ResetCache ==
  /\ mutex = None
  /\ cache' = None
  /\ UNCHANGED <<clock, mutex, fpc, asked, answer>>

Fetching(q) == fpc[q] \in {"fetch", "store"}

\* Time passes, but nobody waits for the provider longer than the timeout.
Tick ==
  /\ clock < MaxTime
  /\ \A q \in Requests : Fetching(q) => clock < asked[q] + MaxFetch
  /\ clock' = clock + 1
  /\ UNCHANGED <<cache, mutex, fpc, asked, answer>>

RateStep(q) ==
  \/ LookUp(q) \/ Acquire(q) \/ Recheck(q) \/ ProviderAnswers(q) \/ Store(q)
  \/ FetchFails(q)

-----------------------------------------------------------------------------
FxType ==
  /\ clock \in 0 .. MaxTime
  /\ cache \in Cached \cup {None}
  /\ mutex \in Requests \cup {None}
  /\ fpc \in [Requests -> FetchPC]
  /\ asked \in [Requests -> 0 .. MaxTime]
  /\ answer \in [Requests -> Answers \cup {None}]
  /\ \A q \in Requests : fpc[q] \in {"store", "served"} => answer[q] # None

Served(q) == fpc[q] = "served"

\* How old a rate may be when it is served: as long as the cache or the
\* fall-back keeps it, and the time it took to arrive.
MaxAge == (IF Ttl > MaxStale THEN Ttl ELSE MaxStale) + MaxFetch

(***************************************************************************)
(* "a rate old enough to be wrong is worse than no rate" (_fallback): no   *)
(* request is given a rate that the provider answered with longer ago than *)
(* the cache, or the fall-back, and the fetch itself may take, whether it  *)
(* was read without the lock, fetched, or fallen back on.                  *)
(***************************************************************************)
FreshEnough ==
  \A q \in Requests : Served(q) => answer[q].at - answer[q].rate <= MaxAge

(***************************************************************************)
(* "without the lock a burst of quotes would each fire their own HTTP      *)
(* request" (_api_lock): whoever asks the provider does so because there   *)
(* was no fresh rate when it asked, also if it had to wait for the lock    *)
(* first, and nobody else is asking.                                       *)
(***************************************************************************)
NoNeedlessFetch ==
  \A q \in Requests : Fetching(q) =>
    /\ cache # None => cache.expires <= asked[q]
    /\ \A p \in Requests : Fetching(p) => p = q

(***************************************************************************)
(* Rates do not go back in time: a request is never served an older rate   *)
(* than another one was before it, through refreshes, failures, fall-backs *)
(* and resets of the cache.                                                *)
(***************************************************************************)
RatesAdvance ==
  [][\A q \in Requests : ~Served(q) /\ Served(q)' =>
       \A p \in Requests : Served(p) => answer[p].rate <= answer'[q].rate]_fx

(***************************************************************************)
(* Every request gets a rate or a refusal, however often the provider      *)
(* fails while others hold the lock.                                       *)
(***************************************************************************)
RequestsAnswered == \A q \in Requests : <>(fpc[q] \in {"served", "refused"})
=============================================================================
