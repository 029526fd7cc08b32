--------------------------- MODULE ConsumerGroup ----------------------------
(***************************************************************************)
(* The Redis Stream of settlement messages with its consumer group         *)
(* (services/settlement_queue.py) and the loop of the workers that read it *)
(* (SettlementWorker.run, _reclaim_abandoned and handle).  What a worker   *)
(* does with a message is left to the module that extends this one; the    *)
(* operators here say how the stream, the group's pending entries list and *)
(* the position of a worker in its loop change, and nothing else.          *)
(***************************************************************************)
EXTENDS Integers, Sequences, FiniteSets

CONSTANTS
  Workers,        \* consumer names; a restarted worker may get its name back
  None,           \* no entry, no owner
  MaxEntries,     \* bound: messages published to the stream
  SlowSettlement  \* can a live worker hold an entry for longer than
                  \* settlement_reclaim_idle_ms?

ASSUME NoWorkerAssumption == None \notin Workers
ASSUME EntriesAssumption == MaxEntries \in Nat
ASSUME SlowAssumption == SlowSettlement \in BOOLEAN

VARIABLES
  stream,     \* the stream: what each entry is about
  delivered,  \* the group's last delivered entry
  owner,      \* the group's pending entries list: who each entry is with
  wpc,        \* where each worker is
  todo,       \* entries a worker has fetched and not finished
  cur,        \* the one of them it is handling
  fetched     \* how it fetched them

redis  == <<stream, delivered, owner>>
worker == <<wpc, todo, cur, fetched>>

EntryIds == 1 .. MaxEntries

Fetches == {"new", "stale", "replay"}

GroupInit ==
  /\ stream = <<>>
  /\ delivered = 0
  /\ owner = [e \in EntryIds |-> None]
  /\ wpc = [w \in Workers |-> "idle"]
  /\ todo = [w \in Workers |-> {}]
  /\ cur = [w \in Workers |-> None]
  /\ fetched = [w \in Workers |-> "new"]

\* XADD.
XAdd(item) ==
  /\ Len(stream) < MaxEntries
  /\ stream' = Append(stream, item)
  /\ UNCHANGED <<delivered, owner, worker>>

(***************************************************************************)
(* handle() works through the entries that one fetch returned, in stream   *)
(* order, and the loop goes back to its top after the last.                *)
(***************************************************************************)
Handle(w, S, how) ==
  /\ todo' = [todo EXCEPT ![w] = S]
  /\ fetched' = [fetched EXCEPT ![w] = IF S = {} THEN "new" ELSE how]
  /\ \/ /\ S = {}
        /\ wpc' = [wpc EXCEPT ![w] = "idle"]
        /\ cur' = [cur EXCEPT ![w] = None]
     \/ \E e \in S :
          /\ \A f \in S : e <= f
          /\ wpc' = [wpc EXCEPT ![w] = "claim"]
          /\ cur' = [cur EXCEPT ![w] = e]

\* read_new: XREADGROUP ">" with count 1.
FetchNew(w) ==
  /\ wpc[w] = "idle"
  /\ delivered < Len(stream)
  /\ delivered' = delivered + 1
  /\ owner' = [owner EXCEPT ![delivered + 1] = w]
  /\ Handle(w, {delivered + 1}, "new")
  /\ UNCHANGED stream

Pending == {e \in EntryIds : owner[e] # None}

InHand == UNION {todo[w] : w \in Workers}

\* Mutant of Stale: a message is only ever replayed to the consumer it was
\* delivered to.
StaleNever == {}

\* Mutant of Stale: an idle time that an entry in good hands reaches too.
StaleInHand == Pending

(***************************************************************************)
(* Entries that can have been idle for settlement_reclaim_idle_ms.  An     *)
(* entry's idle time runs from its delivery, also while a live worker has  *)
(* it, alone or behind others of its batch.                                *)
(***************************************************************************)
Stale == IF SlowSettlement THEN Pending ELSE Pending \ InHand

\* reclaim_stale: XAUTOCLAIM.
FetchStale(w) ==
  /\ wpc[w] = "idle"
  /\ \E S \in SUBSET Stale \ {{}} :
       /\ owner' = [e \in EntryIds |-> IF e \in S THEN w ELSE owner[e]]
       /\ Handle(w, S, "stale")
  /\ UNCHANGED <<stream, delivered>>

\* A worker starts and replays what its name was delivered: read_pending,
\* XREADGROUP "0".
FetchPending(w) ==
  /\ wpc[w] = "down"
  /\ Handle(w, {e \in EntryIds : owner[e] = w}, "replay")
  /\ UNCHANGED redis

\* The worker is told that its message is a redelivery.
reclaimed(w) == fetched[w] # "new"

\* What the message in hand is about.
Current(w) == stream[cur[w]]

\* From one step of the message's handler to the next.
Step(w, from, to) ==
  /\ wpc[w] = from
  /\ wpc' = [wpc EXCEPT ![w] = to]
  /\ UNCHANGED <<todo, cur, fetched, redis>>

\* The next entry of the batch, or the top of the loop.
Advance(w) == Handle(w, todo[w] \ {cur[w]}, fetched[w])

\* SettlementError: handle() returns without an ack.
LeaveUnacked(w) == Advance(w) /\ UNCHANGED redis

\* Mutant of Ack: one XACK for the whole batch.
AckBatch(w) ==
  /\ wpc[w] = "ack"
  /\ owner' = [e \in EntryIds |-> IF e \in todo[w] THEN None ELSE owner[e]]
  /\ Advance(w)
  /\ UNCHANGED <<stream, delivered>>

\* XACK, which removes the entry whoever it is with.
Ack(w) ==
  /\ wpc[w] = "ack"
  /\ owner' = [owner EXCEPT ![cur[w]] = None]
  /\ Advance(w)
  /\ UNCHANGED <<stream, delivered>>

Stop(w) ==
  /\ wpc' = [wpc EXCEPT ![w] = "down"]
  /\ todo' = [todo EXCEPT ![w] = {}]
  /\ cur' = [cur EXCEPT ![w] = None]
  /\ fetched' = [fetched EXCEPT ![w] = "new"]

(***************************************************************************)
(* Any other exception leaves handle() and the batch with it.  run() backs *)
(* off and goes back to the top of its loop; but the replay at start-up is *)
(* not inside the loop's try, and there the exception ends the process.    *)
(***************************************************************************)
Escape(w) ==
  /\ \/ fetched[w] = "replay" /\ Stop(w)
     \/ fetched[w] # "replay" /\ Handle(w, {}, "new")
  /\ UNCHANGED redis

\* The process is gone; what it fetched stays pending in Redis.
Die(w) == wpc[w] # "down" /\ Stop(w) /\ UNCHANGED redis

-----------------------------------------------------------------------------
(***************************************************************************)
(* The types of the variables, for messages about Items and workers at PCs. *)
(***************************************************************************)
StreamType(Items) ==
  /\ stream \in Seq(Items) /\ Len(stream) <= MaxEntries
  /\ delivered \in 0 .. Len(stream)
  /\ owner \in [EntryIds -> Workers \cup {None}]
  /\ \A e \in Pending : e <= delivered

ConsumerType(PCs) ==
  /\ wpc \in [Workers -> PCs]
  /\ todo \in [Workers -> SUBSET (1 .. delivered)]
  /\ cur \in [Workers -> EntryIds \cup {None}]
  /\ fetched \in [Workers -> Fetches]
  /\ \A w \in Workers : IF wpc[w] \in {"down", "idle"} THEN todo[w] = {}
                                                      ELSE cur[w] \in todo[w]
=============================================================================
