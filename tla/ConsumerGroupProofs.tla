------------------------- MODULE ConsumerGroupProofs -------------------------
(***************************************************************************)
(* What the operations of ConsumerGroup keep true, whatever the messages   *)
(* are about (Items) and whatever steps the handler of a message has       *)
(* (PCs): the stream, the pending list and the workers stay well typed,    *)
(* the entry a worker has in hand keeps its meaning and, when no handler   *)
(* outlasts the idle time, stays that worker's.                            *)
(***************************************************************************)
EXTENDS ConsumerGroup, TLAPS

USE DEF Fetches

GroupType(Items, PCs) == StreamType(Items) /\ ConsumerType(PCs)

(* The group starts well typed.                                            *)
LEMMA GroupInitType ==
  ASSUME NEW Items, NEW PCs, "idle" \in PCs, GroupInit
  PROVE  GroupType(Items, PCs)
  BY EntriesAssumption
    DEF GroupInit, GroupType, StreamType, ConsumerType, Pending, EntryIds

(* What a step leaves alone stays well typed.                              *)
LEMMA GroupFrame ==
  ASSUME NEW Items, NEW PCs, GroupType(Items, PCs), UNCHANGED <<redis, worker>>
  PROVE  GroupType(Items, PCs)'
  BY DEF GroupType, StreamType, ConsumerType, redis, worker, Pending

(* A published message is about one of the items.                          *)
LEMMA XAddType ==
  ASSUME NEW Items, NEW PCs, GroupType(Items, PCs), NEW item \in Items, XAdd(item)
  PROVE  GroupType(Items, PCs)'
  <1>1. StreamType(Items)'
    BY EntriesAssumption DEF GroupType, XAdd, StreamType, Pending
  <1>2. ConsumerType(PCs)'
    BY DEF GroupType, XAdd, ConsumerType, worker
  <1> QED
    BY <1>1, <1>2 DEF GroupType

(* Handling a set of delivered entries next leaves a worker well typed.    *)
LEMMA HandleType ==
  ASSUME NEW PCs, {"idle", "claim"} \subseteq PCs, ConsumerType(PCs),
         delivered \in Nat, delivered' \in Nat,
         delivered <= delivered', delivered' <= MaxEntries,
         NEW w \in Workers, NEW S \in SUBSET (1 .. delivered'),
         NEW how \in Fetches, Handle(w, S, how)
  PROVE  ConsumerType(PCs)'
  <1>1. /\ todo' \in [Workers -> SUBSET (1 .. delivered')]
        /\ fetched' \in [Workers -> Fetches]
    BY DEF ConsumerType, Handle
  <1>2. CASE S = {} /\ wpc' = [wpc EXCEPT ![w] = "idle"]
                    /\ cur' = [cur EXCEPT ![w] = None]
    BY <1>1, <1>2 DEF ConsumerType, Handle
  <1>3. ASSUME NEW e \in S, wpc' = [wpc EXCEPT ![w] = "claim"],
               cur' = [cur EXCEPT ![w] = e]
        PROVE  ConsumerType(PCs)'
    BY <1>1, <1>3, EntriesAssumption DEF ConsumerType, Handle, EntryIds
  <1> QED
    BY <1>2, <1>3 DEF Handle

(* So does going on to entries that were delivered before.                 *)
LEMMA HandleSameType ==
  ASSUME NEW Items, NEW PCs, {"idle", "claim"} \subseteq PCs, GroupType(Items, PCs),
         UNCHANGED delivered, NEW w \in Workers,
         NEW S \in SUBSET (1 .. delivered), NEW how \in Fetches,
         Handle(w, S, how)
  PROVE  ConsumerType(PCs)'
  <1>1. /\ delivered \in Nat /\ delivered' \in Nat /\ delivered <= delivered'
        /\ delivered' <= MaxEntries /\ S \in SUBSET (1 .. delivered')
    BY EntriesAssumption DEF GroupType, StreamType
  <1> QED
    BY <1>1, HandleType DEF GroupType

(* A worker that has an entry in hand knows what it is about.              *)
LEMMA CurrentType ==
  ASSUME NEW Items, NEW PCs, GroupType(Items, PCs), NEW w \in Workers,
         wpc[w] \notin {"down", "idle"}
  PROVE  /\ cur[w] \in 1 .. delivered /\ cur[w] \in todo[w]
         /\ cur[w] \in 1 .. Len(stream) /\ cur[w] \in EntryIds
         /\ Current(w) \in Items
  <1>1. cur[w] \in todo[w] /\ cur[w] \in 1 .. delivered
    BY DEF GroupType, ConsumerType
  <1>2. cur[w] \in 1 .. Len(stream) /\ cur[w] \in EntryIds
    BY <1>1, EntriesAssumption DEF GroupType, StreamType, EntryIds
  <1> QED
    BY <1>1, <1>2 DEF GroupType, StreamType, Current

(* The entry a worker is handling keeps its meaning while others publish.  *)
LEMMA CurrentKept ==
  ASSUME NEW Items, NEW PCs, GroupType(Items, PCs), NEW w \in Workers,
         wpc[w] \notin {"down", "idle"}, cur'[w] = cur[w],
         stream' = stream \/ (\E item \in Items : stream' = Append(stream, item))
  PROVE  Current(w)' = Current(w)
  <1>1. cur[w] \in 1 .. Len(stream) /\ stream \in Seq(Items)
    BY CurrentType DEF GroupType, StreamType
  <1> QED
    BY <1>1 DEF Current

(* The handler's own steps keep the types.                                 *)
LEMMA StepType ==
  ASSUME NEW Items, NEW PCs, GroupType(Items, PCs), NEW w \in Workers,
         NEW from \in PCs \ {"down", "idle"}, NEW to \in PCs \ {"down", "idle"},
         Step(w, from, to)
  PROVE  GroupType(Items, PCs)'
  <1>1. StreamType(Items)'
    BY DEF GroupType, StreamType, Step, redis, Pending
  <1>2. ConsumerType(PCs)'
    BY DEF GroupType, ConsumerType, Step, redis
  <1> QED
    BY <1>1, <1>2 DEF GroupType

(* Fetching entries keeps the types.                                       *)
LEMMA FetchType ==
  ASSUME NEW Items, NEW PCs, {"idle", "claim"} \subseteq PCs, GroupType(Items, PCs),
         NEW w \in Workers, FetchNew(w) \/ FetchStale(w) \/ FetchPending(w)
  PROVE  GroupType(Items, PCs)'
  <1> USE EntriesAssumption DEF GroupType
  <1>1. CASE FetchNew(w)
    <2>1. /\ delivered' = delivered + 1 /\ delivered' <= Len(stream)
          /\ delivered \in Nat /\ delivered' \in Nat /\ delivered <= delivered'
          /\ delivered' <= MaxEntries
          /\ {delivered + 1} \in SUBSET (1 .. delivered')
      BY <1>1 DEF FetchNew, StreamType
    <2>2. ConsumerType(PCs)'
      BY <1>1, <2>1, HandleType DEF FetchNew
    <2>3. StreamType(Items)'
      BY <1>1, <2>1 DEF FetchNew, StreamType, Pending, EntryIds
    <2> QED
      BY <2>2, <2>3
  <1>2. CASE FetchStale(w)
    <2>1. PICK S \in SUBSET Stale \ {{}} :
            /\ owner' = [e \in EntryIds |-> IF e \in S THEN w ELSE owner[e]]
            /\ Handle(w, S, "stale")
      BY <1>2 DEF FetchStale
    <2>2. S \in SUBSET Pending /\ S \in SUBSET (1 .. delivered)
      BY DEF Stale, Pending, StreamType, EntryIds
    <2>3. ConsumerType(PCs)'
      BY <1>2, <2>1, <2>2, HandleSameType DEF FetchStale
    <2>4. StreamType(Items)'
      BY <1>2, <2>1, <2>2 DEF FetchStale, StreamType, Pending
    <2> QED
      BY <2>3, <2>4
  <1>3. CASE FetchPending(w)
    <2> DEFINE S == {e \in EntryIds : owner[e] = w}
    <2>1. S \in SUBSET (1 .. delivered)
      BY NoWorkerAssumption DEF StreamType, Pending, EntryIds
    <2>2. Handle(w, S, "replay") /\ UNCHANGED delivered
      BY <1>3 DEF FetchPending, redis
    <2> HIDE DEF S
    <2>3. ConsumerType(PCs)'
      BY <2>1, <2>2, HandleSameType
    <2>4. StreamType(Items)'
      BY <1>3 DEF FetchPending, StreamType, redis, Pending
    <2> QED
      BY <2>3, <2>4
  <1> QED
    BY <1>1, <1>2, <1>3

(* Letting go of an entry, of a batch or of everything keeps the types.    *)
LEMMA ReleaseType ==
  ASSUME NEW Items, NEW PCs, {"down", "idle", "claim"} \subseteq PCs,
         GroupType(Items, PCs), NEW w \in Workers,
         LeaveUnacked(w) \/ Ack(w) \/ Escape(w) \/ Die(w)
  PROVE  GroupType(Items, PCs)'
  <1> USE DEF GroupType
  <1>1. UNCHANGED delivered
    BY DEF LeaveUnacked, Ack, Escape, Die, redis
  <1>2. ASSUME Advance(w)
        PROVE  ConsumerType(PCs)'
    <2>1. todo[w] \ {cur[w]} \in SUBSET (1 .. delivered) /\ fetched[w] \in Fetches
      BY DEF ConsumerType
    <2> QED
      BY <1>1, <1>2, <2>1, HandleSameType DEF Advance
  <1>3. ASSUME UNCHANGED redis
        PROVE  StreamType(Items)'
    BY <1>3 DEF StreamType, redis, Pending
  <1>4. CASE LeaveUnacked(w)
    BY <1>2, <1>3, <1>4 DEF LeaveUnacked
  <1>5. CASE Ack(w)
    <2>1. StreamType(Items)'
      BY <1>5, CurrentType DEF Ack, StreamType, Pending
    <2> QED
      BY <1>2, <1>5, <2>1 DEF Ack
  <1>6. ASSUME Stop(w)
        PROVE  ConsumerType(PCs)'
    BY <1>1, <1>6 DEF Stop, ConsumerType
  <1>7. CASE Escape(w)
    <2>1. ASSUME Handle(w, {}, "new")
          PROVE  ConsumerType(PCs)'
      <3>1. {} \in SUBSET (1 .. delivered)
        OBVIOUS
      <3> QED
        BY <1>1, <2>1, <3>1, HandleSameType
    <2> QED
      BY <1>3, <1>6, <1>7, <2>1 DEF Escape
  <1>8. CASE Die(w)
    BY <1>3, <1>6, <1>8 DEF Die
  <1> QED
    BY <1>4, <1>5, <1>7, <1>8

(* A worker that fetches entries or lets go of one is at the start of a    *)
(* message, at the top of its loop or down, and disturbs no other worker.  *)
LEMMA GroupMoves ==
  ASSUME NEW PCs, ConsumerType(PCs), NEW w \in Workers,
         \/ FetchNew(w) \/ FetchStale(w) \/ FetchPending(w)
         \/ LeaveUnacked(w) \/ Ack(w) \/ Escape(w) \/ Die(w)
  PROVE  /\ stream' = stream
         /\ \A v \in Workers \ {w} : wpc'[v] = wpc[v] /\ cur'[v] = cur[v]
         /\ wpc'[w] \in {"down", "idle", "claim"}
  <1>1. stream' = stream
    BY DEF FetchNew, FetchStale, FetchPending, LeaveUnacked, Ack, Escape, Die, redis
  <1>2. Stop(w) \/ \E S, how : Handle(w, S, how)
    BY DEF FetchNew, FetchStale, FetchPending, LeaveUnacked, Ack, Escape, Die, Advance
  <1>3. CASE Stop(w)
    BY <1>1, <1>3 DEF Stop, ConsumerType
  <1>4. CASE \E S, how : Handle(w, S, how)
    BY <1>1, <1>4 DEF Handle, ConsumerType
  <1> QED
    BY <1>2, <1>3, <1>4

-----------------------------------------------------------------------------
(***************************************************************************)
(* Whose the entries are.  When no live worker holds an entry for longer   *)
(* than settlement_reclaim_idle_ms, an entry in a worker's hands is with   *)
(* that worker in Redis too: no other worker has it, and so nobody else    *)
(* can ack it.                                                             *)
(***************************************************************************)
HandInv == \A w \in Workers : \A e \in todo[w] : owner[e] = w

(* The entries that a worker fetches are nobody else's, and become its own. *)
LEMMA FetchTakes ==
  ASSUME ~SlowSettlement, NEW Items, NEW PCs, GroupType(Items, PCs), HandInv,
         NEW w \in Workers, FetchNew(w) \/ FetchStale(w) \/ FetchPending(w)
  PROVE  \E S \in SUBSET EntryIds, how \in Fetches :
           /\ Handle(w, S, how)
           /\ owner' = [e \in EntryIds |-> IF e \in S THEN w ELSE owner[e]]
           /\ \A v \in Workers \ {w} : S \cap todo[v] = {}
           /\ how # "new" \/ S \cap Pending = {}
  <1> USE EntriesAssumption DEF GroupType
  <1>1. CASE FetchNew(w)
    <2>1. delivered + 1 \in EntryIds /\ delivered + 1 \notin Pending
          /\ \A v \in Workers : delivered + 1 \notin todo[v]
      BY <1>1 DEF FetchNew, StreamType, ConsumerType, EntryIds
    <2>2. owner' = [e \in EntryIds |-> IF e \in {delivered + 1} THEN w ELSE owner[e]]
      BY <1>1, <2>1 DEF FetchNew, StreamType
    <2>3. /\ {delivered + 1} \in SUBSET EntryIds
          /\ \A v \in Workers \ {w} : {delivered + 1} \cap todo[v] = {}
          /\ {delivered + 1} \cap Pending = {}
          /\ Handle(w, {delivered + 1}, "new")
      BY <1>1, <2>1 DEF FetchNew
    <2> QED
      BY <2>2, <2>3
  <1>2. CASE FetchStale(w)
    <2>1. PICK S \in SUBSET Stale \ {{}} :
            /\ owner' = [e \in EntryIds |-> IF e \in S THEN w ELSE owner[e]]
            /\ Handle(w, S, "stale")
      BY <1>2 DEF FetchStale
    <2>2. S \in SUBSET EntryIds /\ \A v \in Workers : S \cap todo[v] = {}
      BY DEF Stale, Pending, InHand
    <2> QED
      BY <2>1, <2>2
  <1>3. CASE FetchPending(w)
    <2> DEFINE S == {e \in EntryIds : owner[e] = w}
    <2>1. /\ owner' = [e \in EntryIds |-> IF e \in S THEN w ELSE owner[e]]
          /\ Handle(w, S, "replay") /\ S \in SUBSET EntryIds
      BY <1>3 DEF FetchPending, redis, StreamType
    <2>2. \A v \in Workers \ {w} : S \cap todo[v] = {}
      BY DEF HandInv
    <2> HIDE DEF S
    <2> QED
      BY <2>1, <2>2
  <1> QED
    BY <1>1, <1>2, <1>3

(* So fetching keeps it,                                                   *)
LEMMA FetchHand ==
  ASSUME ~SlowSettlement, NEW Items, NEW PCs, GroupType(Items, PCs), HandInv,
         NEW w \in Workers, FetchNew(w) \/ FetchStale(w) \/ FetchPending(w)
  PROVE  HandInv'
  <1>1. PICK S \in SUBSET EntryIds, how \in Fetches :
          /\ Handle(w, S, how)
          /\ owner' = [e \in EntryIds |-> IF e \in S THEN w ELSE owner[e]]
          /\ \A v \in Workers \ {w} : S \cap todo[v] = {}
    BY FetchTakes
  <1>2. todo' = [todo EXCEPT ![w] = S]
    BY <1>1 DEF Handle
  <1>3. \A v \in Workers : todo[v] \in SUBSET EntryIds
    BY EntriesAssumption DEF GroupType, StreamType, ConsumerType, EntryIds
  <1>4. ASSUME NEW v \in Workers, NEW e \in todo'[v]
        PROVE  owner'[e] = v
    <2>1. CASE v = w
      BY <1>1, <1>2, <1>4, <2>1 DEF GroupType, ConsumerType
    <2>2. CASE v # w
      BY <1>1, <1>2, <1>3, <1>4, <2>2 DEF HandInv, GroupType, ConsumerType
    <2> QED
      BY <2>1, <2>2
  <1> QED
    BY <1>4 DEF HandInv

(* and so does letting go, whether with an ack or without.                 *)
LEMMA ReleaseHand ==
  ASSUME NEW Items, NEW PCs, GroupType(Items, PCs), HandInv, NEW w \in Workers,
         LeaveUnacked(w) \/ Ack(w) \/ Escape(w) \/ Die(w)
  PROVE  /\ HandInv'
         /\ \A e \in EntryIds :
              owner'[e] = owner[e] \/ (e = cur[w] /\ wpc[w] = "ack" /\ e \in todo[w])
  <1> USE DEF GroupType
  <1>1. \/ todo' = [todo EXCEPT ![w] = {}]
        \/ todo' = [todo EXCEPT ![w] = todo[w] \ {cur[w]}]
    BY DEF LeaveUnacked, Ack, Escape, Die, Advance, Handle, Stop
  <1>2. \A e \in EntryIds :
          owner'[e] = owner[e] \/ (e = cur[w] /\ wpc[w] = "ack" /\ e \in todo[w])
    <2>1. CASE Ack(w)
      BY <2>1, CurrentType DEF Ack, StreamType
    <2>2. CASE ~Ack(w)
      BY <2>2 DEF LeaveUnacked, Escape, Die, redis
    <2> QED
      BY <2>1, <2>2
  <1>3. \A v \in Workers : todo[v] \in SUBSET EntryIds /\ todo'[v] \in SUBSET todo[v]
    BY <1>1, EntriesAssumption DEF StreamType, ConsumerType, EntryIds
  <1>4. ASSUME NEW v \in Workers, NEW e \in todo'[v], owner'[e] # owner[e]
        PROVE  FALSE
    <2>1. e = cur[w] /\ e \in todo[w] /\ e \in todo[v]
      BY <1>2, <1>3, <1>4
    <2>2. v = w
      BY <2>1 DEF HandInv
    <2> QED
      BY <1>1, <1>4, <2>1, <2>2 DEF ConsumerType
  <1> QED
    BY <1>2, <1>3, <1>4 DEF HandInv

-----------------------------------------------------------------------------
(***************************************************************************)
(* What the group's operations are to Delivery, on which both modules that *)
(* extend ConsumerGroup build.  The pending list may give an entry to      *)
(* another consumer; what Delivery sees of it is only whether the entry is *)
(* open.                                                                   *)
(***************************************************************************)

(* A fetch gives out the next entry, or open ones once more.               *)
LEMMA FetchDelivers ==
  ASSUME NEW Items, NEW PCs, GroupType(Items, PCs), NEW w \in Workers,
         FetchNew(w) \/ FetchStale(w) \/ FetchPending(w)
  PROVE  /\ todo[w] = {} /\ stream' = stream
         /\ \/ /\ delivered < Len(stream) /\ delivered' = delivered + 1
               /\ Pending' = Pending \cup {delivered + 1}
               /\ todo' = [todo EXCEPT ![w] = {delivered + 1}]
            \/ /\ delivered' = delivered /\ Pending' = Pending
               /\ \E S \in SUBSET Pending : todo' = [todo EXCEPT ![w] = S]
  <1> USE EntriesAssumption, NoWorkerAssumption DEF GroupType
  <1>1. todo[w] = {} /\ stream' = stream
    BY DEF ConsumerType, FetchNew, FetchStale, FetchPending, redis
  <1>2. CASE FetchNew(w)
    <2>1. delivered + 1 \in EntryIds
      BY <1>2 DEF FetchNew, StreamType, EntryIds
    <2>2. Pending' = Pending \cup {delivered + 1}
      BY <1>2, <2>1 DEF FetchNew, StreamType, Pending
    <2> QED
      BY <1>1, <1>2, <2>2 DEF FetchNew, Handle
  <1>3. CASE FetchStale(w)
    <2>1. PICK S \in SUBSET Stale \ {{}} :
            /\ owner' = [e \in EntryIds |-> IF e \in S THEN w ELSE owner[e]]
            /\ Handle(w, S, "stale")
      BY <1>3 DEF FetchStale
    <2>2. S \in SUBSET Pending
      BY DEF Stale
    <2>3. Pending' = Pending
      BY <2>1, <2>2 DEF Pending
    <2>4. todo' = [todo EXCEPT ![w] = S] /\ delivered' = delivered
      BY <1>3, <2>1 DEF FetchStale, Handle
    <2> QED
      BY <1>1, <2>2, <2>3, <2>4
  <1>4. CASE FetchPending(w)
    <2> DEFINE S == {e \in EntryIds : owner[e] = w}
    <2>1. S \in SUBSET Pending
      BY DEF Pending
    <2>2. todo' = [todo EXCEPT ![w] = S] /\ delivered' = delivered /\ Pending' = Pending
      BY <1>4 DEF FetchPending, Handle, redis, Pending
    <2> QED
      BY <1>1, <2>1, <2>2
  <1> QED
    BY <1>2, <1>3, <1>4

(* An ack closes one entry the worker has in hand; whatever else makes a   *)
(* worker let go closes none.                                              *)
LEMMA ReleaseDelivers ==
  ASSUME NEW Items, NEW PCs, GroupType(Items, PCs), NEW w \in Workers,
         LeaveUnacked(w) \/ Ack(w) \/ Escape(w) \/ Die(w)
  PROVE  /\ stream' = stream /\ delivered' = delivered
         /\ \/ \E e \in todo[w] : /\ Pending' = Pending \ {e}
                                 /\ todo' = [todo EXCEPT ![w] = todo[w] \ {e}]
            \/ /\ Pending' = Pending
               /\ \E S \in SUBSET todo[w] : todo' = [todo EXCEPT ![w] = S]
  <1>1. CASE Ack(w)
    <2>1. cur[w] \in todo[w] /\ cur[w] \in EntryIds
      BY <1>1, CurrentType DEF Ack
    <2>2. Pending' = Pending \ {cur[w]}
      BY <1>1, <2>1 DEF Ack, Pending, GroupType, StreamType
    <2> QED
      BY <1>1, <2>1, <2>2 DEF Ack, Advance, Handle
  <1>2. CASE LeaveUnacked(w) \/ Escape(w) \/ Die(w)
    <2>1. UNCHANGED redis /\ Pending' = Pending
      BY <1>2 DEF LeaveUnacked, Escape, Die, redis, Pending
    <2>2. \/ todo' = [todo EXCEPT ![w] = {}]
          \/ todo' = [todo EXCEPT ![w] = todo[w] \ {cur[w]}]
      BY <1>2 DEF LeaveUnacked, Escape, Die, Advance, Handle, Stop
    <2>3. {} \in SUBSET todo[w] /\ todo[w] \ {cur[w]} \in SUBSET todo[w]
      OBVIOUS
    <2> QED
      BY <2>1, <2>2, <2>3 DEF redis
  <1> QED
    BY <1>1, <1>2
=============================================================================
