---------------------------- MODULE LedgerProofs ----------------------------
(***************************************************************************)
(* Proofs about Ledger, for any users, currencies, remittances, cash-outs, *)
(* sessions, opened rows and bounds.                                       *)
(***************************************************************************)
EXTENDS Ledger, TLAPS

USE NoSessionAssumption, PartiesAssumption, OpenedAssumption, LedgerBoundsAssumption

-----------------------------------------------------------------------------
(***************************************************************************)
(* Type correctness.  That no amount is negative needs that a debit that   *)
(* is about to be committed was covered by what it read, and that needs    *)
(* which transactions come to which statement.                             *)
(***************************************************************************)
KindOf(t) ==
  /\ spc[t] \in {"wallet", "newWallet"} => job[t].kind # "status"
  /\ spc[t] = "early" => job[t].kind = "fail"
  /\ spc[t] \in {"select", "insert"} => Moves(job[t])
  /\ spc[t] = "flush" => job[t].kind \notin {"status", "view"}
  /\ spc[t] \in {"payer", "newPayer", "record"} => job[t].kind = "settle"
  /\ spc[t] = "row" => job[t].kind \notin {"fail", "view"}

Debited(t) == spc[t] \in {"row", "commit"} /\ job[t].kind = "request"

CoverInv == \A t \in Sessions : KindOf(t) /\ (Debited(t) => base[t] > 0)

Types == TypeOK /\ CoverInv

(* A session that is busy has a job.                                       *)
LEMMA BusyJob ==
  ASSUME TypeOK, NEW t \in Sessions, spc[t] # "free"
  PROVE  /\ job[t] \in Jobs
         /\ job[t].kind \in Settling \cup {"request", "complete", "reject", "status", "view"}
         /\ job[t].kind \in Settling => job[t].about \in Remittances
         /\ job[t].kind \in {"request", "complete", "reject"} => job[t].about \in CashOuts
         /\ job[t].kind = "status" => job[t].about \in Remittances \cup CashOuts
         /\ job[t].kind = "view" => job[t].about \in Users
  BY DEF TypeOK, Jobs, Settling

(* One that looks up a wallet has its user, and a row of that user's.      *)
LEMMA BusyRow ==
  ASSUME TypeOK, NEW t \in Sessions, spc[t] # "free", job[t].kind # "status"
  PROVE  User(t) \in Users /\ Row(t) \in Rows /\ Row(t)[1] = User(t)
  <1>1. User(t) \in Users
    BY BusyJob DEF User, Settling
  <1>2. job[t].kind = "complete" => Payout[job[t].about] \in Currencies
    BY BusyJob
  <1> QED
    BY <1>1, <1>2 DEF Row, Rows

(* What it writes are rows of the tables.                                  *)
LEMMA WritesKeys ==
  ASSUME Types, NEW t \in Sessions, NEW k \in Writes(t)
  PROVE  k \in Keys /\ spc[t] \in {"early", "flush", "record", "row"}
  <1>1. spc[t] \in {"early", "flush", "record", "row"}
    BY DEF Writes
  <1>2. KindOf(t) /\ job[t] \in Jobs
    BY <1>1, BusyJob DEF Types, CoverInv
  <1>3. CASE spc[t] \in {"early", "row"}
    BY <1>2, <1>3, BusyJob DEF Types, KindOf, Writes, Keys, Settling
  <1>4. CASE spc[t] = "flush"
    <2>1. Row(t) \in Rows
      BY <1>2, <1>4, BusyRow DEF Types, KindOf
    <2>2. job[t].kind \in Settling => job[t].about \in Remittances
      BY <1>4, BusyJob DEF Types
    <2>3. k \in EntryWrites(t)
      BY <1>4 DEF Writes
    <2> QED
      BY <1>1, <2>1, <2>2, <2>3 DEF EntryWrites, Keys, Entries, Settling
  <1>5. CASE spc[t] = "record"
    <2>1. job[t].about \in Remittances
      BY <1>2, <1>5, BusyJob DEF Types, KindOf, Settling
    <2> QED
      BY <1>1, <1>5, <2>1 DEF Writes, Keys, Entries
  <1> QED
    BY <1>1, <1>3, <1>4, <1>5

(* They are the row it moves, entries of its remittance, or the row it is  *)
(* about; no wallets.                                                      *)
LEMMA WritesWhat ==
  ASSUME Types, NEW t \in Sessions, NEW k \in Writes(t)
  PROVE  \/ k \in Rows /\ k = Row(t) /\ spc[t] = "flush" /\ Moves(job[t])
         \/ k \in Entries /\ job[t].kind \in Settling
         \/ /\ k \in Remittances \cup CashOuts /\ k = job[t].about
            /\ job[t].kind = "fail" \/ spc[t] = "row"
  <1>1. KindOf(t) /\ spc[t] \in {"early", "flush", "record", "row"} /\ job[t] \in Jobs
    BY WritesKeys, BusyJob DEF Types, CoverInv
  <1>2. CASE spc[t] \in {"early", "row"}
    BY <1>1, <1>2, BusyJob DEF Types, KindOf, Writes, Settling
  <1>3. CASE spc[t] = "record"
    BY <1>1, <1>3, BusyJob DEF Types, KindOf, Writes, Settling, Entries
  <1>4. CASE spc[t] = "flush"
    <2>1. k \in EntryWrites(t)
      BY <1>4 DEF Writes
    <2>2. Row(t) \in Rows
      BY <1>1, <1>4, BusyRow DEF Types, KindOf
    <2>3. job[t].kind \in Settling => job[t].about \in Remittances
      BY <1>4, BusyJob DEF Types
    <2>4. job[t].kind \notin {"refund", "fail"} => Moves(job[t])
      BY <1>1, <1>4, BusyJob DEF Types, KindOf, Moves, Settling
    <2> QED
      BY <1>4, <2>1, <2>2, <2>3, <2>4 DEF EntryWrites, Settling, Entries
  <1> QED
    BY <1>1, <1>2, <1>3, <1>4

(* The initial state is well typed.                                        *)
LEMMA InitType == Init => Types
  <1> SUFFICES ASSUME Init PROVE Types
    OBVIOUS
  <1>1. present \subseteq Keys
    BY DEF Init, Keys, Rows
  <1>2. TypeOK
    BY <1>1 DEF Init, TypeOK, SessionPC
  <1>3. CoverInv
    BY DEF Init, CoverInv, KindOf, Debited
  <1> QED
    BY <1>2, <1>3 DEF Types

(* The end of a transaction keeps the types, if the tables do.             *)
LEMMA EndType ==
  ASSUME Types, NEW t \in Sessions, End(t),
         present' \subseteq Keys, amount' \in [Rows -> Nat],
         incoming' \in [Rows -> Nat], outgoing' \in [Rows -> Nat]
  PROVE  Types'
  <1>1. lock' \in [Keys -> Sessions \cup {None}]
    BY DEF End, Types, TypeOK
  <1>2. /\ spc' \in [Sessions -> SessionPC] /\ base' \in [Sessions -> Nat]
        /\ job' \in [Sessions -> Jobs \cup {None}]
        /\ \A s \in Sessions : spc'[s] # "free" => job'[s] \in Jobs
    BY DEF End, Goto, Types, TypeOK, SessionPC
  <1>3. CoverInv'
    <2> SUFFICES ASSUME NEW s \in Sessions
                 PROVE  KindOf(s)' /\ (Debited(s)' => base'[s] > 0)
      BY DEF CoverInv
    <2>1. CASE s = t
      BY <2>1 DEF End, Goto, KindOf, Debited, Types, TypeOK
    <2>2. CASE s # t
      <3>1. spc'[s] = spc[s] /\ job'[s] = job[s] /\ base'[s] = base[s]
        BY <2>2 DEF End, Goto, Types, TypeOK
      <3> QED
        BY <3>1 DEF KindOf, Debited, Moves, Types, CoverInv
    <2> QED
      BY <2>1, <2>2
  <1> QED
    BY <1>1, <1>2, <1>3 DEF Types, TypeOK

(***************************************************************************)
(* The statements of a transaction, short of its end: where it goes, and   *)
(* what it may take.                                                       *)
(***************************************************************************)
WorkStep(t) ==
  \/ FindOwnWallet(t) \/ InsertOwnWallet(t) \/ FindPayerWallet(t) \/ InsertPayerWallet(t)
  \/ SelectRow(t) \/ InsertRow(t) \/ Write(t)

Goes(t, pc) ==
  /\ spc' = [spc EXCEPT ![t] = pc]
  /\ \/ spc[t] = "wallet" /\ pc \in {BeforeInsert(t), AfterWallet(t)}
     \/ spc[t] = "newWallet" /\ pc = AfterWallet(t)
     \/ spc[t] = "select" /\ (pc = "flush" \/ (pc = "insert" /\ lock' = lock))
     \/ spc[t] = "insert" /\ pc = "flush"
     \/ spc[t] = "payer" /\ pc \in {"newPayer", "record"}
     \/ spc[t] = "newPayer" /\ pc = "record"
     \/ spc[t] = "early" /\ pc = "newWallet"
     \/ spc[t] = "flush" /\ pc \in {"flush", AfterEntry(t)} /\ Covered(t)
     \/ spc[t] = "record" /\ pc = "row"
     \/ spc[t] = "row" /\ pc = "commit"

LEMMA WorkGoes ==
  ASSUME Types, NEW t \in Sessions, WorkStep(t)
  PROVE  /\ UNCHANGED <<tables, job>>
         /\ spc[t] \in {"select", "insert"} \/ base' = base
         /\ \E pc \in SessionPC : Goes(t, pc)
  <1>0. {AfterWallet(t), BeforeInsert(t)} \subseteq SessionPC
    BY DEF AfterWallet, BeforeInsert, SessionPC
  <1>1. CASE FindOwnWallet(t)
    BY <1>0, <1>1 DEF FindOwnWallet, FindWallet, Goto, Goes
  <1>2. CASE InsertOwnWallet(t)
    BY <1>0, <1>2 DEF InsertOwnWallet, InsertWallet, Goto, Goes
  <1>3. CASE FindPayerWallet(t) \/ InsertPayerWallet(t)
    BY <1>3 DEF FindPayerWallet, FindWallet, InsertPayerWallet, InsertWallet, Goto, Goes,
         SessionPC
  <1>4. CASE SelectRow(t) \/ InsertRow(t)
    BY <1>4 DEF SelectRow, InsertRow, Goto, Goes, SessionPC
  <1>5. CASE Write(t)
    <2>1. PICK k \in Writes(t) :
            /\ Covered(t) /\ UNCHANGED <<tables, job, base>>
            /\ Goto(t, IF Writes(t) \ {k} \subseteq Held(t) THEN AfterFlush(t) ELSE spc[t])
      BY <1>5 DEF Write
    <2>2. spc[t] \in {"early", "flush", "record", "row"}
      BY <2>1, WritesKeys
    <2>3. CASE spc[t] = "flush"
      <3>1. AfterFlush(t) = AfterEntry(t) /\ AfterEntry(t) \in SessionPC
        BY <2>3 DEF AfterFlush, AfterEntry, SessionPC
      <3> QED
        BY <2>1, <2>3, <3>1 DEF Goto, Goes, SessionPC
    <2>4. CASE spc[t] \in {"early", "record", "row"}
      <3>1. Writes(t) \ {k} = {}
        BY <2>1, <2>4 DEF Writes
      <3>2. spc' = [spc EXCEPT ![t] = AfterFlush(t)]
        BY <2>1, <3>1 DEF Goto
      <3> QED
        BY <2>1, <2>4, <3>2 DEF AfterFlush, Goes, SessionPC
    <2> QED
      BY <2>2, <2>3, <2>4
  <1> QED
    BY <1>1, <1>2, <1>3, <1>4, <1>5 DEF WorkStep

\* What t wants where it is.
Wants(t, k) ==
  \/ spc[t] = "newWallet" /\ k = User(t)
  \/ spc[t] = "newPayer" /\ k = Payer(t)
  \/ spc[t] \in {"select", "insert"} /\ k = Row(t)
  \/ k \in Writes(t)

LEMMA WantsKeys ==
  ASSUME Types, NEW t \in Sessions, NEW k, Wants(t, k)
  PROVE  k \in Keys
  <1>1. KindOf(t)
    BY DEF Types, CoverInv
  <1>2. CASE spc[t] = "newWallet" /\ k = User(t)
    BY <1>1, <1>2, BusyRow DEF KindOf, Types, Keys
  <1>3. CASE spc[t] = "newPayer" /\ k = Payer(t)
    BY <1>1, <1>3, BusyJob DEF KindOf, Types, Keys, Payer, Settling
  <1>4. CASE spc[t] \in {"select", "insert"} /\ k = Row(t)
    BY <1>1, <1>4, BusyRow DEF KindOf, Types, Keys, Moves
  <1>5. CASE k \in Writes(t)
    BY <1>5, WritesKeys
  <1> QED
    BY <1>2, <1>3, <1>4, <1>5 DEF Wants

LEMMA WorkTakes ==
  ASSUME Types, NEW t \in Sessions, WorkStep(t)
  PROVE  \/ lock' = lock
         \/ \E k \in Keys : /\ Wants(t, k)
                            /\ lock[k] \in {None, t}
                            /\ lock' = [lock EXCEPT ![k] = t]
                            /\ k \in Users => k \notin present
  <1>1. CASE FindOwnWallet(t) \/ FindPayerWallet(t)
    BY <1>1 DEF FindOwnWallet, FindPayerWallet, FindWallet
  <1>2. CASE InsertOwnWallet(t)
    BY <1>2, WantsKeys DEF InsertOwnWallet, InsertWallet, Free, Take, Wants
  <1>3. CASE InsertPayerWallet(t)
    BY <1>3, WantsKeys DEF InsertPayerWallet, InsertWallet, Free, Take, Wants
  <1>4. ASSUME SelectRow(t) \/ InsertRow(t)
        PROVE  Row(t) \in Rows /\ Row(t) \in Keys /\ Row(t) \notin Users
    <2>1. spc[t] \in {"select", "insert"} /\ Moves(job[t])
      BY <1>4 DEF SelectRow, InsertRow, Types, CoverInv, KindOf
    <2> QED
      BY <2>1, BusyRow, TablesAssumption DEF Moves, Types, Keys
  <1>5. CASE SelectRow(t)
    BY <1>4, <1>5 DEF SelectRow, Free, Take, Wants
  <1>6. CASE InsertRow(t)
    BY <1>4, <1>6 DEF InsertRow, Written, Take, Wants, Types, TypeOK
  <1>7. CASE Write(t)
    <2>1. PICK k \in Writes(t) : Free(t, k) /\ Take(t, k)
      BY <1>7 DEF Write
    <2>2. k \in Keys
      BY <2>1, WritesKeys
    <2>3. k \notin Users
      BY <2>1, WritesWhat, TablesAssumption
    <2> QED
      BY <2>1, <2>2, <2>3 DEF Free, Take, Wants
  <1> QED
    BY <1>1, <1>2, <1>3, <1>5, <1>6, <1>7 DEF WorkStep

(* Every step keeps the types.                                             *)
LEMMA StepType ==
  ASSUME Types, [Next]_vars
  PROVE  Types'
  <1>1. CASE UNCHANGED vars
    BY <1>1 DEF vars, tables, Types, TypeOK, CoverInv, KindOf, Debited, Moves
  <1>2. ASSUME NEW t \in Sessions, NEW j \in Jobs, Begin(t, j)
        PROVE  Types'
    <2>1. TypeOK'
      BY <1>2 DEF Begin, Goto, tables, Types, TypeOK, SessionPC
    <2>2. ASSUME NEW s \in Sessions
          PROVE  KindOf(s)' /\ (Debited(s)' => base'[s] > 0)
      <3>1. CASE s = t
        <4>1. job'[t] = j /\ spc'[t] = IF j.kind = "status" THEN "row" ELSE "wallet"
          BY <1>2 DEF Begin, Goto, Types, TypeOK
        <4> QED
          BY <3>1, <4>1 DEF KindOf, Debited
      <3>2. CASE s # t
        <4>1. spc'[s] = spc[s] /\ job'[s] = job[s] /\ base'[s] = base[s]
          BY <1>2, <3>2 DEF Begin, Goto, Types, TypeOK
        <4> QED
          BY <4>1 DEF KindOf, Debited, Moves, Types, CoverInv
      <3> QED
        BY <3>1, <3>2
    <2> QED
      BY <2>1, <2>2 DEF Types, CoverInv
  <1>3. ASSUME NEW t \in Sessions, WorkStep(t)
        PROVE  Types'
    <2>1. lock' \in [Keys -> Sessions \cup {None}]
      BY <1>3, WorkTakes DEF Types, TypeOK
    <2>2. PICK pc \in SessionPC : Goes(t, pc)
      BY <1>3, WorkGoes
    <2>3. UNCHANGED <<tables, job>>
      BY <1>3, WorkGoes
    <2>4. CASE spc[t] \notin {"select", "insert"}
      <3>1. base' = base
        BY <1>3, <2>4, WorkGoes
      <3>2. TypeOK'
        <4>1. spc' \in [Sessions -> SessionPC]
          BY <2>2 DEF Goes, Types, TypeOK
        <4>2. \A s \in Sessions : spc'[s] # "free" => job[s] \in Jobs
          BY <2>2 DEF Goes, Types, TypeOK
        <4> QED
          BY <2>1, <2>3, <3>1, <4>1, <4>2 DEF tables, Types, TypeOK
      <3>3. ASSUME NEW s \in Sessions
            PROVE  KindOf(s)' /\ (Debited(s)' => base'[s] > 0)
        <4>1. CASE s = t
          <5>1. spc'[t] = pc /\ KindOf(t) /\ job[t] \in Jobs /\ spc[t] # "free"
            BY <2>2, BusyJob DEF Goes, Types, TypeOK, CoverInv
          <5>2. KindOf(t)'
            BY <2>2, <2>3, <2>4, <5>1, BusyJob DEF Goes, KindOf, Moves, BeforeInsert,
                 AfterWallet, AfterFlush, AfterEntry, Types, Settling
          <5>3. Debited(t)' => base[t] > 0
            BY <2>2, <2>3, <2>4, <5>1, BusyJob DEF Goes, KindOf, Moves, BeforeInsert,
                 AfterWallet, AfterFlush, AfterEntry, Types, CoverInv, Debited, Covered
          <5> QED
            BY <3>1, <4>1, <5>2, <5>3
        <4>2. CASE s # t
          <5>1. spc'[s] = spc[s]
            BY <2>2, <4>2 DEF Goes, Types, TypeOK
          <5> QED
            BY <2>3, <3>1, <5>1 DEF KindOf, Debited, Moves, Types, CoverInv
        <4> QED
          BY <4>1, <4>2
      <3> QED
        BY <3>2, <3>3 DEF Types, CoverInv
    <2>5. CASE spc[t] \in {"select", "insert"}
      <3>1. SelectRow(t) \/ InsertRow(t)
        BY <1>3, <2>5, WritesKeys DEF WorkStep, FindOwnWallet, FindPayerWallet, FindWallet,
             InsertOwnWallet, InsertPayerWallet, InsertWallet, Write
      <3>2. Moves(job[t]) /\ Row(t) \in Rows
        BY <2>5, BusyRow DEF Types, CoverInv, KindOf, Moves
      <3>3. base' \in [Sessions -> Nat] /\ \A s \in Sessions \ {t} : base'[s] = base[s]
        BY <3>1, <3>2 DEF SelectRow, InsertRow, Types, TypeOK
      <3>4. TypeOK'
        <4>1. spc' \in [Sessions -> SessionPC]
          BY <2>2 DEF Goes, Types, TypeOK
        <4>2. \A s \in Sessions : spc'[s] # "free" => job[s] \in Jobs
          BY <2>2 DEF Goes, Types, TypeOK
        <4> QED
          BY <2>1, <2>3, <3>3, <4>1, <4>2 DEF tables, Types, TypeOK
      <3>5. ASSUME NEW s \in Sessions
            PROVE  KindOf(s)' /\ (Debited(s)' => base'[s] > 0)
        <4>1. CASE s = t
          BY <2>2, <2>3, <2>5, <3>2, <4>1 DEF Goes, KindOf, Debited, Moves, Types, TypeOK
        <4>2. CASE s # t
          <5>1. spc'[s] = spc[s]
            BY <2>2, <4>2 DEF Goes, Types, TypeOK
          <5> QED
            BY <2>3, <3>3, <4>2, <5>1 DEF KindOf, Debited, Moves, Types, CoverInv
        <4> QED
          BY <4>1, <4>2
      <3> QED
        BY <3>4, <3>5 DEF Types, CoverInv
    <2> QED
      BY <2>4, <2>5
  <1>4. ASSUME NEW t \in Sessions,
               Violate(t) \/ Refuse(t) \/ Rollback(t) \/ DeadlockVictim(t)
        PROVE  Types'
    BY <1>4, EndType DEF Violate, Refuse, Rollback, DeadlockVictim, tables, Types, TypeOK
  <1>5. ASSUME NEW t \in Sessions, Commit(t)
        PROVE  Types'
    <2>1. Moves(job[t]) => Row(t) \in Rows
      BY <1>5, BusyRow DEF Commit, Types, Moves
    <2>2. Moves(job[t]) => NewAmount(t) \in Nat
      BY <1>5 DEF Commit, Types, CoverInv, Debited, NewAmount, TypeOK
    <2>3. amount' \in [Rows -> Nat]
      BY <1>5, <2>1, <2>2 DEF Commit, Types, TypeOK
    <2>4. incoming' \in [Rows -> Nat] /\ outgoing' \in [Rows -> Nat]
      BY <1>5, <2>1 DEF Commit, Count, Types, TypeOK
    <2>5. present' \subseteq Keys
      BY <1>5 DEF Commit, Held, Types, TypeOK
    <2> QED
      BY <1>5, <2>3, <2>4, <2>5, EndType DEF Commit
  <1> QED
    BY <1>1, <1>2, <1>3, <1>4, <1>5 DEF Next, SessionStep, WorkStep

(***************************************************************************)
(* The type invariant holds in every reachable state: no balance is ever   *)
(* negative, not even one whose first rows are inserted in a race.         *)
(***************************************************************************)
THEOREM LedgerTypeCorrect == Spec => []TypeOK
  <1>1. Types /\ [Next]_vars => Types'
    BY StepType
  <1>2. Types => TypeOK
    BY DEF Types
  <1> QED
    BY <1>1, <1>2, InitType, PTL DEF Spec

-----------------------------------------------------------------------------
(***************************************************************************)
(* A transaction that moves a balance row that was there at the start has  *)
(* the row locked from the moment it reads the amount, and what it read is *)
(* what is committed.  It never gets to the insert, behind which the row   *)
(* would be read without a lock.                                           *)
(***************************************************************************)
Writing(t) ==
  /\ spc[t] \in {"flush", "payer", "newPayer", "record", "row", "commit"}
  /\ Moves(job[t])

Reads(t) ==
  Row(t) \in Opened =>
    /\ spc[t] # "insert"
    /\ Writing(t) => lock[Row(t)] = t /\ base[t] = amount[Row(t)]

OpenInv ==
  /\ Opened \subseteq present
  /\ \A t \in Sessions : Reads(t)
  /\ BalanceReconstructible

(* It holds at the start.                                                  *)
LEMMA InitOpen == Init => OpenInv
  BY DEF Init, OpenInv, Reads, Writing, BalanceReconstructible, Reconstructible, Rows

(* A session that does not step keeps its part, while its row and its lock *)
(* are left alone.                                                         *)
LEMMA OthersOpen ==
  ASSUME Types, OpenInv, NEW s \in Sessions,
         spc'[s] = spc[s], job'[s] = job[s], base'[s] = base[s],
         \A k \in Keys : lock[k] = s => lock'[k] = s,
         Writing(s) /\ Row(s) \in Opened => amount'[Row(s)] = amount[Row(s)]
  PROVE  Reads(s)'
  <1>1. Row(s)' = Row(s) /\ (Writing(s)' <=> Writing(s))
    BY DEF Row, User, Writing, Moves
  <1>2. Row(s) \in Opened => Row(s) \in Keys
    BY DEF Keys
  <1> QED
    BY <1>1, <1>2 DEF Reads, OpenInv

(* A transaction that ends without a write leaves the others what they     *)
(* have.                                                                   *)
LEMMA EndOpen ==
  ASSUME Types, OpenInv, NEW t \in Sessions, End(t), UNCHANGED tables
  PROVE  OpenInv'
  <1>1. ASSUME NEW s \in Sessions
        PROVE  Reads(s)'
    <2>1. CASE s = t
      BY <2>1 DEF End, Goto, Reads, Writing, Types, TypeOK
    <2>2. CASE s # t
      BY <2>2, OthersOpen DEF End, Goto, tables, Types, TypeOK
    <2> QED
      BY <2>1, <2>2
  <1>2. Opened \subseteq present' /\ BalanceReconstructible'
    BY DEF OpenInv, tables, BalanceReconstructible, Reconstructible
  <1> QED
    BY <1>1, <1>2 DEF OpenInv

(* Every step keeps the invariant.                                         *)
LEMMA StepOpen ==
  ASSUME Types, OpenInv, [Next]_vars
  PROVE  OpenInv'
  <1>1. CASE UNCHANGED vars
    BY <1>1 DEF vars, tables, OpenInv, Reads, Writing, Moves, Row, User,
         BalanceReconstructible, Reconstructible
  <1>2. ASSUME NEW t \in Sessions, NEW j \in Jobs, Begin(t, j)
        PROVE  OpenInv'
    <2>1. ASSUME NEW s \in Sessions
          PROVE  Reads(s)'
      <3>1. CASE s = t
        <4>1. job'[t] = j /\ spc'[t] = IF j.kind = "status" THEN "row" ELSE "wallet"
          BY <1>2 DEF Begin, Goto, Types, TypeOK
        <4> QED
          BY <3>1, <4>1 DEF Reads, Writing, Moves
      <3>2. CASE s # t
        BY <1>2, <3>2, OthersOpen DEF Begin, Goto, tables, Types, TypeOK
      <3> QED
        BY <3>1, <3>2
    <2> QED
      BY <1>2, <2>1 DEF Begin, tables, OpenInv, BalanceReconstructible, Reconstructible
  <1>3. ASSUME NEW t \in Sessions, WorkStep(t)
        PROVE  OpenInv'
    <2>1. UNCHANGED <<tables, job>>
      BY <1>3, WorkGoes
    <2>2. PICK pc \in SessionPC : Goes(t, pc)
      BY <1>3, WorkGoes
    <2>3. \A s \in Sessions : \A k \in Keys : lock[k] = s => lock'[k] = s
      BY <1>3, WorkTakes DEF Types, TypeOK
    <2>4. \A s \in Sessions \ {t} : base'[s] = base[s]
      BY <1>3, WorkGoes DEF WorkStep, FindOwnWallet, FindPayerWallet, FindWallet,
           InsertOwnWallet, InsertPayerWallet, InsertWallet, SelectRow, InsertRow, Write,
           Types, TypeOK
    <2>5. ASSUME NEW s \in Sessions, s # t
          PROVE  Reads(s)'
      BY <2>1, <2>2, <2>3, <2>4, <2>5, OthersOpen DEF Goes, tables, Types, TypeOK
    <2>6. Row(t)' = Row(t)
      BY <2>1 DEF Row, User
    <2>7. ASSUME Row(t) \in Opened
          PROVE  spc'[t] # "insert"
                 /\ (Writing(t)' => lock'[Row(t)] = t /\ base'[t] = amount[Row(t)])
      <3>0. Row(t) \in Keys /\ Row(t) \in present /\ spc[t] # "insert"
        BY <2>7 DEF Keys, OpenInv, Reads
      <3>1. CASE SelectRow(t)
        BY <3>0, <3>1 DEF SelectRow, Take, Goto, Types, TypeOK
      <3>2. CASE ~SelectRow(t)
        <4>1. spc[t] # "select"
          BY <1>3, <3>2, WritesKeys DEF WorkStep, FindOwnWallet, FindPayerWallet, FindWallet,
             InsertOwnWallet, InsertPayerWallet, InsertWallet, Write, InsertRow
        <4>2. base' = base
          BY <1>3, <3>0, <4>1, WorkGoes
        <4>3. spc'[t] = pc
          BY <2>2 DEF Goes, Types, TypeOK
        <4>4. spc'[t] # "insert"
          BY <2>2, <3>0, <4>1, <4>3 DEF Goes, BeforeInsert, AfterWallet, AfterFlush, AfterEntry
        <4>5. Writing(t)' => Writing(t)
          <5>1. Moves(job[t]) => AfterWallet(t) = "select" /\ BeforeInsert(t) = "newWallet"
            BY DEF AfterWallet, BeforeInsert, Moves
          <5>2. spc[t] = "early" => AfterFlush(t) = "newWallet"
            BY DEF AfterFlush
          <5>3. Writing(t)' => Moves(job[t])
            BY <2>1 DEF Writing, Moves
          <5> QED
            BY <2>2, <3>0, <4>1, <4>3, <5>1, <5>2, <5>3 DEF Goes, Writing
        <4> QED
          BY <2>3, <2>7, <3>0, <4>2, <4>4, <4>5 DEF OpenInv, Reads
      <3> QED
        BY <3>1, <3>2
    <2>8. Reads(t)'
      BY <2>1, <2>6, <2>7 DEF Reads, tables
    <2> QED
      BY <2>1, <2>5, <2>8 DEF OpenInv, tables, BalanceReconstructible, Reconstructible
  <1>4. ASSUME NEW t \in Sessions,
               Violate(t) \/ Refuse(t) \/ Rollback(t) \/ DeadlockVictim(t)
        PROVE  OpenInv'
    BY <1>4, EndOpen DEF Violate, Refuse, Rollback, DeadlockVictim
  <1>5. ASSUME NEW t \in Sessions, Commit(t)
        PROVE  OpenInv'
    <2>1. Moves(job[t]) => Row(t) \in Rows
      BY <1>5, BusyRow DEF Commit, Types, Moves
    <2>2. \A r \in Rows : r # Row(t) \/ ~Moves(job[t]) =>
            amount'[r] = amount[r] /\ incoming'[r] = incoming[r] /\ outgoing'[r] = outgoing[r]
      BY <1>5, <2>1 DEF Commit, Count, Types, TypeOK
    <2>3. Opened \subseteq present'
      BY <1>5 DEF Commit, OpenInv
    <2>4. ASSUME Row(t) \in Opened, Moves(job[t])
          PROVE  amount'[Row(t)] = Funds + incoming'[Row(t)] - outgoing'[Row(t)]
      <3>1. base[t] = amount[Row(t)]
        BY <1>5, <2>4 DEF Commit, OpenInv, Reads, Writing
      <3>2. amount[Row(t)] = Funds + incoming[Row(t)] - outgoing[Row(t)]
        BY <2>4 DEF OpenInv, BalanceReconstructible, Reconstructible
      <3>3. CASE job[t].kind = "request"
        BY <1>5, <2>1, <2>4, <3>1, <3>2, <3>3 DEF Commit, Count, NewAmount, Types, TypeOK
      <3>4. CASE job[t].kind # "request"
        BY <1>5, <2>1, <2>4, <3>1, <3>2, <3>4 DEF Commit, Count, NewAmount, Types, TypeOK
      <3> QED
        BY <3>3, <3>4
    <2>5. BalanceReconstructible'
      <3> SUFFICES ASSUME NEW r \in Opened
                   PROVE  amount'[r] = Funds + incoming'[r] - outgoing'[r]
        BY DEF BalanceReconstructible, Reconstructible
      <3>1. CASE r = Row(t) /\ Moves(job[t])
        BY <2>4, <3>1
      <3>2. CASE r # Row(t) \/ ~Moves(job[t])
        BY <2>2, <3>2 DEF OpenInv, BalanceReconstructible, Reconstructible
      <3> QED
        BY <3>1, <3>2
    <2>6. ASSUME NEW s \in Sessions
          PROVE  Reads(s)'
      <3>1. CASE s = t
        BY <1>5, <3>1 DEF Commit, End, Goto, Reads, Writing, Types, TypeOK
      <3>2. CASE s # t
        <4>1. spc'[s] = spc[s] /\ job'[s] = job[s] /\ base'[s] = base[s]
              /\ \A k \in Keys : lock[k] = s => lock'[k] = s
          BY <1>5, <3>2 DEF Commit, End, Goto, Types, TypeOK
        <4>2. ASSUME Writing(s), Row(s) \in Opened
              PROVE  amount'[Row(s)] = amount[Row(s)]
          <5>1. lock[Row(s)] = s
            BY <4>2 DEF OpenInv, Reads
          <5>2. Row(s) # Row(t) \/ ~Moves(job[t])
            BY <1>5, <3>2, <4>2, <5>1 DEF Commit, OpenInv, Reads, Writing
          <5> QED
            BY <2>2, <4>2, <5>2
        <4> QED
          BY <4>1, <4>2, OthersOpen
      <3> QED
        BY <3>1, <3>2
    <2> QED
      BY <2>3, <2>5, <2>6 DEF OpenInv
  <1> QED
    BY <1>1, <1>2, <1>3, <1>4, <1>5 DEF Next, SessionStep, WorkStep

(***************************************************************************)
(* A balance that has been there from the start is what its entries add up *)
(* to, for any number of concurrent transactions.                          *)
(***************************************************************************)
THEOREM BalanceReconstructibleHolds == Spec => []BalanceReconstructible
  <1>1. Types /\ OpenInv /\ [Next]_vars => Types' /\ OpenInv'
    BY StepType, StepOpen
  <1>2. Init => Types /\ OpenInv
    BY InitType, InitOpen
  <1>3. OpenInv => BalanceReconstructible
    BY DEF OpenInv
  <1> QED
    BY <1>1, <1>2, <1>3, PTL DEF Spec

(***************************************************************************)
(* The transactions implement the accounts of Balances.                    *)
(***************************************************************************)
Book == <<OfOpened(amount), OfOpened(incoming), OfOpened(outgoing)>>

(* A commit is one movement of an account, or none.                        *)
LEMMA CommitMoves ==
  ASSUME Types, OpenInv, NEW t \in Sessions, Commit(t)
  PROVE  B!Next \/ UNCHANGED Book
  <1>1. Moves(job[t]) => Row(t) \in Rows
    BY BusyRow DEF Commit, Types, Moves
  <1>2. CASE Row(t) \notin Opened \/ ~Moves(job[t])
    <2>1. \A r \in Opened :
            /\ amount'[r] = amount[r]
            /\ incoming'[r] = incoming[r] /\ outgoing'[r] = outgoing[r]
      BY <1>1, <1>2 DEF Commit, Count, Types, TypeOK
    <2> QED
      BY <2>1 DEF Book, OfOpened
  <1>3. ASSUME Row(t) \in Opened, Moves(job[t])
        PROVE  base[t] = amount[Row(t)]
    BY <1>3 DEF Commit, OpenInv, Reads, Writing
  <1>4. CASE Row(t) \in Opened /\ Moves(job[t]) /\ job[t].kind # "request"
    <2>1. /\ amount' = [amount EXCEPT ![Row(t)] = @ + 1]
          /\ incoming' = [incoming EXCEPT ![Row(t)] = @ + 1]
          /\ outgoing' = outgoing
      BY <1>1, <1>3, <1>4 DEF Commit, Count, NewAmount, Types, TypeOK
    <2>2. B!Credit(Row(t))
      BY <1>1, <1>4, <2>1 DEF B!Credit, OfOpened, Types, TypeOK
    <2> QED
      BY <1>4, <2>2 DEF B!Next
  <1>5. CASE Row(t) \in Opened /\ Moves(job[t]) /\ job[t].kind = "request"
    <2>1. /\ amount' = [amount EXCEPT ![Row(t)] = @ - 1]
          /\ outgoing' = [outgoing EXCEPT ![Row(t)] = @ + 1]
          /\ incoming' = incoming
      BY <1>1, <1>3, <1>5 DEF Commit, Count, NewAmount, Types, TypeOK
    <2>2. amount[Row(t)] > 0
      BY <1>3, <1>5 DEF Types, CoverInv, Debited, Commit
    <2>3. B!Debit(Row(t))
      BY <1>1, <1>5, <2>1, <2>2 DEF B!Debit, OfOpened, Types, TypeOK
    <2> QED
      BY <1>5, <2>3 DEF B!Next
  <1> QED
    BY <1>2, <1>4, <1>5

(* Every other step leaves the accounts as they are.                       *)
LEMMA BalancesStep ==
  ASSUME Types, OpenInv, [Next]_vars
  PROVE  B!Next \/ UNCHANGED Book
  <1>1. ASSUME UNCHANGED tables
        PROVE  UNCHANGED Book
    BY <1>1 DEF tables, Book, OfOpened
  <1>2. UNCHANGED tables \/ \E t \in Sessions : Commit(t)
    <2>1. ASSUME NEW t \in Sessions, WorkStep(t)
          PROVE  UNCHANGED tables
      BY <2>1, WorkGoes
    <2> QED
      BY <2>1 DEF Next, SessionStep, WorkStep, Begin, Violate, Refuse, Rollback,
           DeadlockVictim, vars
  <1> QED
    BY <1>1, <1>2, CommitMoves

(***************************************************************************)
(* Callers may take a movement of a balance row that exists from the start *)
(* for one step: what the amount was read as is still what is committed    *)
(* when the new amount is, and a debit takes what is there.                *)
(***************************************************************************)
THEOREM ImplementsBalancesHolds == Spec => ImplementsBalances
  <1>1. Types /\ OpenInv /\ [Next]_vars => Types' /\ OpenInv'
    BY StepType, StepOpen
  <1>2. Init => Types /\ OpenInv
    BY InitType, InitOpen
  <1>3. Init => B!Init
    BY DEF Init, B!Init, OfOpened
  <1>4. Types /\ OpenInv /\ [Next]_vars => [B!Next]_(B!vars)
    BY BalancesStep DEF Book, B!vars
  <1> QED
    BY <1>1, <1>2, <1>3, <1>4, PTL DEF Spec, ImplementsBalances, B!Spec

-----------------------------------------------------------------------------
(***************************************************************************)
(* Which locks a transaction has.  A wallet it has inserted is its own     *)
(* user's, but for a settlement's; a balance row it has locked is the one  *)
(* it moves; only settlements, refunds and failures have entries that      *)
(* others could wait for; and the row it is about comes last, but for a    *)
(* failure's.  From the lookup of the wallet on, that wallet is committed  *)
(* or its own, so that a row is never there without its wallet.            *)
(***************************************************************************)
Past(s) ==
  spc[s] \in {"select", "insert", "flush", "payer", "newPayer", "record", "row", "commit"}

WalletLocks(s) ==
  \A u \in Users : lock[u] = s =>
    /\ u \notin present /\ Past(s)
    /\ job[s].kind # "status"
    /\ u # User(s) => job[s].kind = "settle"

RowLocks(s) == \A r \in Rows : lock[r] = s => Row(s) = r /\ Writing(s)

EntryLocks(s) ==
  \A e \in Entries : lock[e] = s => spc[s] # "free" /\ job[s].kind \in Settling

SubjectLocks(s) ==
  \A x \in Remittances \cup CashOuts : lock[x] = s =>
    /\ x = job[s].about
    /\ spc[s] = "commit" \/ (spc[s] # "free" /\ job[s].kind = "fail")

HasWallet(s) ==
  Past(s) /\ job[s].kind # "status" => User(s) \in present \/ lock[User(s)] = s

Locks(s) ==
  WalletLocks(s) /\ RowLocks(s) /\ EntryLocks(s) /\ SubjectLocks(s) /\ HasWallet(s)

HoldInv ==
  /\ \A r \in Rows : r \in present => r[1] \in present
  /\ \A s \in Sessions : Locks(s)

(* It holds at the start.                                                  *)
LEMMA InitHold == Init => HoldInv
  <1> SUFFICES ASSUME Init PROVE HoldInv
    OBVIOUS
  <1>1. \A r \in Rows : r \in present => r[1] \in present
    BY TablesAssumption DEF Init, Rows
  <1>2. ASSUME NEW s \in Sessions
        PROVE  Locks(s)
    <2>1. \A k \in Keys : lock[k] # s
      BY DEF Init
    <2>2. ~Past(s)
      BY DEF Init, Past
    <2> QED
      BY <2>1, <2>2 DEF Locks, WalletLocks, RowLocks, EntryLocks, SubjectLocks, HasWallet,
           Keys
  <1> QED
    BY <1>1, <1>2 DEF HoldInv

(***************************************************************************)
(* It says why nobody but settlements is in a circle: whoever else has     *)
(* what another waits for, and waits, waits for a row of cash_outs, and    *)
(* who has that has nothing left to wait for.                              *)
(***************************************************************************)
LEMMA HoldWait ==
  ASSUME Types, HoldInv, NEW t \in Sessions, NEW v \in Sessions, NEW w \in Sessions,
         NEW z \in Sessions, BlockedBy(t, v), BlockedBy(v, w), BlockedBy(z, t)
  PROVE  job[t].kind \in Settling
  <1> SUFFICES ASSUME job[t].kind \notin Settling
               PROVE  FALSE
    OBVIOUS
  <1>1. PICK k \in Keys : lock[k] = t
    <2>1. PICK k : Wants(z, k) /\ lock[k] = t
      BY DEF BlockedBy, Wants
    <2> QED
      BY <2>1, WantsKeys
  <1>2. PICK x \in Keys : Wants(t, x) /\ lock[x] = v
    <2>1. PICK x : Wants(t, x) /\ lock[x] = v
      BY DEF BlockedBy, Wants
    <2> QED
      BY <2>1, WantsKeys
  <1>3. Locks(t) /\ Locks(v) /\ t # v
    BY DEF HoldInv, BlockedBy
  <1>4. KindOf(t) /\ KindOf(v)
    BY DEF Types, CoverInv
  <1>5. spc[v] # "commit"
    BY WritesKeys DEF BlockedBy
  <1>6. spc[t] # "free" /\ spc[t] # "commit" /\ spc[t] \notin {"newPayer", "record", "early"}
    BY <1>2, <1>4, WritesKeys DEF Wants, KindOf, Settling
  <1>7. k \in Users \cup Rows
    BY <1>1, <1>3, <1>6 DEF Locks, EntryLocks, SubjectLocks, Keys, Settling
  <1>8. Past(t) /\ job[t].kind # "status"
    BY <1>1, <1>3, <1>7 DEF Locks, WalletLocks, RowLocks, Writing, Past, Moves
  <1>9. Row(t) \in Rows /\ Row(t)[1] = User(t) /\ User(t) \in Users
    BY <1>6, <1>8, BusyRow DEF Types
  <1>10. CASE x = Row(t)
    <2>1. k = User(t) /\ k \notin present
      BY <1>1, <1>2, <1>3, <1>7, <1>10 DEF Locks, WalletLocks, RowLocks, Settling
    <2>2. Row(t) \notin present
      BY <1>9, <2>1 DEF HoldInv
    <2>3. Row(v) = Row(t) /\ Writing(v)
      BY <1>2, <1>3, <1>9, <1>10 DEF Locks, RowLocks
    <2>4. User(v) = User(t) /\ Past(v) /\ job[v].kind # "status"
      BY <2>3 DEF Row, Writing, Past, Moves
    <2>5. lock[k] = v
      BY <1>3, <2>1, <2>4 DEF Locks, HasWallet
    <2> QED
      BY <1>1, <1>3, <2>5
  <1>11. CASE x # Row(t)
    <2>1. x \in Writes(t)
      BY <1>2, <1>6, <1>8, <1>11 DEF Wants, Past
    <2>2. x \in Remittances \cup CashOuts /\ x = job[t].about /\ spc[t] = "row"
      BY <1>11, <2>1, WritesWhat DEF Settling
    <2>3. x \in CashOuts
      BY <1>6, <1>8, <2>2, <1>4, BusyJob DEF Types, KindOf
    <2>4. job[v].kind = "fail" /\ spc[v] # "free" /\ job[v].about = x
      BY <1>2, <1>3, <1>5, <2>2 DEF Locks, SubjectLocks
    <2>5. job[v].about \in Remittances
      BY <2>4, BusyJob DEF Types, Settling
    <2> QED
      BY <2>3, <2>4, <2>5, TablesAssumption
  <1> QED
    BY <1>10, <1>11

LEMMA HoldCircles ==
  ASSUME Types, HoldInv
  PROVE  OnlySettlementsDeadlock
  <1> SUFFICES ASSUME NEW S \in SUBSET Sessions, Circle(S), NEW t \in S
               PROVE  job[t].kind \in Settling
    BY DEF OnlySettlementsDeadlock
  <1>1. PICK next \in [S -> S] :
          /\ \A x \in S : BlockedBy(x, next[x])
          /\ \A y \in S : \E x \in S : next[x] = y
    BY DEF Circle
  <1>2. PICK z \in S : next[z] = t
    BY <1>1
  <1>3. next[t] \in S /\ next[next[t]] \in S
    BY <1>1
  <1>4. BlockedBy(t, next[t]) /\ BlockedBy(next[t], next[next[t]]) /\ BlockedBy(z, t)
    BY <1>1, <1>2, <1>3
  <1> QED
    BY <1>2, <1>3, <1>4, HoldWait

(* A session that does not step, and loses no lock and gains none, keeps   *)
(* its part.                                                               *)
LEMMA OthersHold ==
  ASSUME Types, HoldInv, NEW s \in Sessions, spc'[s] = spc[s], job'[s] = job[s],
         \A k \in Keys : lock'[k] = s <=> lock[k] = s,
         present \subseteq present',
         \A k \in Users : k \in present' /\ lock[k] = s => k \in present
  PROVE  Locks(s)'
  <1>1. Locks(s)
    BY DEF HoldInv
  <1>2. User(s)' = User(s) /\ Row(s)' = Row(s) /\ (Writing(s)' <=> Writing(s))
        /\ (Past(s)' <=> Past(s))
    BY DEF User, Row, Writing, Moves, Past
  <1>3. WalletLocks(s)' /\ RowLocks(s)'
    BY <1>1, <1>2 DEF Locks, WalletLocks, RowLocks, Keys
  <1>4. EntryLocks(s)' /\ SubjectLocks(s)'
    BY <1>1 DEF Locks, EntryLocks, SubjectLocks, Keys
  <1>5. HasWallet(s)'
    <2>1. Past(s) /\ job[s].kind # "status" => User(s) \in Keys
      BY BusyRow DEF Types, Past, Keys
    <2> QED
      BY <1>1, <1>2, <2>1 DEF Locks, HasWallet
  <1> QED
    BY <1>3, <1>4, <1>5 DEF Locks

(* One that is free has nothing.                                           *)
LEMMA FreeHolds ==
  ASSUME HoldInv, NEW s \in Sessions, spc[s] = "free"
  PROVE  \A k \in Keys : lock[k] # s
  <1>1. Locks(s)
    BY DEF HoldInv
  <1> QED
    BY <1>1 DEF Locks, WalletLocks, RowLocks, EntryLocks, SubjectLocks, Past, Writing, Keys

(* The end of a transaction, with or without its rows.                     *)
LEMMA EndHold ==
  ASSUME Types, HoldInv, NEW t \in Sessions, End(t),
         present' = present \/ (present' = present \cup Held(t) /\ spc[t] = "commit")
  PROVE  HoldInv'
  <1>1. \A r \in Rows : r \in present' => r[1] \in present'
    <2> SUFFICES ASSUME NEW r \in Rows, r \in present', r \notin present
                 PROVE  r[1] \in present'
      BY DEF HoldInv
    <2>1. lock[r] = t /\ spc[t] = "commit" /\ present' = present \cup Held(t)
      BY DEF Held
    <2>2. Row(t) = r /\ Writing(t)
      BY <2>1 DEF HoldInv, Locks, RowLocks
    <2>3. job[t].kind # "status" /\ Past(t)
      BY <2>2 DEF Writing, Moves, Past
    <2>4. User(t) \in Users /\ r[1] = User(t)
      BY <2>1, <2>2, <2>3, BusyRow DEF Types
    <2>5. User(t) \in present \/ lock[User(t)] = t
      BY <2>3 DEF HoldInv, Locks, HasWallet
    <2> QED
      BY <2>1, <2>4, <2>5 DEF Held, Keys
  <1>2. ASSUME NEW s \in Sessions
        PROVE  Locks(s)'
    <2>1. CASE s = t
      <3>1. \A k \in Keys : lock'[k] # t
        BY DEF End
      <3>2. ~Past(t)'
        BY DEF End, Goto, Past, Types, TypeOK
      <3> QED
        BY <2>1, <3>1, <3>2 DEF Locks, WalletLocks, RowLocks, EntryLocks, SubjectLocks,
             HasWallet, Keys
    <2>2. CASE s # t
      <3>1. /\ spc'[s] = spc[s] /\ job'[s] = job[s]
            /\ \A k \in Keys : lock'[k] = s <=> lock[k] = s
        BY <2>2 DEF End, Goto, Types, TypeOK
      <3>2. /\ present \subseteq present'
            /\ \A k \in Users : k \in present' /\ lock[k] = s => k \in present
        BY <2>2 DEF Held
      <3> QED
        BY <3>1, <3>2, OthersHold
    <2> QED
      BY <2>1, <2>2
  <1> QED
    BY <1>1, <1>2 DEF HoldInv

(* A statement of a transaction keeps its own part.                        *)
LEMMA WorkHold ==
  ASSUME Types, HoldInv, NEW t \in Sessions, WorkStep(t)
  PROVE  Locks(t)'
  <1>1. Locks(t) /\ KindOf(t)
    BY DEF HoldInv, Types, CoverInv
  <1>2. UNCHANGED <<tables, job>>
    BY WorkGoes
  <1>3. PICK pc \in SessionPC : Goes(t, pc)
    BY WorkGoes
  <1>4. spc'[t] = pc /\ spc[t] # "free" /\ spc[t] # "commit"
    BY <1>3 DEF Goes, Types, TypeOK
  <1>5. User(t)' = User(t) /\ Row(t)' = Row(t)
    BY <1>2 DEF User, Row
  <1>6. /\ AfterWallet(t) \in {"select", "flush", "commit"}
        /\ BeforeInsert(t) \in {"early", "newWallet"}
        /\ AfterEntry(t) \in {"payer", "commit", "row"}
    BY DEF AfterWallet, BeforeInsert, AfterEntry
  <1>7. (Past(t) => Past(t)') /\ (Writing(t) => Writing(t)')
    BY <1>2, <1>3, <1>4, <1>6 DEF Goes, Past, Writing, Moves
  <1>8. ASSUME NEW k \in Keys, lock'[k] = t, lock[k] # t
        PROVE  Wants(t, k) /\ (k \in Users => k \notin present)
    BY <1>8, WorkTakes DEF Types, TypeOK
  <1>9. ASSUME NEW k \in Users, lock'[k] = t, lock[k] # t
        PROVE  /\ k \notin present
               /\ Past(t)' /\ job[t].kind # "status"
               /\ k # User(t) => job[t].kind = "settle"
    <2>1. Wants(t, k) /\ k \notin present
      BY <1>8, <1>9 DEF Keys
    <2>2. k \notin Writes(t)
      BY WritesWhat, TablesAssumption
    <2>3. spc[t] \in {"select", "insert"} => k # Row(t)
      BY <1>1, BusyRow, TablesAssumption DEF Types, KindOf, Moves
    <2>4. (spc[t] = "newWallet" /\ k = User(t)) \/ spc[t] = "newPayer"
      BY <2>1, <2>2, <2>3 DEF Wants
    <2> QED
      BY <1>1, <1>3, <1>4, <1>6, <2>1, <2>4 DEF Goes, Past, KindOf
  <1>10. WalletLocks(t)'
    BY <1>1, <1>2, <1>5, <1>7, <1>9 DEF Locks, WalletLocks, tables
  <1>11. ASSUME NEW r \in Rows, lock'[r] = t, lock[r] # t
         PROVE  Row(t) = r /\ Writing(t)'
    <2>1. Wants(t, r)
      BY <1>8, <1>11 DEF Keys
    <2>2. CASE r \in Writes(t)
      <3>1. r = Row(t) /\ spc[t] = "flush" /\ Moves(job[t])
        BY <2>2, WritesWhat, TablesAssumption
      <3> QED
        BY <1>7, <3>1 DEF Writing
    <2>3. CASE r \notin Writes(t)
      <3>1. spc[t] \notin {"newWallet", "newPayer"} \/ r \notin Users
        BY TablesAssumption
      <3>2. User(t) \in Users \/ spc[t] # "newWallet"
        BY <1>1, BusyRow DEF Types, KindOf
      <3>3. Payer(t) \in Users \/ spc[t] # "newPayer"
        BY <1>1, BusyJob DEF Types, KindOf, Payer, Settling
      <3>4. spc[t] \in {"select", "insert"} /\ r = Row(t)
        BY <2>1, <2>3, <3>1, <3>2, <3>3 DEF Wants
      <3>5. Moves(job[t]) /\ pc = "flush"
        BY <1>1, <1>3, <1>11, <3>4 DEF KindOf, Goes
      <3> QED
        BY <1>2, <1>4, <3>4, <3>5 DEF Writing, Moves
    <2> QED
      BY <2>2, <2>3
  <1>12. RowLocks(t)'
    BY <1>1, <1>5, <1>7, <1>11 DEF Locks, RowLocks
  <1>13. ASSUME NEW k \in Entries \cup Remittances \cup CashOuts, lock'[k] = t, lock[k] # t
         PROVE  k \in Writes(t)
    <2>1. Wants(t, k) /\ k \notin Users /\ k \notin Rows
      BY <1>8, <1>13, TablesAssumption DEF Keys
    <2>2. User(t) \in Users \/ spc[t] # "newWallet"
      BY <1>1, BusyRow DEF Types, KindOf
    <2>3. Payer(t) \in Users \/ spc[t] # "newPayer"
      BY <1>1, BusyJob DEF Types, KindOf, Payer, Settling
    <2>4. Row(t) \in Rows \/ spc[t] \notin {"select", "insert"}
      BY <1>1, BusyRow DEF Types, KindOf, Moves
    <2> QED
      BY <2>1, <2>2, <2>3, <2>4 DEF Wants
  <1>14. pc # "free"
    BY <1>3, <1>6 DEF Goes
  <1>15. EntryLocks(t)'
    <2>1. ASSUME NEW e \in Entries, lock'[e] = t
          PROVE  job[t].kind \in Settling
      <3>1. CASE lock[e] = t
        BY <1>1, <3>1 DEF Locks, EntryLocks
      <3>2. CASE lock[e] # t
        BY <1>13, <2>1, <3>2, WritesWhat, TablesAssumption
      <3> QED
        BY <3>1, <3>2
    <2> QED
      BY <1>2, <1>4, <1>14, <2>1 DEF EntryLocks
  <1>16. SubjectLocks(t)'
    <2>1. ASSUME NEW x \in Remittances \cup CashOuts, lock'[x] = t
          PROVE  x = job[t].about /\ (pc = "commit" \/ job[t].kind = "fail")
      <3>1. CASE lock[x] = t
        BY <1>1, <1>4, <3>1 DEF Locks, SubjectLocks
      <3>2. CASE lock[x] # t
        <4>1. x = job[t].about /\ (job[t].kind = "fail" \/ spc[t] = "row")
          BY <1>13, <2>1, <3>2, WritesWhat, TablesAssumption
        <4> QED
          BY <1>3, <4>1 DEF Goes
      <3> QED
        BY <3>1, <3>2
    <2> QED
      BY <1>2, <1>4, <1>14, <2>1 DEF SubjectLocks
  <1>17. HasWallet(t)'
    <2> SUFFICES ASSUME Past(t)', job[t].kind # "status"
                 PROVE  User(t) \in present \/ lock'[User(t)] = t
      BY <1>2, <1>5 DEF HasWallet, tables
    <2>1. User(t) \in Users /\ User(t) \in Keys
      BY <1>4, BusyRow DEF Types, Keys
    <2>2. lock[User(t)] = t => lock'[User(t)] = t
      BY <2>1, WorkTakes DEF Types, TypeOK
    <2>3. CASE Past(t)
      BY <1>1, <2>2, <2>3 DEF Locks, HasWallet
    <2>4. CASE ~Past(t)
      <3>1. \/ spc[t] = "wallet" /\ pc = AfterWallet(t)
            \/ spc[t] = "newWallet"
        BY <1>3, <1>4, <1>6, <2>4 DEF Goes, Past
      <3>2. CASE spc[t] = "wallet" /\ pc = AfterWallet(t)
        <4>1. FindOwnWallet(t)
          BY <3>2, WritesKeys DEF WorkStep, InsertOwnWallet, InsertWallet, FindPayerWallet,
               FindWallet, InsertPayerWallet, SelectRow, InsertRow, Write
        <4>2. User(t) \in present \/ lock[User(t)] = t
          BY <1>4, <1>6, <3>2, <4>1 DEF FindOwnWallet, FindWallet, Goto, Types, TypeOK
        <4> QED
          BY <2>2, <4>2
      <3>3. CASE spc[t] = "newWallet"
        <4>1. InsertOwnWallet(t)
          BY <3>3, WritesKeys DEF WorkStep, FindOwnWallet, FindWallet, FindPayerWallet,
               InsertWallet, InsertPayerWallet, SelectRow, InsertRow, Write
        <4> QED
          BY <2>1, <4>1 DEF InsertOwnWallet, InsertWallet, Take, Types, TypeOK
      <3> QED
        BY <3>1, <3>2, <3>3
    <2> QED
      BY <2>3, <2>4
  <1> QED
    BY <1>10, <1>12, <1>15, <1>16, <1>17 DEF Locks

(* Every step keeps the invariant.                                         *)
LEMMA StepHold ==
  ASSUME Types, HoldInv, [Next]_vars
  PROVE  HoldInv'
  <1>1. CASE UNCHANGED vars
    <2>1. \A s \in Sessions : Locks(s)'
      BY <1>1, OthersHold DEF vars, tables
    <2> QED
      BY <1>1, <2>1 DEF vars, tables, HoldInv
  <1>2. ASSUME NEW t \in Sessions, UNCHANGED tables, Locks(t)',
               \A s \in Sessions \ {t} :
                 /\ spc'[s] = spc[s] /\ job'[s] = job[s]
                 /\ \A k \in Keys : lock'[k] = s <=> lock[k] = s
        PROVE  HoldInv'
    <2>1. present' = present
      BY <1>2 DEF tables
    <2>2. ASSUME NEW s \in Sessions \ {t}
          PROVE  Locks(s)'
      BY <1>2, <2>1, OthersHold
    <2> QED
      BY <1>2, <2>1, <2>2 DEF HoldInv
  <1>3. ASSUME NEW t \in Sessions, NEW j \in Jobs, Begin(t, j)
        PROVE  HoldInv'
    <2>1. \A k \in Keys : lock'[k] # t
      BY <1>3, FreeHolds DEF Begin
    <2>2. job'[t] = j /\ spc'[t] = IF j.kind = "status" THEN "row" ELSE "wallet"
      BY <1>3 DEF Begin, Goto, Types, TypeOK
    <2>3. ~Past(t)' \/ job'[t].kind = "status"
      BY <2>2 DEF Past
    <2>4. Locks(t)'
      BY <2>1, <2>3 DEF Locks, WalletLocks, RowLocks, EntryLocks, SubjectLocks, HasWallet,
           Keys
    <2>5. \A s \in Sessions \ {t} : spc'[s] = spc[s] /\ job'[s] = job[s]
      BY <1>3 DEF Begin, Goto, Types, TypeOK
    <2> QED
      BY <1>2, <1>3, <2>4, <2>5 DEF Begin
  <1>4. ASSUME NEW t \in Sessions, WorkStep(t)
        PROVE  HoldInv'
    <2>1. UNCHANGED <<tables, job>>
      BY <1>4, WorkGoes
    <2>2. \A s \in Sessions \ {t} : spc'[s] = spc[s]
      BY <1>4, WorkGoes DEF Goes, Types, TypeOK
    <2>3. \A s \in Sessions \ {t} : \A k \in Keys : lock'[k] = s <=> lock[k] = s
      BY <1>4, WorkTakes DEF Types, TypeOK
    <2> QED
      BY <1>2, <1>4, <2>1, <2>2, <2>3, WorkHold
  <1>5. ASSUME NEW t \in Sessions,
               Violate(t) \/ Refuse(t) \/ Rollback(t) \/ DeadlockVictim(t)
        PROVE  HoldInv'
    BY <1>5, EndHold DEF Violate, Refuse, Rollback, DeadlockVictim, tables
  <1>6. ASSUME NEW t \in Sessions, Commit(t)
        PROVE  HoldInv'
    BY <1>6, EndHold DEF Commit
  <1> QED
    BY <1>1, <1>3, <1>4, <1>5, <1>6 DEF Next, SessionStep, WorkStep

(***************************************************************************)
(* Cash-outs, status changes and GET /wallet are never in a deadlock, with *)
(* the locks of wallets, balances, entries, remittances and cash_outs all  *)
(* taken into account: only settlements, failures and refunds are.         *)
(***************************************************************************)
THEOREM OnlySettlementsDeadlockHolds == Spec => []OnlySettlementsDeadlock
  <1>1. Types /\ HoldInv /\ [Next]_vars => Types' /\ HoldInv'
    BY StepType, StepHold
  <1>2. Init => Types /\ HoldInv
    BY InitType, InitHold
  <1>3. Types /\ HoldInv => OnlySettlementsDeadlock
    BY HoldCircles
  <1> QED
    BY <1>1, <1>2, <1>3, PTL DEF Spec

\* Whoever is ended to break a deadlock works on a remittance.
VictimsSettle == \A t \in Sessions : DeadlockVictim(t) => job[t].kind \in Settling

(***************************************************************************)
(* So the database only ever ends settlements, failures and refunds to     *)
(* break a deadlock: no cash-out request, payout, rejection or approval,   *)
(* nor GET /wallet, is answered with an error for one.                     *)
(***************************************************************************)
THEOREM DeadlockVictimsSettle == Spec => [][VictimsSettle]_vars
  <1>1. OnlySettlementsDeadlock => VictimsSettle
    BY DEF OnlySettlementsDeadlock, VictimsSettle, DeadlockVictim
  <1>2. OnlySettlementsDeadlock => [VictimsSettle]_vars
    BY <1>1
  <1> QED
    BY <1>2, OnlySettlementsDeadlockHolds, PTL
=============================================================================
