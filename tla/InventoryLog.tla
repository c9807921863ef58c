---------------------------- MODULE InventoryLog ----------------------------
(***************************************************************************)
(* What makes the memory of the partition manager durable: the WAL writer, *)
(* the snapshot loop and the recovery of the inventory service             *)
(* (internal/inventory/application/service.go).  The writer takes records  *)
(* from walQueue, inserts them into inventory_wal and publishes them; the  *)
(* snapshot loop copies the shards one after the other and stores the      *)
(* copies; a restart rebuilds memory from the two tables.                  *)
(***************************************************************************)
EXTENDS PartitionManager, FiniteSetsExt

CONSTANTS
  ShardOf,          \* hash(key) % partitionN
  NoRecord,         \* the writer has nothing in hand
  AppendMayFail,    \* BOOLEAN: the database and the broker return errors
  MaxRestarts       \* bound: crashes of the process

ASSUME LogAssumption ==
  /\ ShardOf \in [Keys -> Nat]
  /\ NoRecord \notin MutationRecord
  /\ AppendMayFail \in BOOLEAN
  /\ MaxRestarts \in Nat

VARIABLES
  writer,           \* the WAL writer: where it is, and the record in its hand
  wal,              \* the rows of inventory_wal
  published,        \* the records sent to the inventory topic
  dropped,          \* history: records this process dropped after an error
  toExport,         \* shards the snapshot loop has yet to copy
  exported,         \* copies it has yet to store; Blank: none
  snaps,            \* the rows of inventory_snapshot; Blank: none
  restarts          \* how often the process was restarted

writerVars == <<writer, wal, published, dropped>>
snapVars == <<toExport, exported, snaps>>
logVars == <<managerVars, writerVars, snapVars, restarts>>

Shards == {ShardOf[k] : k \in Keys}

NoStates == [k \in Keys |-> Blank]

Idle == [at |-> "idle", rec |-> NoRecord]

LogInit ==
  /\ Init
  /\ writer = Idle
  /\ wal = {}
  /\ published = {}
  /\ dropped = {}
  /\ toExport = {}
  /\ exported = NoStates
  /\ snaps = NoStates
  /\ restarts = 0

-----------------------------------------------------------------------------
(* The WAL writer: one record at a time, and no second try.                *)

WriterTake ==
  /\ writer.at = "idle"
  /\ TakeRecord
  /\ writer' = [at |-> "append", rec |-> Head(walQueue)]
  /\ UNCHANGED <<wal, published, dropped, snapVars, restarts>>

\* The unique key of inventory_wal (migrations/0001_init.sql:64).
Collides(r) == \E w \in wal : w.key = r.key /\ w.seq = r.seq

\* Mutant: the insert is never committed.
AppendRecordLost ==
  /\ writer.at = "append"
  /\ writer' = [writer EXCEPT !.at = "publish"]
  /\ UNCHANGED <<managerVars, wal, published, dropped, snapVars, restarts>>

AppendRecord ==
  /\ writer.at = "append"
  /\ ~Collides(writer.rec)
  /\ wal' = wal \cup {writer.rec}
  /\ writer' = [writer EXCEPT !.at = "publish"]
  /\ UNCHANGED <<managerVars, published, dropped, snapVars, restarts>>

\* Mutant: the record is published although it was not stored.
AppendFailsPublishes ==
  /\ writer.at = "append"
  /\ AppendMayFail
  /\ writer' = [writer EXCEPT !.at = "publish"]
  /\ UNCHANGED <<managerVars, wal, published, dropped, snapVars, restarts>>

\* Append returns an error: the record is dropped, whether or not the
\* statement took effect before the two seconds were over.
AppendFails ==
  /\ writer.at = "append"
  /\ \/ Collides(writer.rec) /\ UNCHANGED wal
     \/ AppendMayFail /\ UNCHANGED wal
     \/ AppendMayFail /\ ~Collides(writer.rec) /\ wal' = wal \cup {writer.rec}
  /\ dropped' = dropped \cup {writer.rec}
  /\ writer' = Idle
  /\ UNCHANGED <<managerVars, published, snapVars, restarts>>

Publish ==
  /\ writer.at = "publish"
  /\ \/ published' = published \cup {writer.rec}
     \/ AppendMayFail /\ UNCHANGED published
  /\ writer' = Idle
  /\ UNCHANGED <<managerVars, wal, dropped, snapVars, restarts>>

-----------------------------------------------------------------------------
(* The snapshot loop: ExportSnapshots asks the shards in order, then the   *)
(* copies are stored in that order until one fails.                        *)

Exporting == toExport # {} \/ exported # NoStates

StartExport ==
  /\ ~Exporting
  /\ toExport' = Shards
  /\ UNCHANGED <<managerVars, writerVars, exported, snaps, restarts>>

ExportShard(s) ==
  /\ s \in toExport
  /\ \A t \in toExport : s <= t
  /\ toExport' = toExport \ {s}
  /\ exported' = [k \in Keys |-> IF ShardOf[k] = s THEN part[k] ELSE exported[k]]
  /\ UNCHANGED <<managerVars, writerVars, snaps, restarts>>

NextToStore(k) ==
  /\ toExport = {}
  /\ Exists(exported[k])
  /\ \A j \in Keys : Exists(exported[j]) => ShardOf[k] <= ShardOf[j]

UpsertSnapshot(k) ==
  /\ NextToStore(k)
  /\ snaps' = [snaps EXCEPT ![k] = exported[k]]
  /\ exported' = [exported EXCEPT ![k] = Blank]
  /\ UNCHANGED <<managerVars, writerVars, toExport, restarts>>

\* An upsert returns an error, in effect or not: the remaining copies are
\* forgotten.
UpsertFails(k) ==
  /\ AppendMayFail
  /\ NextToStore(k)
  /\ \/ UNCHANGED snaps
     \/ snaps' = [snaps EXCEPT ![k] = exported[k]]
  /\ exported' = NoStates
  /\ UNCHANGED <<managerVars, writerVars, toExport, restarts>>

-----------------------------------------------------------------------------
(* Recovery.                                                               *)

\* The state after replaying the records of partition k on state base, in the
\* order of their numbers: LoadAll sorts them, Recover skips those the
\* snapshot covers, and a number that is missing is passed over.
Replay(base, log, k) ==
  LET upTo[n \in Nat] ==
        IF n = 0 THEN base
        ELSE LET rs == {r \in log : r.key = k /\ r.seq = n /\ n > base.seq}
             IN IF rs = {} THEN upTo[n - 1]
                ELSE ApplyRecovered(upTo[n - 1], CHOOSE r \in rs : TRUE)
  IN upTo[Max({0} \cup {r.seq : r \in log})]

\* Mutant: recovery forgets the snapshots.
RecoveredFromLogOnly(k) == Replay(Blank, wal, k)

\* Mutant: recovery forgets the log.
RecoveredFromSnapshotOnly(k) == snaps[k]

Recovered(k) == Replay(snaps[k], wal, k)

\* The process dies and comes back.  Recover only reads the two tables and ends
\* before the loops and the HTTP server start, so it is one step; the queue,
\* the writer and the snapshot loop begin afresh.
Restart ==
  /\ restarts < MaxRestarts
  /\ restarts' = restarts + 1
  /\ part' = [k \in Keys |-> Recovered(k)]
  /\ walQueue' = <<>>
  /\ writer' = Idle
  /\ dropped' = {}
  /\ toExport' = {}
  /\ exported' = NoStates
  /\ UNCHANGED <<wal, published, snaps>>

-----------------------------------------------------------------------------
WriterStep == WriterTake \/ AppendRecord \/ AppendFails \/ Publish

SnapshotStep ==
  \/ StartExport
  \/ \E s \in Shards : ExportShard(s)
  \/ \E k \in Keys : UpsertSnapshot(k) \/ UpsertFails(k)

LogNext ==
  \/ /\ \E k \in Keys, h \in HoldIDs : Command(k, h)
     /\ UNCHANGED <<writerVars, snapVars, restarts>>
  \/ WriterStep
  \/ SnapshotStep
  \/ Restart

LogSpec == LogInit /\ [][LogNext]_logVars

-----------------------------------------------------------------------------
(* Properties                                                              *)

LogTypeOK ==
  /\ TypeOK
  /\ writer \in [at: {"idle", "append", "publish"}, rec: MutationRecord \cup {NoRecord}]
  /\ (writer.at = "idle") <=> (writer.rec = NoRecord)
  /\ wal \in SUBSET MutationRecord
  /\ published \in SUBSET MutationRecord
  /\ dropped \in SUBSET MutationRecord
  /\ toExport \subseteq Shards
  /\ exported \in [Keys -> PartitionState]
  /\ snaps \in [Keys -> PartitionState]
  /\ restarts \in 0..MaxRestarts

\* Records accepted by the queue and not yet in the table.
InFlight ==
  {walQueue[i] : i \in 1..Len(walQueue)}
    \cup (IF writer.at = "append" THEN {writer.rec} ELSE {})

\* The insert never hits the unique key: no number is used a second time for
\* a partition, not even after a restart that lost the numbers in flight.
NumbersAreFresh == \A r \in InFlight : ~Collides(r)

\* Snapshots, log, records in flight and those the process dropped together
\* determine the memory of every partition that was ever changed: nothing else was
\* lost on the way and replay (service.go:98-125) computes what the handlers did.
MemoryIsReplayable ==
  \A k \in Keys :
    part[k].seq > 0 => Replay(snaps[k], wal \cup InFlight \cup dropped, k) = part[k]

\* What is announced to the other services is durable first, so no restart can
\* take back what they were told (service.go:188-201).
PublishedIsDurable == published \subseteq wal

\* A snapshot is never replaced by an older one, and never runs ahead of memory.
SnapshotsAdvance ==
  [][\A k \in Keys : /\ snaps'[k].seq >= snaps[k].seq
                     /\ snaps'[k].seq <= part'[k].seq]_logVars

\* No record of the partition is missing that recovery needs.
NothingMissing(k) ==
  \A r \in dropped : r.key = k => r \in wal \/ r.seq <= snaps[k].seq

\* A restart of a partition with nothing missing loses exactly what was in flight:
\* replaying that on the recovered partition gives back the memory of before.
RestartLosesOnlyInFlight ==
  [][restarts' > restarts =>
       \A k \in Keys : (part[k].seq > 0 /\ NothingMissing(k)) =>
         Replay(part'[k], InFlight, k) = part[k]]_logVars

\* The books of a partition balance in memory and in its snapshot, also when
\* records are missing from the log: replay (manager.go:344-374) skips the end of a
\* hold it does not know and a hold it knows already, so it can sell seats twice
\* (NeverOversold), but never counts a seat twice or loses one.
SeatsBalance == \A k \in Keys : Balanced(part[k]) /\ Balanced(snaps[k])

RecordsOf(k) == {i \in 1..Len(walQueue) : walQueue[i].key = k}

Queued(k, n) == \E i \in RecordsOf(k) : walQueue[i].seq = n

Durable(k, n) ==
  \/ n <= snaps[k].seq
  \/ \E r \in wal : r.key = k /\ r.seq = n

\* Every mutation the queue accepted becomes durable, unless the database
\* reports an error or a restart undoes it: the writer never stalls behind the
\* shards and forgets nothing silently.
AcceptedIsDurable ==
  \A k \in Keys, n \in 1..MaxSeq :
    Queued(k, n) ~>
      \/ Durable(k, n) \/ part[k].seq < n
      \/ \E r \in dropped : r.key = k /\ r.seq = n

-----------------------------------------------------------------------------
(* What a document of the repository says, and the code does not keep.     *)

\* src/README.md:144: the log guarantees recovery.  The recovered partition is
\* not oversold.
NeverOversold == \A k \in Keys : part[k].avail >= 0

=============================================================================
