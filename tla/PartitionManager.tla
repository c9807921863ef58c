-------------------------- MODULE PartitionManager --------------------------
(***************************************************************************)
(* The partition manager of the inventory service                          *)
(* (internal/inventory/infrastructure/partition/manager.go): every         *)
(* partition (train, date, class) is owned by one shard goroutine, which   *)
(* executes the commands of its channel one at a time, so a command is one *)
(* atomic step on its partition.  What the shards share is the bounded     *)
(* channel walQueue: a mutation and its WAL record are accepted together   *)
(* or the mutation is rolled back.                                         *)
(*                                                                         *)
(* A key the shard's map does not hold is the record of zeroes Blank:      *)
(* every partition that exists has a positive capacity.  Likewise a hold   *)
(* that does not exist has quantity 0, because TryHold refuses qty <= 0.   *)
(***************************************************************************)
EXTENDS Integers, Sequences, FiniteSets

CONSTANTS
  Keys,             \* partition keys
  HoldIDs,          \* hold identifiers the callers use
  MaxQty,           \* bound: a caller asks for 1..MaxQty seats
  Capacities,       \* "capacity" fields callers send; 0 is "absent or <= 0"
  DefaultCapacity,  \* what getOrInit takes when the capacity is 0
  WALBuffer,        \* cap(walQueue)
  MaxSeq            \* bound: mutations one partition may log

ASSUME ManagerAssumption ==
  /\ IsFiniteSet(HoldIDs)
  /\ MaxQty \in Nat \ {0}
  /\ Capacities \subseteq Nat
  /\ DefaultCapacity \in Nat \ {0}
  /\ WALBuffer \in Nat \ {0}
  /\ MaxSeq \in Nat

VARIABLES
  part,             \* part[k]: the in-memory state of partition k
  walQueue          \* the channel from the shards to the WAL writer

managerVars == <<part, walQueue>>

Qtys == 1..MaxQty

PartitionState ==
  [cap: Nat, avail: Int, conf: Nat, seq: Nat, holds: [HoldIDs -> 0..MaxQty]]

EventTypes == {"hold_created", "hold_released", "hold_confirmed"}

MutationRecord ==
  [key: Keys, seq: Nat \ {0}, type: EventTypes,
   hold: HoldIDs, qty: Qtys, cap: Nat]

NewPartitionState(c) ==
  [cap |-> c, avail |-> c, conf |-> 0, seq |-> 0,
   holds |-> [h \in HoldIDs |-> 0]]

Blank == NewPartitionState(0)

Exists(st) == st.cap > 0

Held(st, h) == st.holds[h] > 0

QueueFull == Len(walQueue) >= WALBuffer

\* The state the shard works on: the partition, created on its first use.
GetOrInit(st, c) ==
  IF Exists(st) THEN st
  ELSE NewPartitionState(IF c > 0 THEN c ELSE DefaultCapacity)

-----------------------------------------------------------------------------
(* The three mutations and the rollback the code applies to each when the  *)
(* WAL queue does not accept the record.                                   *)

DoHold(st, h, q) ==
  [st EXCEPT !.avail = @ - q, !.holds[h] = q, !.seq = @ + 1]

DoRelease(st, h) ==
  [st EXCEPT !.avail = @ + st.holds[h], !.holds[h] = 0, !.seq = @ + 1]

DoConfirm(st, h) ==
  [st EXCEPT !.conf = @ + st.holds[h], !.holds[h] = 0, !.seq = @ + 1]

\* Mutant: the rollback forgets the seats.
UndoHoldKeepsSeats(st, h, q) ==
  [st EXCEPT !.holds[h] = 0, !.seq = @ - 1]

UndoHold(st, h, q) ==
  [st EXCEPT !.avail = @ + q, !.holds[h] = 0, !.seq = @ - 1]

UndoRelease(st, h, q) ==
  [st EXCEPT !.avail = @ - q, !.holds[h] = q, !.seq = @ - 1]

UndoConfirm(st, h, q) ==
  [st EXCEPT !.conf = @ - q, !.holds[h] = q, !.seq = @ - 1]

\* Mutant: replay creates a partition without the logged capacity.
ApplyRecoveredNoCap(st0, r) ==
  LET st == GetOrInit(st0, 0)
      replayed ==
        CASE r.type = "hold_created" /\ ~Held(st, r.hold) -> DoHold(st, r.hold, r.qty)
          [] r.type = "hold_released" /\ Held(st, r.hold) -> DoRelease(st, r.hold)
          [] r.type = "hold_confirmed" /\ Held(st, r.hold) -> DoConfirm(st, r.hold)
          [] OTHER -> st
  IN IF r.seq <= st.seq THEN st ELSE [replayed EXCEPT !.seq = r.seq]

\* Recovery applies a record of the log to the state rebuilt so far.
ApplyRecovered(st0, r) ==
  LET st == GetOrInit(st0, r.cap)
      replayed ==
        CASE r.type = "hold_created" /\ ~Held(st, r.hold) -> DoHold(st, r.hold, r.qty)
          [] r.type = "hold_released" /\ Held(st, r.hold) -> DoRelease(st, r.hold)
          [] r.type = "hold_confirmed" /\ Held(st, r.hold) -> DoConfirm(st, r.hold)
          [] OTHER -> st
  IN IF r.seq <= st.seq THEN st ELSE [replayed EXCEPT !.seq = r.seq]

\* The select on walQueue: the record is queued and done is the new state of
\* partition k, or the queue is full and undone is.
SendOrUndo(k, done, undone, type, h, q, c) ==
  \/ /\ ~QueueFull
     /\ part' = [part EXCEPT ![k] = done]
     /\ walQueue' = Append(walQueue, [key |-> k, seq |-> done.seq, type |-> type,
                                      hold |-> h, qty |-> q, cap |-> c])
  \/ /\ QueueFull
     /\ part' = [part EXCEPT ![k] = undone]
     /\ UNCHANGED walQueue

-----------------------------------------------------------------------------
(* The commands.  A refused TryHold still leaves the partition created.    *)

\* Mutant: off by one, the last seat is promised twice.
InsufficientStockOffByOne(st, q) == st.avail + 1 < q

InsufficientStock(st, q) == st.avail < q

TryHoldRefused(k, h, q, c) ==
  LET st == GetOrInit(part[k], c) IN
  /\ InsufficientStock(st, q)
  /\ part' = [part EXCEPT ![k] = st]
  /\ UNCHANGED walQueue

\* Bound: every hold is created and ended, so this caps seq at MaxSeq and never
\* keeps a hold from ending.
WithinBound(st) == st.seq + Cardinality({h \in HoldIDs : Held(st, h)}) <= MaxSeq

TryHold(k, h, q, c) ==
  LET st == GetOrInit(part[k], c) IN
  /\ ~InsufficientStock(st, q)
  /\ ~Held(st, h)
  /\ WithinBound(DoHold(st, h, q))
  /\ SendOrUndo(k, DoHold(st, h, q), UndoHold(DoHold(st, h, q), h, q),
                "hold_created", h, q, st.cap)

\* The hold exists already: the call succeeds and nothing changes.
TryHoldRepeated(k, h, q) ==
  /\ ~InsufficientStock(part[k], q)
  /\ Held(part[k], h)
  /\ UNCHANGED managerVars

\* Mutant: the check that the hold exists is gone.
ReleaseHoldUnchecked(k, h) ==
  LET st == part[k] IN
  SendOrUndo(k, DoRelease(st, h), UndoRelease(DoRelease(st, h), h, st.holds[h]),
             "hold_released", h, st.holds[h], 0)

ReleaseHold(k, h) ==
  LET st == part[k] IN
  /\ Held(st, h)
  /\ SendOrUndo(k, DoRelease(st, h), UndoRelease(DoRelease(st, h), h, st.holds[h]),
                "hold_released", h, st.holds[h], 0)

ConfirmHold(k, h) ==
  LET st == part[k] IN
  /\ Held(st, h)
  /\ SendOrUndo(k, DoConfirm(st, h), UndoConfirm(DoConfirm(st, h), h, st.holds[h]),
                "hold_confirmed", h, st.holds[h], 0)

\* The other end of the channel, seen from the manager: a record is taken.
TakeRecord ==
  /\ walQueue # <<>>
  /\ walQueue' = Tail(walQueue)
  /\ UNCHANGED part

Init ==
  /\ part = [k \in Keys |-> Blank]
  /\ walQueue = <<>>

Command(k, h) ==
  \/ \E q \in Qtys, c \in Capacities :
       \/ TryHold(k, h, q, c)
       \/ TryHoldRefused(k, h, q, c)
  \/ ReleaseHold(k, h)
  \/ ConfirmHold(k, h)

Next ==
  \/ \E k \in Keys, h \in HoldIDs : Command(k, h)
  \/ TakeRecord

Spec == Init /\ [][Next]_managerVars

-----------------------------------------------------------------------------
(* Properties                                                              *)

\* The type invariant.  A partition that was never used is Blank, as
\* getOrInit creates none without a capacity.
TypeOK ==
  /\ part \in [Keys -> PartitionState]
  /\ walQueue \in Seq(MutationRecord)
  /\ \A k \in Keys : ~Exists(part[k]) => part[k] = Blank

\* The seats of a state that holds keep, counted one by one.
HeldSeats(st) == {s \in HoldIDs \X Qtys : s[2] <= st.holds[s[1]]}

Balanced(st) == st.avail + st.conf + Cardinality(HeldSeats(st)) = st.cap

Conserved(st) == st.avail >= 0 /\ Balanced(st)

\* No partition is oversold and no seat is lost: what is available, held and
\* confirmed always adds up to the capacity, through every rollback
\* (manager.go:264-268, 300-304, 336-340).
SeatsConserved == \A k \in Keys : Conserved(part[k])

\* Memory changes only together with a record that says exactly what changed:
\* a step that alters the seats of a partition appends one record, and
\* replaying it on the old state (applyRecovered, manager.go:344-374) yields
\* the new one.
Recorded(k) ==
  /\ Len(walQueue') = Len(walQueue) + 1
  /\ walQueue = SubSeq(walQueue', 1, Len(walQueue))
  /\ part'[k] = ApplyRecovered(part[k], walQueue'[Len(walQueue')])

SeatsChanged(k) ==
  \/ part'[k].holds # part[k].holds
  \/ part'[k].conf # part[k].conf
  \/ part'[k].seq # part[k].seq

ChangesAreRecorded ==
  [][\A k \in Keys : SeatsChanged(k) => Recorded(k)]_managerVars

\* The manager keeps the promise of the stock ledger.
LedgerView ==
  [k \in Keys |-> [cap |-> part[k].cap,
                   used |-> part[k].cap - part[k].avail,
                   sold |-> part[k].conf]]

Ledger == INSTANCE StockLedger WITH
  stock <- LedgerView,
  Sizes <- (Capacities \ {0}) \cup {DefaultCapacity}

LedgerSpec == Ledger!Spec

=============================================================================
