-------------------------- MODULE InventoryProofs ---------------------------
(***************************************************************************)
(* Proofs about the inventory, for every set of partitions, holds and      *)
(* requests, every capacity and every size of the WAL queue, with every    *)
(* failure and any number of restarts unless a theorem says otherwise:     *)
(*                                                                         *)
(*   the manager  seats are conserved, every change has its record, and    *)
(*                the partitions keep the promise of the stock ledger;     *)
(*   replay       what the recursion of recovery computes, by induction    *)
(*                over the numbers of the records;                         *)
(*   the log      snapshots and records determine the memory of every      *)
(*                partition, a restart loses what was in flight, and the   *)
(*                seats are conserved through it unless an insert failed;  *)
(*   the service  runs the log, and a hold has a value and an entry that   *)
(*                will release it until one of its own is lost.            *)
(***************************************************************************)
EXTENDS HoldTracking, TLAPS, FiniteSetTheorems, SequenceTheorems, WellFoundedInduction


USE ManagerAssumption DEF ManagerAssumption

-----------------------------------------------------------------------------
(* Counting the seats of a partition's holds.                              *)

\* HeldSeats, as a function of the holds alone.
SeatsOf(holds) == {s \in HoldIDs \X Qtys : s[2] <= holds[s[1]]}

\* Finitely many seats are held, so they can be counted.
LEMMA SeatsFinite ==
  ASSUME NEW holds \in [HoldIDs -> 0..MaxQty]
  PROVE  IsFiniteSet(SeatsOf(holds)) /\ Cardinality(SeatsOf(holds)) \in Nat
<1>1. IsFiniteSet(Qtys)
  BY FS_Interval DEF Qtys
<1>2. IsFiniteSet(HoldIDs \X Qtys)
  BY <1>1, FS_Product
<1>3. SeatsOf(holds) \in SUBSET (HoldIDs \X Qtys)
  BY DEF SeatsOf
<1>4. IsFiniteSet(SeatsOf(holds))
  BY <1>2, <1>3, FS_Subset
<1> QED BY <1>4, FS_CardinalityType

\* A hold of q seats adds q seats.
LEMMA SeatsOfHold ==
  ASSUME NEW holds \in [HoldIDs -> 0..MaxQty],
         NEW h \in HoldIDs, NEW q \in Qtys, holds[h] = 0
  PROVE  Cardinality(SeatsOf([holds EXCEPT ![h] = q])) = Cardinality(SeatsOf(holds)) + q
<1> DEFINE new == {h} \X (1..q)
<1>1. q \in Nat /\ q >= 1 /\ q <= MaxQty
  BY DEF Qtys
<1>2. IsFiniteSet({h}) /\ Cardinality({h}) = 1
  BY FS_Singleton
<1>3. IsFiniteSet(1..q) /\ Cardinality(1..q) = q
  BY <1>1, FS_Interval
<1>4. IsFiniteSet(new) /\ Cardinality(new) = q
  <2>1. IsFiniteSet(new) /\ Cardinality(new) = Cardinality({h}) * Cardinality(1..q)
    BY <1>2, <1>3, FS_Product
  <2> QED BY <2>1, <1>1, <1>2, <1>3
<1>5. SeatsOf(holds) \cap new = {}
  BY <1>1 DEF SeatsOf, Qtys
<1>6. SeatsOf([holds EXCEPT ![h] = q]) = SeatsOf(holds) \cup new
  <2>1. ASSUME NEW s \in SeatsOf([holds EXCEPT ![h] = q])
        PROVE  s \in SeatsOf(holds) \cup new
    <3>1. PICK g \in HoldIDs, n \in Qtys : s = <<g, n>>
      BY DEF SeatsOf
    <3>2. CASE g = h
      BY <3>1, <3>2, <1>1 DEF SeatsOf, Qtys
    <3>3. CASE g # h
      BY <3>1, <3>3 DEF SeatsOf
    <3> QED BY <3>2, <3>3
  <2>2. ASSUME NEW s \in SeatsOf(holds)
        PROVE  s \in SeatsOf([holds EXCEPT ![h] = q])
    <3>1. PICK g \in HoldIDs, n \in Qtys : s = <<g, n>>
      BY DEF SeatsOf
    <3>2. g # h
      BY <3>1 DEF SeatsOf, Qtys
    <3> QED BY <3>1, <3>2 DEF SeatsOf
  <2>3. ASSUME NEW s \in new
        PROVE  s \in SeatsOf([holds EXCEPT ![h] = q])
    <3>1. PICK n \in 1..q : s = <<h, n>>
      OBVIOUS
    <3>2. n \in Qtys
      BY <1>1 DEF Qtys
    <3> QED BY <3>1, <3>2 DEF SeatsOf
  <2> QED BY <2>1, <2>2, <2>3
<1>7. Cardinality({}) = 0
  BY FS_EmptySet
<1>8. /\ IsFiniteSet(SeatsOf(holds))
      /\ Cardinality(SeatsOf(holds)) \in Nat
  BY SeatsFinite
<1>9. Cardinality(SeatsOf(holds) \cup new) =
        Cardinality(SeatsOf(holds)) + Cardinality(new) - Cardinality(SeatsOf(holds) \cap new)
  BY <1>4, <1>8, FS_Union
<1>10. Cardinality(SeatsOf(holds) \cap new) = 0
  BY <1>5, <1>7, Zenon
<1>11. Cardinality(SeatsOf([holds EXCEPT ![h] = q])) = Cardinality(SeatsOf(holds) \cup new)
  BY <1>6, Zenon
<1> HIDE DEF new
<1> QED BY <1>1, <1>4, <1>8, <1>9, <1>10, <1>11

\* Ending a hold gives its seats back.
LEMMA SeatsOfEndedHold ==
  ASSUME NEW holds \in [HoldIDs -> 0..MaxQty], NEW h \in HoldIDs, holds[h] > 0
  PROVE  Cardinality(SeatsOf([holds EXCEPT ![h] = 0])) = Cardinality(SeatsOf(holds)) - holds[h]
<1> DEFINE ended == [holds EXCEPT ![h] = 0]
<1>1. ended \in [HoldIDs -> 0..MaxQty] /\ ended[h] = 0
  OBVIOUS
<1>2. holds[h] \in Qtys
  BY DEF Qtys
<1>3. [ended EXCEPT ![h] = holds[h]] = holds
  OBVIOUS
<1>4. Cardinality(SeatsOf(holds)) = Cardinality(SeatsOf(ended)) + holds[h]
  BY <1>1, <1>2, <1>3, SeatsOfHold
<1>5. Cardinality(SeatsOf(ended)) \in Nat
  BY <1>1, SeatsFinite
<1> QED BY <1>2, <1>4, <1>5 DEF Qtys

-----------------------------------------------------------------------------
(* The states of a partition.                                              *)

\* The capacities a partition can have: one a caller sent, or the default; 0 is
\* a partition not yet used.
KnownSizes == (Capacities \ {0}) \cup {DefaultCapacity}

\* What the invariants say of one partition.
GoodState(st) ==
  /\ st \in PartitionState
  /\ st.cap \in KnownSizes \cup {0}
  /\ ~Exists(st) => st = Blank
  /\ Conserved(st)

\* All of that but the counting: a state with its type, and a partition that was
\* used exists.  Replay keeps this whatever records are missing.
Formed(st) ==
  /\ st \in PartitionState
  /\ ~Exists(st) => st = Blank

LEMMA GoodIsFormed == ASSUME NEW st, GoodState(st) PROVE Formed(st)
BY DEF GoodState, Formed

\* The seats held depend on the table of holds alone.
LEMMA HeldSeatsOfHolds == ASSUME NEW st PROVE HeldSeats(st) = SeatsOf(st.holds)
BY DEF HeldSeats, SeatsOf

\* A partition starts with all its seats available.
LEMMA NewStateIsGood ==
  ASSUME NEW c \in KnownSizes \cup {0}
  PROVE  GoodState(NewPartitionState(c))
<1> DEFINE st == NewPartitionState(c)
<1>1. /\ st \in PartitionState /\ (~Exists(st) => st = Blank)
      /\ st.cap \in KnownSizes \cup {0}
  BY DEF NewPartitionState, PartitionState, Exists, Blank, KnownSizes
<1>2. HeldSeats(st) = {}
  BY DEF HeldSeats, Qtys, NewPartitionState
<1>3. Cardinality(HeldSeats(st)) = 0
  BY <1>2, FS_EmptySet
<1>4. Conserved(st)
  BY <1>3 DEF Conserved, Balanced, NewPartitionState, KnownSizes
<1> QED BY <1>1, <1>4 DEF GoodState

\* A partition that is created on first use is a good one.
LEMMA GetOrInitIsGood ==
  ASSUME NEW st, GoodState(st), NEW c \in Capacities
  PROVE  GoodState(GetOrInit(st, c)) /\ Exists(GetOrInit(st, c))
<1>1. CASE Exists(st)
  BY <1>1 DEF GetOrInit
<1>2. CASE ~Exists(st)
  <2> DEFINE size == IF c > 0 THEN c ELSE DefaultCapacity
  <2>1. size \in KnownSizes /\ size > 0
    BY DEF KnownSizes
  <2>2. GetOrInit(st, c) = NewPartitionState(size)
    BY <1>2 DEF GetOrInit
  <2>3. GoodState(NewPartitionState(size))
    BY <2>1, NewStateIsGood
  <2>4. Exists(NewPartitionState(size))
    BY <2>1 DEF Exists, NewPartitionState
  <2> QED BY <2>2, <2>3, <2>4
<1> QED BY <1>1, <1>2

\* Only a partition that exists has holds.
LEMMA HeldExists ==
  ASSUME NEW st, Formed(st), NEW h \in HoldIDs, Held(st, h)
  PROVE  Exists(st) /\ st.holds[h] \in Qtys
BY DEF Formed, Held, Blank, NewPartitionState, PartitionState, Exists, Qtys

\* A partition that is created on first use has no mutation yet.
LEMMA GetOrInitForms ==
  ASSUME NEW st, Formed(st), NEW c \in Nat
  PROVE  LET st1 == GetOrInit(st, c) IN
         /\ Formed(st1) /\ st1 \in PartitionState /\ Exists(st1)
         /\ st1.seq = st.seq /\ st1.conf = st.conf /\ st1.holds = st.holds
<1>1. CASE Exists(st)
  BY <1>1 DEF GetOrInit, Formed
<1>2. CASE ~Exists(st)
  <2> DEFINE size == IF c > 0 THEN c ELSE DefaultCapacity
  <2>1. size \in Nat /\ size > 0
    OBVIOUS
  <2>2. GetOrInit(st, c) = NewPartitionState(size) /\ st = NewPartitionState(0)
    BY <1>2 DEF GetOrInit, Formed, Blank
  <2> HIDE DEF size
  <2>3. /\ NewPartitionState(size) \in PartitionState
        /\ Exists(NewPartitionState(size))
    BY <2>1 DEF NewPartitionState, PartitionState, Exists
  <2> QED BY <2>2, <2>3 DEF Formed, NewPartitionState
<1> QED BY <1>1, <1>2

\* What the mutations do, field by field.
LEMMA DoHoldEffect ==
  ASSUME NEW st \in PartitionState, NEW h \in HoldIDs, NEW q \in Qtys
  PROVE  LET done == DoHold(st, h, q) IN
         /\ done \in PartitionState
         /\ done.cap = st.cap /\ done.avail = st.avail - q /\ done.conf = st.conf
         /\ done.seq = st.seq + 1 /\ done.holds = [st.holds EXCEPT ![h] = q]
<1>1. /\ st.avail - q \in Int
      /\ [st.holds EXCEPT ![h] = q] \in [HoldIDs -> 0..MaxQty]
      /\ st.seq + 1 \in Nat
  BY DEF PartitionState, Qtys
<1>2. DoHold(st, h, q) \in PartitionState
  BY <1>1, Zenon DEF PartitionState, DoHold
<1> QED BY <1>2 DEF PartitionState, DoHold

\* The same for the end of a hold that is given back ...
LEMMA DoReleaseEffect ==
  ASSUME NEW st \in PartitionState, NEW h \in HoldIDs
  PROVE  LET done == DoRelease(st, h) IN
         /\ done \in PartitionState
         /\ done.cap = st.cap /\ done.avail = st.avail + st.holds[h]
         /\ done.conf = st.conf /\ done.seq = st.seq + 1
         /\ done.holds = [st.holds EXCEPT ![h] = 0]
<1>1. /\ st.avail + st.holds[h] \in Int
      /\ [st.holds EXCEPT ![h] = 0] \in [HoldIDs -> 0..MaxQty]
      /\ st.seq + 1 \in Nat
  BY DEF PartitionState
<1>2. DoRelease(st, h) \in PartitionState
  BY <1>1, Zenon DEF PartitionState, DoRelease
<1> QED BY <1>2 DEF PartitionState, DoRelease

\* ... and of one that is sold.
LEMMA DoConfirmEffect ==
  ASSUME NEW st \in PartitionState, NEW h \in HoldIDs
  PROVE  LET done == DoConfirm(st, h) IN
         /\ done \in PartitionState
         /\ done.cap = st.cap /\ done.avail = st.avail
         /\ done.conf = st.conf + st.holds[h] /\ done.seq = st.seq + 1
         /\ done.holds = [st.holds EXCEPT ![h] = 0]
<1>1. /\ st.conf + st.holds[h] \in Nat
      /\ [st.holds EXCEPT ![h] = 0] \in [HoldIDs -> 0..MaxQty]
      /\ st.seq + 1 \in Nat
  BY DEF PartitionState
<1>2. DoConfirm(st, h) \in PartitionState
  BY <1>1, Zenon DEF PartitionState, DoConfirm
<1> QED BY <1>2 DEF PartitionState, DoConfirm

\* The rollbacks restore the state exactly.
LEMMA SameState ==
  ASSUME NEW st \in PartitionState, NEW t \in PartitionState,
         t.cap = st.cap, t.avail = st.avail, t.conf = st.conf, t.seq = st.seq,
         t.holds = st.holds
  PROVE  t = st
BY DEF PartitionState

\* The rollback of a hold that the queue refused is exact.
LEMMA UndoHoldRestores ==
  ASSUME NEW st \in PartitionState, NEW h \in HoldIDs, ~Held(st, h), NEW q \in Qtys
  PROVE  UndoHold(DoHold(st, h, q), h, q) = st
<1> DEFINE done == DoHold(st, h, q)
<1> DEFINE undone == UndoHold(done, h, q)
<1>1. /\ done \in PartitionState
      /\ done.cap = st.cap /\ done.avail + q = st.avail /\ done.conf = st.conf
      /\ done.seq - 1 = st.seq /\ [done.holds EXCEPT ![h] = 0] = st.holds
  <2>1. /\ done \in PartitionState
        /\ done.cap = st.cap /\ done.avail = st.avail - q /\ done.conf = st.conf
        /\ done.seq = st.seq + 1 /\ done.holds = [st.holds EXCEPT ![h] = q]
    BY DoHoldEffect
  <2> HIDE DEF done
  <2>2. /\ q \in Nat /\ st.avail \in Int /\ st.seq \in Nat
        /\ st.holds \in [HoldIDs -> 0..MaxQty] /\ st.holds[h] = 0
    BY DEF PartitionState, Held, Qtys
  <2>3. [done.holds EXCEPT ![h] = 0] = st.holds
    BY <2>1, <2>2
  <2> QED BY <2>1, <2>2, <2>3
<1> HIDE DEF done
<1>2. undone \in PartitionState
  <2>1. /\ done.avail + q \in Int /\ done.seq - 1 \in Nat
        /\ [done.holds EXCEPT ![h] = 0] \in [HoldIDs -> 0..MaxQty]
    BY <1>1 DEF PartitionState
  <2> QED BY <1>1, <2>1, Zenon DEF PartitionState, UndoHold
<1>3. /\ undone.cap = st.cap /\ undone.avail = st.avail /\ undone.conf = st.conf
      /\ undone.seq = st.seq /\ undone.holds = st.holds
  BY <1>1 DEF PartitionState, UndoHold
<1> HIDE DEF undone
<1>4. undone = st
  BY <1>2, <1>3, SameState
<1> QED BY <1>4 DEF undone, done

\* So is that of a release ...
LEMMA UndoReleaseRestores ==
  ASSUME NEW st \in PartitionState, NEW h \in HoldIDs
  PROVE  UndoRelease(DoRelease(st, h), h, st.holds[h]) = st
<1> DEFINE done == DoRelease(st, h)
<1> DEFINE q == st.holds[h]
<1> DEFINE undone == UndoRelease(done, h, q)
<1>1. /\ done \in PartitionState /\ q \in 0..MaxQty
      /\ done.cap = st.cap /\ done.avail - q = st.avail /\ done.conf = st.conf
      /\ done.seq - 1 = st.seq /\ [done.holds EXCEPT ![h] = q] = st.holds
  <2>1. /\ done \in PartitionState
        /\ done.cap = st.cap /\ done.avail = st.avail + q /\ done.conf = st.conf
        /\ done.seq = st.seq + 1 /\ done.holds = [st.holds EXCEPT ![h] = 0]
    BY DoReleaseEffect
  <2>2. /\ q \in 0..MaxQty /\ st.avail \in Int /\ st.seq \in Nat
        /\ st.holds \in [HoldIDs -> 0..MaxQty] /\ st.holds[h] = q
    BY DEF PartitionState
  <2> HIDE DEF done, q
  <2>3. [done.holds EXCEPT ![h] = q] = st.holds
    BY <2>1, <2>2
  <2> QED BY <2>1, <2>2, <2>3
<1> HIDE DEF done, q
<1>2. undone \in PartitionState
  <2>1. /\ done.avail - q \in Int /\ done.seq - 1 \in Nat
        /\ [done.holds EXCEPT ![h] = q] \in [HoldIDs -> 0..MaxQty]
    BY <1>1 DEF PartitionState
  <2> QED BY <1>1, <2>1, Zenon DEF PartitionState, UndoRelease
<1>3. /\ undone.cap = st.cap /\ undone.avail = st.avail /\ undone.conf = st.conf
      /\ undone.seq = st.seq /\ undone.holds = st.holds
  BY <1>1 DEF PartitionState, UndoRelease
<1> HIDE DEF undone
<1>4. undone = st
  BY <1>2, <1>3, SameState
<1> QED BY <1>4 DEF undone, done, q

\* ... and that of a confirmation.
LEMMA UndoConfirmRestores ==
  ASSUME NEW st \in PartitionState, NEW h \in HoldIDs
  PROVE  UndoConfirm(DoConfirm(st, h), h, st.holds[h]) = st
<1> DEFINE done == DoConfirm(st, h)
<1> DEFINE q == st.holds[h]
<1> DEFINE undone == UndoConfirm(done, h, q)
<1>1. /\ done \in PartitionState /\ q \in 0..MaxQty
      /\ done.cap = st.cap /\ done.avail = st.avail /\ done.conf - q = st.conf
      /\ done.seq - 1 = st.seq /\ [done.holds EXCEPT ![h] = q] = st.holds
  <2>1. /\ done \in PartitionState
        /\ done.cap = st.cap /\ done.avail = st.avail /\ done.conf = st.conf + q
        /\ done.seq = st.seq + 1 /\ done.holds = [st.holds EXCEPT ![h] = 0]
    BY DoConfirmEffect
  <2>2. /\ q \in 0..MaxQty /\ st.conf \in Nat /\ st.seq \in Nat
        /\ st.holds \in [HoldIDs -> 0..MaxQty] /\ st.holds[h] = q
    BY DEF PartitionState
  <2> HIDE DEF done, q
  <2>3. [done.holds EXCEPT ![h] = q] = st.holds
    BY <2>1, <2>2
  <2> QED BY <2>1, <2>2, <2>3
<1> HIDE DEF done, q
<1>2. undone \in PartitionState
  <2>1. /\ done.conf - q \in Nat /\ done.seq - 1 \in Nat
        /\ [done.holds EXCEPT ![h] = q] \in [HoldIDs -> 0..MaxQty]
    BY <1>1 DEF PartitionState
  <2> QED BY <1>1, <2>1, Zenon DEF PartitionState, UndoConfirm
<1>3. /\ undone.cap = st.cap /\ undone.avail = st.avail /\ undone.conf = st.conf
      /\ undone.seq = st.seq /\ undone.holds = st.holds
  BY <1>1 DEF PartitionState, UndoConfirm
<1> HIDE DEF undone
<1>4. undone = st
  BY <1>2, <1>3, SameState
<1> QED BY <1>4 DEF undone, done, q

\* The mutations move seats between what is available, held and confirmed, and
\* count none twice, whether or not there are enough.
LEMMA DoHoldBalances ==
  ASSUME NEW st \in PartitionState, Balanced(st), NEW h \in HoldIDs, ~Held(st, h),
         NEW q \in Qtys
  PROVE  Balanced(DoHold(st, h, q))
<1> DEFINE done == DoHold(st, h, q)
<1>1. /\ st.holds \in [HoldIDs -> 0..MaxQty] /\ st.holds[h] = 0
      /\ q \in Nat /\ st.avail \in Int /\ st.conf \in Nat /\ st.cap \in Nat
  BY DEF PartitionState, Held, Qtys
<1>2. /\ done.cap = st.cap /\ done.avail = st.avail - q /\ done.conf = st.conf
      /\ done.holds = [st.holds EXCEPT ![h] = q]
  BY DoHoldEffect
<1>3. Cardinality(HeldSeats(done)) = Cardinality(HeldSeats(st)) + q
  BY <1>1, <1>2, SeatsOfHold, HeldSeatsOfHolds
<1>4. Cardinality(HeldSeats(st)) \in Nat
  BY <1>1, SeatsFinite, HeldSeatsOfHolds
<1> QED BY <1>1, <1>2, <1>3, <1>4 DEF Balanced

LEMMA DoReleaseBalances ==
  ASSUME NEW st \in PartitionState, Balanced(st), NEW h \in HoldIDs, Held(st, h)
  PROVE  Balanced(DoRelease(st, h))
<1> DEFINE done == DoRelease(st, h)
<1>1. /\ st.holds \in [HoldIDs -> 0..MaxQty] /\ st.holds[h] > 0 /\ st.holds[h] \in Nat
      /\ st.avail \in Int /\ st.conf \in Nat /\ st.cap \in Nat
  BY DEF PartitionState, Held
<1>2. /\ done.cap = st.cap /\ done.avail = st.avail + st.holds[h] /\ done.conf = st.conf
      /\ done.holds = [st.holds EXCEPT ![h] = 0]
  BY DoReleaseEffect
<1>3. Cardinality(HeldSeats(done)) = Cardinality(HeldSeats(st)) - st.holds[h]
  BY <1>1, <1>2, SeatsOfEndedHold, HeldSeatsOfHolds
<1>4. Cardinality(HeldSeats(st)) \in Nat
  BY <1>1, SeatsFinite, HeldSeatsOfHolds
<1> QED BY <1>1, <1>2, <1>3, <1>4 DEF Balanced

LEMMA DoConfirmBalances ==
  ASSUME NEW st \in PartitionState, Balanced(st), NEW h \in HoldIDs, Held(st, h)
  PROVE  Balanced(DoConfirm(st, h))
<1> DEFINE done == DoConfirm(st, h)
<1>1. /\ st.holds \in [HoldIDs -> 0..MaxQty] /\ st.holds[h] > 0 /\ st.holds[h] \in Nat
      /\ st.avail \in Int /\ st.conf \in Nat /\ st.cap \in Nat
  BY DEF PartitionState, Held
<1>2. /\ done.cap = st.cap /\ done.avail = st.avail /\ done.conf = st.conf + st.holds[h]
      /\ done.holds = [st.holds EXCEPT ![h] = 0]
  BY DoConfirmEffect
<1>3. Cardinality(HeldSeats(done)) = Cardinality(HeldSeats(st)) - st.holds[h]
  BY <1>1, <1>2, SeatsOfEndedHold, HeldSeatsOfHolds
<1>4. Cardinality(HeldSeats(st)) \in Nat
  BY <1>1, SeatsFinite, HeldSeatsOfHolds
<1> QED BY <1>1, <1>2, <1>3, <1>4 DEF Balanced

\* A granted hold promises no more than there is ...
LEMMA DoHoldIsGood ==
  ASSUME NEW st, GoodState(st), Exists(st), NEW h \in HoldIDs, ~Held(st, h),
         NEW q \in Qtys, ~InsufficientStock(st, q)
  PROVE  GoodState(DoHold(st, h, q)) /\ Exists(DoHold(st, h, q))
<1> DEFINE done == DoHold(st, h, q)
<1>1. /\ st \in PartitionState /\ Balanced(st)
      /\ q \in Nat /\ st.avail \in Int
  BY DEF GoodState, Conserved, PartitionState, Qtys
<1>2. /\ done \in PartitionState
      /\ done.cap = st.cap /\ done.avail = st.avail - q
  BY <1>1, DoHoldEffect
<1>3. Conserved(done)
  BY <1>1, <1>2, DoHoldBalances DEF Conserved, InsufficientStock
<1>4. Exists(done)
  BY <1>2 DEF Exists
<1> QED BY <1>2, <1>3, <1>4 DEF GoodState

\* ... and ending a hold takes nothing from what is available.
LEMMA DoReleaseIsGood ==
  ASSUME NEW st, GoodState(st), NEW h \in HoldIDs, Held(st, h)
  PROVE  GoodState(DoRelease(st, h)) /\ Exists(DoRelease(st, h))
<1> DEFINE done == DoRelease(st, h)
<1>1. /\ st \in PartitionState /\ Balanced(st)
      /\ st.holds[h] \in Nat /\ st.avail \in Int /\ st.avail >= 0
  BY DEF GoodState, Conserved, PartitionState
<1>2. /\ done \in PartitionState
      /\ done.cap = st.cap /\ done.avail = st.avail + st.holds[h]
  BY <1>1, DoReleaseEffect
<1>3. Conserved(done)
  BY <1>1, <1>2, DoReleaseBalances DEF Conserved
<1>4. Exists(done)
  BY <1>2, HeldExists, GoodIsFormed DEF Exists
<1> QED BY <1>2, <1>3, <1>4 DEF GoodState

LEMMA DoConfirmIsGood ==
  ASSUME NEW st, GoodState(st), NEW h \in HoldIDs, Held(st, h)
  PROVE  GoodState(DoConfirm(st, h)) /\ Exists(DoConfirm(st, h))
<1> DEFINE done == DoConfirm(st, h)
<1>1. st \in PartitionState /\ Balanced(st) /\ st.avail >= 0
  BY DEF GoodState, Conserved
<1>2. /\ done \in PartitionState
      /\ done.cap = st.cap /\ done.avail = st.avail
  BY <1>1, DoConfirmEffect
<1>3. Conserved(done)
  BY <1>1, <1>2, DoConfirmBalances DEF Conserved
<1>4. Exists(done)
  BY <1>2, HeldExists, GoodIsFormed DEF Exists
<1> QED BY <1>2, <1>3, <1>4 DEF GoodState

-----------------------------------------------------------------------------
(* The invariant.                                                          *)

\* The inductive invariant, said partition by partition: TypeOK and
\* SeatsConserved, and that every capacity is a known one.
SafeState ==
  /\ part = [k \in Keys |-> part[k]]
  /\ \A k \in Keys : GoodState(part[k])
  /\ walQueue \in Seq(MutationRecord)

\* The invariant gives the two properties.
LEMMA SafeStateImplies == SafeState => TypeOK /\ SeatsConserved
BY DEF SafeState, GoodState, TypeOK, SeatsConserved

\* No partition exists at first.
LEMMA InitIsSafe == Init => SafeState
<1> SUFFICES ASSUME Init PROVE SafeState
  OBVIOUS
<1>1. GoodState(Blank)
  BY NewStateIsGood DEF Blank
<1>2. walQueue \in Seq(MutationRecord)
  BY DEF Init
<1> QED BY <1>1, <1>2 DEF Init, SafeState

\* A good partition in place of another leaves all of them good.
LEMMA UpdateIsSafe ==
  ASSUME SafeState, NEW k \in Keys, NEW st, GoodState(st),
         part' = [part EXCEPT ![k] = st], walQueue' \in Seq(MutationRecord)
  PROVE  SafeState'
<1>1. \A j \in Keys : GoodState(part'[j])
  BY DEF SafeState
<1>2. part' = [j \in Keys |-> part'[j]]
  BY DEF SafeState
<1>3. \A j \in Keys : GoodState(part[j])'
  BY <1>1 DEF GoodState
<1> QED BY <1>2, <1>3 DEF SafeState

\* Whether or not the queue accepts the record, the partition stays good.
LEMMA SendOrUndoIsSafe ==
  ASSUME SafeState, NEW k \in Keys, NEW done, NEW undone, NEW type \in EventTypes,
         NEW h \in HoldIDs, NEW q \in Qtys, NEW c \in Nat,
         GoodState(done), done.seq # 0, GoodState(undone),
         SendOrUndo(k, done, undone, type, h, q, c)
  PROVE  SafeState'
<1>1. CASE ~QueueFull
  <2> DEFINE r == [key |-> k, seq |-> done.seq, type |-> type,
                   hold |-> h, qty |-> q, cap |-> c]
  <2>1. r \in MutationRecord
    BY DEF MutationRecord, GoodState, PartitionState
  <2>2. walQueue' = Append(walQueue, r) /\ part' = [part EXCEPT ![k] = done]
    BY <1>1 DEF SendOrUndo
  <2>3. walQueue' \in Seq(MutationRecord)
    BY <2>1, <2>2 DEF SafeState
  <2> QED BY <2>2, <2>3, UpdateIsSafe
<1>2. CASE QueueFull
  <2>1. walQueue' = walQueue /\ part' = [part EXCEPT ![k] = undone]
    BY <1>2 DEF SendOrUndo
  <2>2. walQueue' \in Seq(MutationRecord)
    BY <2>1 DEF SafeState
  <2> QED BY <2>1, <2>2, UpdateIsSafe
<1> QED BY <1>1, <1>2

\* One lemma per command and branch: a hold that is accepted or undone,
LEMMA TryHoldIsSafe ==
  ASSUME SafeState, NEW k \in Keys, NEW h \in HoldIDs, NEW q \in Qtys,
         NEW c \in Capacities, TryHold(k, h, q, c)
  PROVE  SafeState'
<1> DEFINE st == GetOrInit(part[k], c)
<1>1. GoodState(st) /\ Exists(st)
  BY GetOrInitIsGood DEF SafeState
<1>2. /\ ~InsufficientStock(st, q) /\ ~Held(st, h)
      /\ SendOrUndo(k, DoHold(st, h, q), UndoHold(DoHold(st, h, q), h, q),
                    "hold_created", h, q, st.cap)
  BY DEF TryHold
<1> HIDE DEF st
<1>3. st \in PartitionState /\ st.cap \in Nat /\ st.seq \in Nat
  BY <1>1 DEF GoodState, PartitionState
<1>4. GoodState(DoHold(st, h, q)) /\ DoHold(st, h, q).seq # 0
  <2>1. GoodState(DoHold(st, h, q))
    BY <1>1, <1>2, <1>3, DoHoldIsGood
  <2>2. DoHold(st, h, q).seq = st.seq + 1
    BY <1>3, DoHoldEffect
  <2> QED BY <2>1, <2>2, <1>3
<1>5. GoodState(UndoHold(DoHold(st, h, q), h, q))
  BY <1>1, <1>2, <1>3, UndoHoldRestores
<1> QED BY <1>2, <1>3, <1>4, <1>5, SendOrUndoIsSafe DEF EventTypes

\* a hold that is refused, which may create the partition,
LEMMA TryHoldRefusedIsSafe ==
  ASSUME SafeState, NEW k \in Keys, NEW h \in HoldIDs, NEW q \in Qtys,
         NEW c \in Capacities, TryHoldRefused(k, h, q, c)
  PROVE  SafeState'
<1>1. GoodState(GetOrInit(part[k], c))
  BY GetOrInitIsGood DEF SafeState
<1>2. walQueue' \in Seq(MutationRecord)
  BY DEF TryHoldRefused, SafeState
<1> QED BY <1>1, <1>2, UpdateIsSafe DEF TryHoldRefused

\* a release,
LEMMA ReleaseHoldIsSafe ==
  ASSUME SafeState, NEW k \in Keys, NEW h \in HoldIDs, ReleaseHold(k, h)
  PROVE  SafeState'
<1> DEFINE st == part[k]
<1>1. /\ Held(st, h)
      /\ SendOrUndo(k, DoRelease(st, h), UndoRelease(DoRelease(st, h), h, st.holds[h]),
                    "hold_released", h, st.holds[h], 0)
  BY DEF ReleaseHold
<1>2. GoodState(st)
  BY DEF SafeState
<1> HIDE DEF st
<1>3. st \in PartitionState /\ st.seq \in Nat /\ st.holds[h] \in Qtys
  BY <1>1, <1>2, HeldExists, GoodIsFormed DEF GoodState, PartitionState
<1>4. GoodState(DoRelease(st, h)) /\ DoRelease(st, h).seq # 0
  <2>1. GoodState(DoRelease(st, h))
    BY <1>1, <1>2, <1>3, DoReleaseIsGood
  <2>2. DoRelease(st, h).seq = st.seq + 1
    BY <1>3, DoReleaseEffect
  <2> QED BY <2>1, <2>2, <1>3
<1>5. GoodState(UndoRelease(DoRelease(st, h), h, st.holds[h]))
  BY <1>2, <1>3, UndoReleaseRestores
<1> QED BY <1>1, <1>3, <1>4, <1>5, SendOrUndoIsSafe DEF EventTypes

\* a confirmation,
LEMMA ConfirmHoldIsSafe ==
  ASSUME SafeState, NEW k \in Keys, NEW h \in HoldIDs, ConfirmHold(k, h)
  PROVE  SafeState'
<1> DEFINE st == part[k]
<1>1. /\ Held(st, h)
      /\ SendOrUndo(k, DoConfirm(st, h), UndoConfirm(DoConfirm(st, h), h, st.holds[h]),
                    "hold_confirmed", h, st.holds[h], 0)
  BY DEF ConfirmHold
<1>2. GoodState(st)
  BY DEF SafeState
<1> HIDE DEF st
<1>3. st \in PartitionState /\ st.seq \in Nat /\ st.holds[h] \in Qtys
  BY <1>1, <1>2, HeldExists, GoodIsFormed DEF GoodState, PartitionState
<1>4. GoodState(DoConfirm(st, h)) /\ DoConfirm(st, h).seq # 0
  <2>1. GoodState(DoConfirm(st, h))
    BY <1>1, <1>2, <1>3, DoConfirmIsGood
  <2>2. DoConfirm(st, h).seq = st.seq + 1
    BY <1>3, DoConfirmEffect
  <2> QED BY <2>1, <2>2, <1>3
<1>5. GoodState(UndoConfirm(DoConfirm(st, h), h, st.holds[h]))
  BY <1>2, <1>3, UndoConfirmRestores
<1> QED BY <1>1, <1>3, <1>4, <1>5, SendOrUndoIsSafe DEF EventTypes

\* and the reader of the queue, which leaves the partitions alone.
LEMMA TakeRecordIsSafe == ASSUME SafeState, TakeRecord PROVE SafeState'
<1>1. walQueue' \in Seq(MutationRecord)
  BY DEF SafeState, TakeRecord
<1> QED BY <1>1 DEF SafeState, GoodState, TakeRecord

\* So every step keeps the invariant ...
LEMMA NextIsSafe == SafeState /\ [Next]_managerVars => SafeState'
<1> SUFFICES ASSUME SafeState, [Next]_managerVars PROVE SafeState'
  OBVIOUS
<1>1. ASSUME NEW k \in Keys, NEW h \in HoldIDs, NEW q \in Qtys, NEW c \in Capacities,
             TryHold(k, h, q, c)
      PROVE  SafeState'
  BY <1>1, TryHoldIsSafe
<1>2. ASSUME NEW k \in Keys, NEW h \in HoldIDs, NEW q \in Qtys, NEW c \in Capacities,
             TryHoldRefused(k, h, q, c)
      PROVE  SafeState'
  BY <1>2, TryHoldRefusedIsSafe
<1>3. ASSUME NEW k \in Keys, NEW h \in HoldIDs, ReleaseHold(k, h)
      PROVE  SafeState'
  BY <1>3, ReleaseHoldIsSafe
<1>4. ASSUME NEW k \in Keys, NEW h \in HoldIDs, ConfirmHold(k, h)
      PROVE  SafeState'
  BY <1>4, ConfirmHoldIsSafe
<1>5. CASE TakeRecord
  BY <1>5, TakeRecordIsSafe
<1>6. CASE UNCHANGED managerVars
  BY <1>6 DEF managerVars, SafeState, GoodState
<1> QED BY <1>1, <1>2, <1>3, <1>4, <1>5, <1>6 DEF Next, Command

\* ... and it always holds.
LEMMA AlwaysSafe == Spec => []SafeState
BY InitIsSafe, NextIsSafe, PTL DEF Spec

\* The memory of the manager and its queue keep their types.
THEOREM TypeCorrect == Spec => []TypeOK
BY AlwaysSafe, SafeStateImplies, PTL

\* No partition is ever oversold and no seat is lost, whatever the callers ask
\* and however often the queue is full.
THEOREM SeatsAreConserved == Spec => []SeatsConserved
BY AlwaysSafe, SafeStateImplies, PTL

-----------------------------------------------------------------------------
(* The manager implements the stock ledger.                                *)

\* What the ledger sees of one partition.
View(st) == [cap |-> st.cap, used |-> st.cap - st.avail, sold |-> st.conf]

\* A change of one partition is a change of one stock of the ledger.
LEMMA ViewOfUpdate ==
  ASSUME SafeState, NEW k \in Keys, NEW st, part' = [part EXCEPT ![k] = st]
  PROVE  LedgerView' = [LedgerView EXCEPT ![k] = View(st)]
BY DEF SafeState, LedgerView, View

\* A mutation that was undone is not seen in the ledger.
LEMMA ViewUnchanged ==
  ASSUME SafeState, NEW k \in Keys, part' = [part EXCEPT ![k] = part[k]]
  PROVE  LedgerView' = LedgerView
<1>1. part' = part
  BY DEF SafeState
<1> QED BY <1>1 DEF LedgerView

\* A partition that comes into being is opened.
LEMMA CreationOpens ==
  ASSUME SafeState, NEW k \in Keys, NEW c \in Capacities,
         part' = [part EXCEPT ![k] = GetOrInit(part[k], c)]
  PROVE  Ledger!Next \/ UNCHANGED LedgerView
<1>1. CASE Exists(part[k])
  BY <1>1, ViewUnchanged DEF GetOrInit
<1>2. CASE ~Exists(part[k])
  <2> DEFINE size == IF c > 0 THEN c ELSE DefaultCapacity
  <2>1. size \in KnownSizes
    BY DEF KnownSizes
  <2>2. GetOrInit(part[k], c) = NewPartitionState(size)
    BY <1>2 DEF GetOrInit
  <2>3. LedgerView' = [LedgerView EXCEPT ![k] = View(NewPartitionState(size))]
    BY <2>2, ViewOfUpdate
  <2>4. View(NewPartitionState(size)) = [cap |-> size, used |-> 0, sold |-> 0]
    BY <2>1 DEF View, NewPartitionState, KnownSizes
  <2>5. LedgerView[k].cap = 0
    BY <1>2 DEF SafeState, GoodState, Blank, NewPartitionState, LedgerView
  <2>6. Ledger!Open(k, size)
    BY <2>3, <2>4, <2>5 DEF Ledger!Open
  <2> QED BY <2>1, <2>6 DEF Ledger!Next, KnownSizes
<1> QED BY <1>1, <1>2

\* A hold takes seats of the ledger, or opens the stock, or is not seen.
LEMMA TryHoldTakes ==
  ASSUME SafeState, NEW k \in Keys, NEW h \in HoldIDs, NEW q \in Qtys,
         NEW c \in Capacities, TryHold(k, h, q, c)
  PROVE  Ledger!Next \/ UNCHANGED LedgerView
<1> DEFINE st == GetOrInit(part[k], c)
<1>1. /\ GoodState(st) /\ Exists(st)
      /\ st \in PartitionState
      /\ st.cap \in Nat /\ st.avail \in Int /\ st.conf \in Nat
      /\ q \in Nat
  <2>1. GoodState(part[k])
    BY DEF SafeState
  <2>2. GoodState(st) /\ Exists(st)
    BY <2>1, GetOrInitIsGood
  <2> HIDE DEF st
  <2>3. st \in PartitionState
    BY <2>2 DEF GoodState
  <2>4. st.cap \in Nat /\ st.avail \in Int /\ st.conf \in Nat
    BY <2>3 DEF PartitionState
  <2>5. q \in Nat
    BY DEF Qtys
  <2> QED BY <2>2, <2>3, <2>4, <2>5
<1>2. ~InsufficientStock(st, q) /\ ~Held(st, h)
  BY DEF TryHold
<1>3. CASE QueueFull
  <2>1. part' = [part EXCEPT ![k] = UndoHold(DoHold(st, h, q), h, q)]
    BY <1>3 DEF TryHold, SendOrUndo
  <2>2. part' = [part EXCEPT ![k] = st]
    BY <1>1, <1>2, <2>1, UndoHoldRestores
  <2> QED BY <2>2, CreationOpens
<1>4. CASE ~QueueFull
  <2> DEFINE done == DoHold(st, h, q)
  <2>1. part' = [part EXCEPT ![k] = done]
    BY <1>4 DEF TryHold, SendOrUndo
  <2>2. /\ done.cap = st.cap /\ done.avail = st.avail - q /\ done.conf = st.conf
    BY <1>1, DoHoldEffect
  <2>3. LedgerView' = [LedgerView EXCEPT ![k] = View(done)]
    BY <2>1, ViewOfUpdate
  <2>4. /\ st.cap \in KnownSizes
        /\ st.cap = LedgerView[k].cap \/ LedgerView[k].cap = 0
        /\ LedgerView[k].used = st.cap - st.avail
        /\ LedgerView[k].sold = st.conf
        /\ LedgerView[k] = [cap |-> LedgerView[k].cap, used |-> LedgerView[k].used,
                            sold |-> LedgerView[k].sold]
    BY <1>1 DEF SafeState, GoodState, LedgerView, GetOrInit, Exists, Blank,
                NewPartitionState, PartitionState
  <2> HIDE DEF done, st
  <2>5. View(done) = [cap |-> st.cap, used |-> LedgerView[k].used + q,
                      sold |-> LedgerView[k].sold]
    BY <1>1, <2>2, <2>4 DEF View
  <2>6. LedgerView[k].used + q <= st.cap
    BY <1>1, <1>2, <2>4 DEF InsufficientStock
  <2>7. Ledger!Take(k, st.cap, q)
    BY <2>3, <2>4, <2>5, <2>6 DEF Ledger!Take
  <2> QED BY <2>4, <2>7 DEF Ledger!Next, KnownSizes, Qtys
<1> QED BY <1>3, <1>4

\* A release gives seats back, or is not seen.
LEMMA ReleaseHoldGivesBack ==
  ASSUME SafeState, NEW k \in Keys, NEW h \in HoldIDs, ReleaseHold(k, h)
  PROVE  Ledger!Next \/ UNCHANGED LedgerView
<1> DEFINE st == part[k]
<1> DEFINE q == st.holds[h]
<1> DEFINE done == DoRelease(st, h)
<1>1. /\ GoodState(st) /\ st \in PartitionState /\ Held(st, h) /\ q \in Qtys /\ q \in Nat
      /\ st.cap \in Nat /\ st.avail \in Int /\ st.conf \in Nat
  <2>1. GoodState(st) /\ Held(st, h)
    BY DEF SafeState, ReleaseHold
  <2> HIDE DEF st
  <2>2. q \in Qtys
    BY <2>1, HeldExists, GoodIsFormed
  <2> QED BY <2>1, <2>2 DEF GoodState, PartitionState, Qtys
<1>2. CASE QueueFull
  <2>1. part' = [part EXCEPT ![k] = UndoRelease(done, h, q)]
    BY <1>2 DEF ReleaseHold, SendOrUndo
  <2>2. part' = [part EXCEPT ![k] = st]
    BY <1>1, <2>1, UndoReleaseRestores
  <2> QED BY <2>2, ViewUnchanged
<1>3. CASE ~QueueFull
  <2>1. part' = [part EXCEPT ![k] = done]
    BY <1>3 DEF ReleaseHold, SendOrUndo
  <2>2. /\ done.cap = st.cap /\ done.avail = st.avail + q /\ done.conf = st.conf
    BY <1>1, DoReleaseEffect
  <2>3. LedgerView' = [LedgerView EXCEPT ![k] = View(done)]
    BY <2>1, ViewOfUpdate
  <2>4. LedgerView[k] = [cap |-> st.cap, used |-> st.cap - st.avail, sold |-> st.conf]
    BY DEF LedgerView
  <2>5. /\ GoodState(done) /\ done \in PartitionState
        /\ Cardinality(HeldSeats(done)) \in Nat
    BY <1>1, DoReleaseIsGood, SeatsFinite, HeldSeatsOfHolds DEF GoodState, PartitionState
  <2> HIDE DEF done, q, st
  <2>6. View(done) = [LedgerView[k] EXCEPT !.used = @ - q]
    BY <1>1, <2>2, <2>4 DEF View
  <2>7. LedgerView[k].sold + q <= LedgerView[k].used
    BY <1>1, <2>2, <2>4, <2>5 DEF GoodState, Conserved, Balanced
  <2>8. Ledger!GiveBack(k, q)
    BY <2>3, <2>6, <2>7 DEF Ledger!GiveBack
  <2> QED BY <1>1, <2>8 DEF Ledger!Next, Qtys
<1> QED BY <1>2, <1>3

\* A confirmation sells seats that were taken, or is not seen.
LEMMA ConfirmHoldSells ==
  ASSUME SafeState, NEW k \in Keys, NEW h \in HoldIDs, ConfirmHold(k, h)
  PROVE  Ledger!Next \/ UNCHANGED LedgerView
<1> DEFINE st == part[k]
<1> DEFINE q == st.holds[h]
<1> DEFINE done == DoConfirm(st, h)
<1>1. /\ GoodState(st) /\ st \in PartitionState /\ Held(st, h) /\ q \in Qtys /\ q \in Nat
      /\ st.cap \in Nat /\ st.avail \in Int /\ st.conf \in Nat
  <2>1. GoodState(st) /\ Held(st, h)
    BY DEF SafeState, ConfirmHold
  <2> HIDE DEF st
  <2>2. q \in Qtys
    BY <2>1, HeldExists, GoodIsFormed
  <2> QED BY <2>1, <2>2 DEF GoodState, PartitionState, Qtys
<1>2. CASE QueueFull
  <2>1. part' = [part EXCEPT ![k] = UndoConfirm(done, h, q)]
    BY <1>2 DEF ConfirmHold, SendOrUndo
  <2>2. part' = [part EXCEPT ![k] = st]
    BY <1>1, <2>1, UndoConfirmRestores
  <2> QED BY <2>2, ViewUnchanged
<1>3. CASE ~QueueFull
  <2>1. part' = [part EXCEPT ![k] = done]
    BY <1>3 DEF ConfirmHold, SendOrUndo
  <2>2. /\ done.cap = st.cap /\ done.avail = st.avail /\ done.conf = st.conf + q
    BY <1>1, DoConfirmEffect
  <2>3. LedgerView' = [LedgerView EXCEPT ![k] = View(done)]
    BY <2>1, ViewOfUpdate
  <2>4. LedgerView[k] = [cap |-> st.cap, used |-> st.cap - st.avail, sold |-> st.conf]
    BY DEF LedgerView
  <2>5. /\ GoodState(done) /\ done \in PartitionState
        /\ Cardinality(HeldSeats(done)) \in Nat
    BY <1>1, DoConfirmIsGood, SeatsFinite, HeldSeatsOfHolds DEF GoodState, PartitionState
  <2> HIDE DEF done, q, st
  <2>6. View(done) = [LedgerView[k] EXCEPT !.sold = @ + q]
    BY <1>1, <2>2, <2>4 DEF View
  <2>7. LedgerView[k].sold + q <= LedgerView[k].used
    BY <1>1, <2>2, <2>4, <2>5 DEF GoodState, Conserved, Balanced
  <2>8. Ledger!Sell(k, q)
    BY <2>3, <2>6, <2>7 DEF Ledger!Sell
  <2> QED BY <1>1, <2>8 DEF Ledger!Next, Qtys
<1> QED BY <1>2, <1>3

\* So every step is a step of the ledger or a stutter.
LEMMA NextIsLedgerStep ==
  SafeState /\ [Next]_managerVars => [Ledger!Next]_LedgerView
<1> SUFFICES ASSUME SafeState, [Next]_managerVars
             PROVE  Ledger!Next \/ UNCHANGED LedgerView
  OBVIOUS
<1>1. ASSUME NEW k \in Keys, NEW h \in HoldIDs, NEW q \in Qtys, NEW c \in Capacities,
             TryHold(k, h, q, c)
      PROVE  Ledger!Next \/ UNCHANGED LedgerView
  BY <1>1, TryHoldTakes
<1>2. ASSUME NEW k \in Keys, NEW h \in HoldIDs, NEW q \in Qtys, NEW c \in Capacities,
             TryHoldRefused(k, h, q, c)
      PROVE  Ledger!Next \/ UNCHANGED LedgerView
  BY <1>2, CreationOpens DEF TryHoldRefused
<1>3. ASSUME NEW k \in Keys, NEW h \in HoldIDs, ReleaseHold(k, h)
      PROVE  Ledger!Next \/ UNCHANGED LedgerView
  BY <1>3, ReleaseHoldGivesBack
<1>4. ASSUME NEW k \in Keys, NEW h \in HoldIDs, ConfirmHold(k, h)
      PROVE  Ledger!Next \/ UNCHANGED LedgerView
  BY <1>4, ConfirmHoldSells
<1>5. CASE TakeRecord
  BY <1>5 DEF TakeRecord, LedgerView
<1>6. CASE UNCHANGED managerVars
  BY <1>6 DEF managerVars, LedgerView
<1> QED BY <1>1, <1>2, <1>3, <1>4, <1>5, <1>6 DEF Next, Command

\* The ledger starts empty as the manager does.
LEMMA InitIsLedgerInit == Init => Ledger!Init
BY DEF Init, Ledger!Init, LedgerView, Blank, NewPartitionState

\* The partition manager implements the stock ledger: whatever the shards do,
\* an observer of capacity, taken and sold seats sees takes, returns and sales.
THEOREM ImplementsLedger == Spec => LedgerSpec
BY AlwaysSafe, InitIsLedgerInit, NextIsLedgerStep, PTL DEF Spec, LedgerSpec, Ledger!Spec

-----------------------------------------------------------------------------
(* Every change is recorded, and the record can be replayed.               *)

\* Replay sets the number of the record, which is the one it has.
LEMMA SetSeqIsIdentity ==
  ASSUME NEW st \in PartitionState
  PROVE  [st EXCEPT !.seq = st.seq] = st
BY DEF PartitionState

\* Replaying the record of a hold does what the hold did, creation of the
\* partition included.
LEMMA ReplayedHold ==
  ASSUME NEW st0, Formed(st0), NEW c \in Nat, NEW h \in HoldIDs, NEW q \in Qtys,
         ~Held(GetOrInit(st0, c), h), NEW r,
         r.type = "hold_created", r.hold = h, r.qty = q, r.cap = GetOrInit(st0, c).cap,
         r.seq = DoHold(GetOrInit(st0, c), h, q).seq
  PROVE  ApplyRecovered(st0, r) = DoHold(GetOrInit(st0, c), h, q)
<1> DEFINE st == GetOrInit(st0, c)
<1>1. Exists(st) /\ st \in PartitionState /\ st.seq \in Nat
  BY GetOrInitForms DEF PartitionState
<1>2. GetOrInit(st0, r.cap) = st
  <2>1. CASE Exists(st0)
    BY <2>1 DEF GetOrInit
  <2>2. CASE ~Exists(st0)
    BY <2>2, <1>1 DEF GetOrInit, NewPartitionState, Exists
  <2> QED BY <2>1, <2>2
<1>3. ~Held(st, r.hold)
  OBVIOUS
<1> HIDE DEF st
<1>4. DoHold(st, h, q) \in PartitionState /\ DoHold(st, h, q).seq = st.seq + 1
  BY <1>1, DoHoldEffect
<1>5. r.seq = DoHold(st, h, q).seq
  BY DEF st
<1>6. ~(r.seq <= st.seq)
  BY <1>1, <1>4, <1>5
<1>7. ApplyRecovered(st0, r) = [DoHold(st, r.hold, r.qty) EXCEPT !.seq = r.seq]
  BY <1>2, <1>3, <1>6 DEF ApplyRecovered
<1>8. ApplyRecovered(st0, r) = DoHold(st, h, q)
  BY <1>4, <1>5, <1>7, SetSeqIsIdentity
<1> QED BY <1>8 DEF st

\* The same for the record of a release ...
LEMMA ReplayedRelease ==
  ASSUME NEW st, Formed(st), NEW h \in HoldIDs, Held(st, h), NEW r,
         r.type = "hold_released", r.hold = h, r.seq = DoRelease(st, h).seq
  PROVE  ApplyRecovered(st, r) = DoRelease(st, h)
<1>1. st \in PartitionState /\ st.seq \in Nat
  BY DEF Formed, PartitionState
<1>2. GetOrInit(st, r.cap) = st
  BY HeldExists DEF GetOrInit
<1>3. DoRelease(st, h) \in PartitionState /\ DoRelease(st, h).seq = st.seq + 1
  BY <1>1, DoReleaseEffect
<1>4. ~(r.seq <= st.seq)
  BY <1>1, <1>3
<1>5. ApplyRecovered(st, r) = [DoRelease(st, r.hold) EXCEPT !.seq = r.seq]
  BY <1>2, <1>4 DEF ApplyRecovered
<1> QED BY <1>3, <1>5, SetSeqIsIdentity

\* ... and of a confirmation.
LEMMA ReplayedConfirm ==
  ASSUME NEW st, Formed(st), NEW h \in HoldIDs, Held(st, h), NEW r,
         r.type = "hold_confirmed", r.hold = h, r.seq = DoConfirm(st, h).seq
  PROVE  ApplyRecovered(st, r) = DoConfirm(st, h)
<1>1. st \in PartitionState /\ st.seq \in Nat
  BY DEF Formed, PartitionState
<1>2. GetOrInit(st, r.cap) = st
  BY HeldExists DEF GetOrInit
<1>3. DoConfirm(st, h) \in PartitionState /\ DoConfirm(st, h).seq = st.seq + 1
  BY <1>1, DoConfirmEffect
<1>4. ~(r.seq <= st.seq)
  BY <1>1, <1>3
<1>5. ApplyRecovered(st, r) = [DoConfirm(st, r.hold) EXCEPT !.seq = r.seq]
  BY <1>2, <1>4 DEF ApplyRecovered
<1> QED BY <1>3, <1>5, SetSeqIsIdentity

\* A mutation is recorded if its record can be replayed, and a rollback changes
\* no seats.
LEMMA SendOrUndoIsRecorded ==
  ASSUME SafeState, NEW k \in Keys, NEW done, NEW undone, NEW type \in EventTypes,
         NEW h \in HoldIDs, NEW q \in Qtys, NEW c \in Nat,
         undone.holds = part[k].holds, undone.conf = part[k].conf,
         undone.seq = part[k].seq,
         ApplyRecovered(part[k], [key |-> k, seq |-> done.seq, type |-> type,
                                  hold |-> h, qty |-> q, cap |-> c]) = done,
         SendOrUndo(k, done, undone, type, h, q, c),
         NEW j \in Keys, SeatsChanged(j)
  PROVE  Recorded(j)
<1> DEFINE r == [key |-> k, seq |-> done.seq, type |-> type,
                 hold |-> h, qty |-> q, cap |-> c]
<1>1. CASE ~QueueFull
  <2>1. walQueue' = Append(walQueue, r) /\ part' = [part EXCEPT ![k] = done]
    BY <1>1 DEF SendOrUndo
  <2>2. j = k
    BY <2>1 DEF SafeState, SeatsChanged
  <2>3. part'[j] = done
    BY <2>1, <2>2 DEF SafeState
  <2> HIDE DEF r
  <2>4. /\ Len(walQueue') = Len(walQueue) + 1
        /\ walQueue'[Len(walQueue')] = r
        /\ SubSeq(walQueue', 1, Len(walQueue)) = walQueue
    BY <2>1 DEF SafeState
  <2>5. ApplyRecovered(part[j], walQueue'[Len(walQueue')]) = done
    BY <2>2, <2>4 DEF r
  <2> QED BY <2>3, <2>4, <2>5 DEF Recorded
<1>2. CASE QueueFull
  <2>1. part' = [part EXCEPT ![k] = undone]
    BY <1>2 DEF SendOrUndo
  <2>2. ~SeatsChanged(j)
    BY <2>1 DEF SafeState, SeatsChanged
  <2> QED BY <2>2
<1> QED BY <1>1, <1>2

\* One lemma per command: seats that a hold moved are recorded,
LEMMA TryHoldIsRecorded ==
  ASSUME SafeState, NEW k \in Keys, NEW h \in HoldIDs, NEW q \in Qtys,
         NEW c \in Capacities, TryHold(k, h, q, c),
         NEW j \in Keys, SeatsChanged(j)
  PROVE  Recorded(j)
<1> DEFINE st == GetOrInit(part[k], c)
<1> DEFINE done == DoHold(st, h, q)
<1> DEFINE undone == UndoHold(done, h, q)
<1>1. /\ GoodState(part[k]) /\ GoodState(st) /\ st \in PartitionState /\ st.cap \in Nat
  BY GetOrInitIsGood DEF SafeState, GoodState, PartitionState
<1>2. ~Held(st, h) /\ SendOrUndo(k, done, undone, "hold_created", h, q, st.cap)
  BY DEF TryHold
<1>3. undone = st
  BY <1>1, <1>2, UndoHoldRestores
<1>4. st.holds = part[k].holds /\ st.conf = part[k].conf /\ st.seq = part[k].seq
  BY <1>1 DEF GoodState, GetOrInit, Blank, NewPartitionState
<1>5. ApplyRecovered(part[k], [key |-> k, seq |-> done.seq, type |-> "hold_created",
                               hold |-> h, qty |-> q, cap |-> st.cap]) = done
  BY <1>1, <1>2, ReplayedHold, GoodIsFormed
<1> HIDE DEF st, done, undone
<1> QED BY <1>1, <1>2, <1>3, <1>4, <1>5, SendOrUndoIsRecorded DEF EventTypes

\* a refused one moves none,
LEMMA TryHoldRefusedIsRecorded ==
  ASSUME SafeState, NEW k \in Keys, NEW h \in HoldIDs, NEW q \in Qtys,
         NEW c \in Capacities, TryHoldRefused(k, h, q, c),
         NEW j \in Keys, SeatsChanged(j)
  PROVE  Recorded(j)
<1>1. part' = [part EXCEPT ![k] = GetOrInit(part[k], c)]
  BY DEF TryHoldRefused
<1>2. ~SeatsChanged(j)
  BY <1>1 DEF SeatsChanged, SafeState, GoodState, GetOrInit, Blank, NewPartitionState
<1> QED BY <1>2

\* those of a release are recorded,
LEMMA ReleaseHoldIsRecorded ==
  ASSUME SafeState, NEW k \in Keys, NEW h \in HoldIDs, ReleaseHold(k, h),
         NEW j \in Keys, SeatsChanged(j)
  PROVE  Recorded(j)
<1> DEFINE st == part[k]
<1> DEFINE done == DoRelease(st, h)
<1> DEFINE undone == UndoRelease(done, h, st.holds[h])
<1>1. GoodState(st) /\ st \in PartitionState
  BY DEF SafeState, GoodState
<1>2. Held(st, h) /\ SendOrUndo(k, done, undone, "hold_released", h, st.holds[h], 0)
  BY DEF ReleaseHold
<1>3. st.holds[h] \in Qtys
  BY <1>1, <1>2, HeldExists, GoodIsFormed
<1>4. undone = st
  BY <1>1, UndoReleaseRestores
<1>5. ApplyRecovered(st, [key |-> k, seq |-> done.seq, type |-> "hold_released",
                          hold |-> h, qty |-> st.holds[h], cap |-> 0]) = done
  BY <1>1, <1>2, ReplayedRelease, GoodIsFormed
<1> HIDE DEF done, undone
<1> QED BY <1>2, <1>3, <1>4, <1>5, SendOrUndoIsRecorded DEF EventTypes

\* and those of a confirmation.
LEMMA ConfirmHoldIsRecorded ==
  ASSUME SafeState, NEW k \in Keys, NEW h \in HoldIDs, ConfirmHold(k, h),
         NEW j \in Keys, SeatsChanged(j)
  PROVE  Recorded(j)
<1> DEFINE st == part[k]
<1> DEFINE done == DoConfirm(st, h)
<1> DEFINE undone == UndoConfirm(done, h, st.holds[h])
<1>1. GoodState(st) /\ st \in PartitionState
  BY DEF SafeState, GoodState
<1>2. Held(st, h) /\ SendOrUndo(k, done, undone, "hold_confirmed", h, st.holds[h], 0)
  BY DEF ConfirmHold
<1>3. st.holds[h] \in Qtys
  BY <1>1, <1>2, HeldExists, GoodIsFormed
<1>4. undone = st
  BY <1>1, UndoConfirmRestores
<1>5. ApplyRecovered(st, [key |-> k, seq |-> done.seq, type |-> "hold_confirmed",
                          hold |-> h, qty |-> st.holds[h], cap |-> 0]) = done
  BY <1>1, <1>2, ReplayedConfirm, GoodIsFormed
<1> HIDE DEF done, undone
<1> QED BY <1>2, <1>3, <1>4, <1>5, SendOrUndoIsRecorded DEF EventTypes

\* So a step of any kind records the seats it moves.
LEMMA NextIsRecorded ==
  SafeState /\ [Next]_managerVars =>
    [\A k \in Keys : SeatsChanged(k) => Recorded(k)]_managerVars
<1> SUFFICES ASSUME SafeState, [Next]_managerVars, NEW j \in Keys, SeatsChanged(j)
             PROVE  Recorded(j)
  OBVIOUS
<1>1. ASSUME NEW k \in Keys, NEW h \in HoldIDs, NEW q \in Qtys, NEW c \in Capacities,
             TryHold(k, h, q, c)
      PROVE  Recorded(j)
  BY <1>1, TryHoldIsRecorded
<1>2. ASSUME NEW k \in Keys, NEW h \in HoldIDs, NEW q \in Qtys, NEW c \in Capacities,
             TryHoldRefused(k, h, q, c)
      PROVE  Recorded(j)
  BY <1>2, TryHoldRefusedIsRecorded
<1>3. ASSUME NEW k \in Keys, NEW h \in HoldIDs, ReleaseHold(k, h)
      PROVE  Recorded(j)
  BY <1>3, ReleaseHoldIsRecorded
<1>4. ASSUME NEW k \in Keys, NEW h \in HoldIDs, ConfirmHold(k, h)
      PROVE  Recorded(j)
  BY <1>4, ConfirmHoldIsRecorded
<1>5. CASE TakeRecord \/ UNCHANGED managerVars
  BY <1>5 DEF TakeRecord, managerVars, SeatsChanged
<1> QED BY <1>1, <1>2, <1>3, <1>4, <1>5 DEF Next, Command

\* No seat moves without a record in the queue that describes the move: the
\* record replayed on the old state gives the new one.
THEOREM ChangesRecorded == Spec => ChangesAreRecorded
BY AlwaysSafe, NextIsRecorded, PTL DEF Spec, ChangesAreRecorded

-----------------------------------------------------------------------------

USE LogAssumption DEF LogAssumption

-----------------------------------------------------------------------------
(* Recovery by replay: the recursion it runs, and what it computes.        *)

\* The order of the numbers is well founded, said without an operator as argument.
NumberOrder == {p \in Nat \X Nat : p[1] < p[2]}

LEMMA NumberOrderWellFounded == IsWellFoundedOn(NumberOrder, Nat)
BY NatLessThanWellFounded DEF OpToRel, NumberOrder

\* A set of numbers that is not empty has a least one: this is induction, for a
\* set of counterexamples.
LEMMA LeastNumber ==
  ASSUME NEW S \in SUBSET Nat, S # {}
  PROVE  \E m \in S : \A n \in S : m <= n
<1>1. PICK m \in S : \A n \in S : ~(<<n, m>> \in NumberOrder)
  BY NumberOrderWellFounded, WFMin
<1>2. ASSUME NEW n \in S PROVE m <= n
  <2>1. m \in Nat /\ n \in Nat
    OBVIOUS
  <2>2. n < m => <<n, m>> \in NumberOrder
    BY <2>1 DEF NumberOrder
  <2> QED BY <2>1, <2>2, <1>1
<1> QED BY <1>2

\* Induction over the numbers from m on, for a set in place of a formula.
LEMMA Induction ==
  ASSUME NEW S, NEW m \in Nat, m \in S,
         \A n \in Nat : n >= m /\ n \in S => n + 1 \in S
  PROVE  \A n \in Nat : n >= m => n \in S
<1> DEFINE T == {n \in Nat : n >= m /\ n \notin S}
<1> SUFFICES ASSUME T # {} PROVE FALSE
  OBVIOUS
<1>1. PICK n \in T : \A i \in T : n <= i
  <2>1. T \in SUBSET Nat
    OBVIOUS
  <2> HIDE DEF T
  <2> QED BY <2>1, LeastNumber
<1>2. n \in Nat /\ n >= m /\ n \notin S /\ n # m
  OBVIOUS
<1>3. n - 1 \in Nat /\ n - 1 >= m /\ (n - 1) + 1 = n /\ ~(n <= n - 1)
  BY <1>2
<1>4. n - 1 \in S
  BY <1>1, <1>3
<1> QED BY <1>2, <1>3, <1>4

\* The records of partition k with number n that recovery from base replays.
Numbered(base, log, k, n) == {r \in log : r.key = k /\ r.seq = n /\ n > base.seq}

\* What they make of the state rebuilt so far.
ReplayStep(base, log, k, st, n) ==
  IF Numbered(base, log, k, n) = {} THEN st
  ELSE ApplyRecovered(st, CHOOSE r \in Numbered(base, log, k, n) : TRUE)

\* The states that replay goes through.
ReplayUpTo(base, log, k) ==
  CHOOSE upTo : upTo =
    [n \in Nat |-> IF n = 0 THEN base ELSE ReplayStep(base, log, k, upTo[n - 1], n)]

LastNumber(log) == Max({0} \cup {r.seq : r \in log})

LEMMA ReplayIsLast ==
  ASSUME NEW base, NEW log, NEW k
  PROVE  Replay(base, log, k) = ReplayUpTo(base, log, k)[LastNumber(log)]
BY DEF Replay, ReplayUpTo, ReplayStep, Numbered, LastNumber

\* The first n states of a replay.
IsPrefix(g, n, base, log, k) ==
  g = [i \in 0..n |-> IF i = 0 THEN base ELSE ReplayStep(base, log, k, g[i - 1], i)]

\* There is a prefix of any length ...
LEMMA PrefixExists ==
  ASSUME NEW base, NEW log, NEW k
  PROVE  \A n \in Nat : \E g : IsPrefix(g, n, base, log, k)
<1> DEFINE S == {n \in Nat : \E g : IsPrefix(g, n, base, log, k)}
<1>1. 0 \in S
  <2> DEFINE g == [i \in 0..0 |-> base]
  <2>1. IsPrefix(g, 0, base, log, k)
    BY DEF IsPrefix
  <2> QED BY <2>1
<1>2. ASSUME NEW n \in Nat, n \in S PROVE n + 1 \in S
  <2>1. PICK g : IsPrefix(g, n, base, log, k)
    BY <1>2
  <2> DEFINE next == ReplayStep(base, log, k, g[n], n + 1)
  <2> DEFINE f == [i \in 0..(n + 1) |-> IF i <= n THEN g[i] ELSE next]
  <2>2. \A i \in 0..n :
          g[i] = IF i = 0 THEN base ELSE ReplayStep(base, log, k, g[i - 1], i)
    BY <2>1 DEF IsPrefix
  <2>3. ASSUME NEW i \in 0..(n + 1)
        PROVE  f[i] = IF i = 0 THEN base ELSE ReplayStep(base, log, k, f[i - 1], i)
    <3>1. CASE i = 0
      BY <3>1, <2>2
    <3>2. CASE i # 0 /\ i <= n
      <4>1. i \in 0..n /\ i - 1 \in 0..(n + 1) /\ i - 1 <= n
        BY <3>2
      <4>2. f[i] = g[i] /\ f[i - 1] = g[i - 1]
        BY <3>2, <4>1
      <4> HIDE DEF f
      <4> QED BY <4>1, <4>2, <2>2, <3>2
    <3>3. CASE i = n + 1
      <4>1. n \in 0..(n + 1) /\ n + 1 \in 0..(n + 1) /\ ~(n + 1 <= n) /\ n + 1 # 0
            /\ (n + 1) - 1 = n
        OBVIOUS
      <4>2. f[n + 1] = next /\ f[n] = g[n]
        BY <4>1
      <4> HIDE DEF f
      <4> QED BY <4>1, <4>2, <3>3
    <3> QED BY <3>1, <3>2, <3>3
  <2>4. f = [i \in 0..(n + 1) |-> f[i]]
    OBVIOUS
  <2> HIDE DEF f
  <2>5. IsPrefix(f, n + 1, base, log, k)
    BY <2>3, <2>4 DEF IsPrefix
  <2> QED BY <2>5
<1> HIDE DEF S
<1>3. \A n \in Nat : n >= 0 => n \in S
  BY <1>1, <1>2, Induction
<1> QED BY <1>3 DEF S

\* ... and two of them agree as far as both go.
LEMMA PrefixesAgree ==
  ASSUME NEW base, NEW log, NEW k, NEW g, NEW m \in Nat, IsPrefix(g, m, base, log, k),
         NEW f, NEW n \in Nat, IsPrefix(f, n, base, log, k), m <= n
  PROVE  \A i \in 0..m : g[i] = f[i]
<1> DEFINE T == {i \in 0..m : g[i] # f[i]}
<1>1. SUFFICES ASSUME T # {} PROVE FALSE
  OBVIOUS
<1>2. PICK i \in T : \A j \in T : i <= j
  <2>1. T \in SUBSET Nat
    OBVIOUS
  <2> HIDE DEF T
  <2> QED BY <2>1, <1>1, LeastNumber
<1>3. /\ i \in 0..m /\ i \in 0..n /\ g[i] # f[i]
      /\ g[i] = IF i = 0 THEN base ELSE ReplayStep(base, log, k, g[i - 1], i)
      /\ f[i] = IF i = 0 THEN base ELSE ReplayStep(base, log, k, f[i - 1], i)
  BY DEF IsPrefix
<1>4. i # 0
  BY <1>3
<1>5. i - 1 \in 0..m /\ ~(i <= i - 1)
  BY <1>3, <1>4
<1>6. g[i - 1] = f[i - 1]
  BY <1>2, <1>5
<1> QED BY <1>3, <1>4, <1>6

\* So the recursion defines a function, which is what Replay runs.
LEMMA ReplayRecursion ==
  ASSUME NEW base, NEW log, NEW k
  PROVE  LET upTo == ReplayUpTo(base, log, k) IN
         /\ upTo[0] = base
         /\ \A n \in Nat \ {0} : upTo[n] = ReplayStep(base, log, k, upTo[n - 1], n)
<1> DEFINE Pre(n) == CHOOSE g : IsPrefix(g, n, base, log, k)
<1> DEFINE f == [n \in Nat |-> Pre(n)[n]]
<1> DEFINE body(h) ==
      [n \in Nat |-> IF n = 0 THEN base ELSE ReplayStep(base, log, k, h[n - 1], n)]
<1>1. \A n \in Nat : IsPrefix(Pre(n), n, base, log, k)
  BY PrefixExists
<1>2. ASSUME NEW n \in Nat
      PROVE  f[n] = IF n = 0 THEN base ELSE ReplayStep(base, log, k, f[n - 1], n)
  <2> HIDE DEF Pre
  <2>1. /\ n \in 0..n /\ f[n] = Pre(n)[n]
        /\ Pre(n)[n] = IF n = 0 THEN base
                       ELSE ReplayStep(base, log, k, Pre(n)[n - 1], n)
    BY <1>1 DEF IsPrefix
  <2>2. CASE n = 0
    BY <2>1, <2>2
  <2>3. CASE n # 0
    <3>1. n - 1 \in Nat /\ n - 1 <= n /\ n - 1 \in 0..(n - 1)
      BY <2>3
    <3>2. Pre(n - 1)[n - 1] = Pre(n)[n - 1]
      BY <3>1, <1>1, PrefixesAgree
    <3>3. f[n - 1] = Pre(n - 1)[n - 1]
      BY <3>1
    <3> HIDE DEF f
    <3> QED BY <2>1, <2>3, <3>2, <3>3
  <2> QED BY <2>2, <2>3
<1>3. f = [n \in Nat |-> f[n]]
  OBVIOUS
<1> HIDE DEF f
<1>4. f = body(f)
  BY <1>2, <1>3
<1>5. ReplayUpTo(base, log, k) = body(ReplayUpTo(base, log, k))
  <2>1. ReplayUpTo(base, log, k) = CHOOSE h : h = body(h)
    BY DEF ReplayUpTo
  <2> HIDE DEF body
  <2> QED BY <2>1, <1>4
<1>6. \A n \in Nat : body(ReplayUpTo(base, log, k))[n] =
        IF n = 0 THEN base
        ELSE ReplayStep(base, log, k, ReplayUpTo(base, log, k)[n - 1], n)
  OBVIOUS
<1> HIDE DEF body
<1> QED BY <1>5, <1>6

-----------------------------------------------------------------------------
(* What a replay computes.                                                 *)

\* A record with a new number brings the partition to that number ...
LEMMA ApplyRecoveredForms ==
  ASSUME NEW st, Formed(st), NEW r \in MutationRecord, r.seq > st.seq
  PROVE  Formed(ApplyRecovered(st, r)) /\ ApplyRecovered(st, r).seq = r.seq
<1> DEFINE st1 == GetOrInit(st, r.cap)
<1>1. st1 \in PartitionState /\ Exists(st1) /\ st1.seq = st.seq
  BY GetOrInitForms DEF MutationRecord
<1>2. r.hold \in HoldIDs /\ r.qty \in Qtys /\ r.seq \in Nat /\ ~(r.seq <= st1.seq)
  BY <1>1 DEF MutationRecord, Formed, PartitionState
<1> HIDE DEF st1
<1> DEFINE replayed ==
        CASE r.type = "hold_created" /\ ~Held(st1, r.hold) -> DoHold(st1, r.hold, r.qty)
          [] r.type = "hold_released" /\ Held(st1, r.hold) -> DoRelease(st1, r.hold)
          [] r.type = "hold_confirmed" /\ Held(st1, r.hold) -> DoConfirm(st1, r.hold)
          [] OTHER -> st1
<1>3. ApplyRecovered(st, r) = [replayed EXCEPT !.seq = r.seq]
  BY <1>2 DEF ApplyRecovered, st1
<1>4. replayed \in {DoHold(st1, r.hold, r.qty), DoRelease(st1, r.hold),
                    DoConfirm(st1, r.hold), st1}
  OBVIOUS
<1> HIDE DEF replayed
<1>5. replayed \in PartitionState /\ replayed.cap = st1.cap
  <2>1. /\ DoHold(st1, r.hold, r.qty) \in PartitionState
        /\ DoHold(st1, r.hold, r.qty).cap = st1.cap
    BY <1>1, <1>2, DoHoldEffect
  <2>2. DoRelease(st1, r.hold) \in PartitionState /\ DoRelease(st1, r.hold).cap = st1.cap
    BY <1>1, <1>2, DoReleaseEffect
  <2>3. DoConfirm(st1, r.hold) \in PartitionState /\ DoConfirm(st1, r.hold).cap = st1.cap
    BY <1>1, <1>2, DoConfirmEffect
  <2> QED BY <1>1, <1>4, <2>1, <2>2, <2>3
<1>6. /\ ApplyRecovered(st, r) \in PartitionState
      /\ ApplyRecovered(st, r).cap = st1.cap /\ ApplyRecovered(st, r).seq = r.seq
  BY <1>2, <1>3, <1>5 DEF PartitionState
<1> QED BY <1>1, <1>6 DEF Formed, Exists

\* ... and so does one step of a replay, which leaves a state that is ahead alone.
LEMMA ReplayStepForms ==
  ASSUME NEW base, NEW log \in SUBSET MutationRecord, NEW k, NEW n \in Nat,
         NEW st, Formed(st), st.seq < n
  PROVE  LET next == ReplayStep(base, log, k, st, n) IN
         /\ Formed(next)
         /\ IF Numbered(base, log, k, n) = {} THEN next = st ELSE next.seq = n
<1>1. CASE Numbered(base, log, k, n) = {}
  BY <1>1 DEF ReplayStep
<1>2. CASE Numbered(base, log, k, n) # {}
  <2> DEFINE r == CHOOSE r \in Numbered(base, log, k, n) : TRUE
  <2>1. r \in Numbered(base, log, k, n)
    BY <1>2
  <2>2. ReplayStep(base, log, k, st, n) = ApplyRecovered(st, r)
    BY <1>2 DEF ReplayStep
  <2> HIDE DEF r
  <2>3. r \in MutationRecord /\ r.seq = n /\ r.seq > st.seq
    BY <2>1 DEF Numbered, Formed, PartitionState
  <2> QED BY <1>2, <2>2, <2>3, ApplyRecoveredForms
<1> QED BY <1>1, <1>2

\* The n-th state of a replay: it is formed, covers the records up to n, and its
\* number is that of the base or of a record.
CoversUpTo(base, log, k, n, st) ==
  /\ Formed(st)
  /\ st.seq >= base.seq
  /\ \A r \in log : r.key = k /\ r.seq <= n => r.seq <= st.seq
  /\ \/ st = base
     \/ st.seq <= n /\ \E r \in log : r.key = k /\ r.seq = st.seq /\ r.seq > base.seq

LEMMA ReplayCovers ==
  ASSUME NEW base, Formed(base), NEW log \in SUBSET MutationRecord, NEW k
  PROVE  \A n \in Nat : CoversUpTo(base, log, k, n, ReplayUpTo(base, log, k)[n])
<1> DEFINE upTo == ReplayUpTo(base, log, k)
<1> DEFINE S == {n \in Nat : CoversUpTo(base, log, k, n, upTo[n])}
<1>1. /\ upTo[0] = base
      /\ \A n \in Nat \ {0} : upTo[n] = ReplayStep(base, log, k, upTo[n - 1], n)
  BY ReplayRecursion
<1> HIDE DEF upTo
<1>2. base.seq \in Nat /\ \A r \in log : r.seq \in Nat \ {0}
  BY DEF Formed, PartitionState, MutationRecord
<1>3. 0 \in S
  BY <1>1, <1>2 DEF CoversUpTo
<1>4. ASSUME NEW n \in Nat, n \in S PROVE n + 1 \in S
  <2> DEFINE st == upTo[n]
  <2> DEFINE next == upTo[n + 1]
  <2>1. n + 1 \in Nat \ {0} /\ (n + 1) - 1 = n
    OBVIOUS
  <2>2. next = ReplayStep(base, log, k, st, n + 1)
    BY <1>1, <2>1
  <2>3. CoversUpTo(base, log, k, n, st)
    BY <1>4
  <2> HIDE DEF st, next
  <2>4. st.seq \in Nat
    BY <2>3 DEF CoversUpTo, Formed, PartitionState
  <2>5. \A r \in log : r.key = k /\ r.seq = n + 1 /\ ~(n + 1 > base.seq)
          => r.seq <= st.seq
    BY <1>2, <2>3, <2>4 DEF CoversUpTo
  <2>6. CASE Numbered(base, log, k, n + 1) = {}
    <3>1. next = st
      BY <2>2, <2>6 DEF ReplayStep
    <3>2. \A r \in log : r.key = k /\ r.seq <= n + 1 => r.seq <= st.seq
      BY <1>2, <2>3, <2>5, <2>6 DEF CoversUpTo, Numbered
    <3>3. CoversUpTo(base, log, k, n + 1, next)
      BY <2>3, <2>4, <3>1, <3>2 DEF CoversUpTo
    <3> QED BY <3>3 DEF next
  <2>7. CASE Numbered(base, log, k, n + 1) # {}
    <3>1. PICK r \in log : r.key = k /\ r.seq = n + 1 /\ n + 1 > base.seq
      BY <2>7 DEF Numbered
    <3>2. st.seq < n + 1
      BY <2>3, <2>4, <3>1, <1>2 DEF CoversUpTo
    <3>3. Formed(next) /\ next.seq = n + 1
      BY <2>1, <2>2, <2>3, <2>7, <3>2, ReplayStepForms DEF CoversUpTo
    <3>4. CoversUpTo(base, log, k, n + 1, next)
      BY <1>2, <3>1, <3>3 DEF CoversUpTo
    <3> QED BY <3>4 DEF next
  <2> QED BY <2>6, <2>7
<1> HIDE DEF S
<1>5. \A n \in Nat : n >= 0 => n \in S
  BY <1>3, <1>4, Induction
<1> QED BY <1>5 DEF S, upTo

\* Two replays that are in the same state at m and see the same records from
\* there on stay together.
LEMMA ReplaysAgree ==
  ASSUME NEW base, NEW log, NEW k, NEW base2, NEW log2, NEW m \in Nat,
         ReplayUpTo(base, log, k)[m] = ReplayUpTo(base2, log2, k)[m],
         NEW last \in Nat,
         \A n \in Nat : n > m /\ n <= last =>
           Numbered(base, log, k, n) = Numbered(base2, log2, k, n)
  PROVE  \A n \in Nat : n >= m /\ n <= last =>
           ReplayUpTo(base, log, k)[n] = ReplayUpTo(base2, log2, k)[n]
<1> DEFINE S == {n \in Nat : n <= last =>
                   ReplayUpTo(base, log, k)[n] = ReplayUpTo(base2, log2, k)[n]}
<1>1. m \in S
  OBVIOUS
<1>2. ASSUME NEW n \in Nat, n >= m, n \in S PROVE n + 1 \in S
  <2> SUFFICES ASSUME n + 1 <= last
               PROVE  ReplayUpTo(base, log, k)[n + 1] = ReplayUpTo(base2, log2, k)[n + 1]
    OBVIOUS
  <2>1. n + 1 \in Nat \ {0} /\ (n + 1) - 1 = n /\ n <= last /\ n + 1 > m
    BY <1>2
  <2>2. Numbered(base, log, k, n + 1) = Numbered(base2, log2, k, n + 1)
    BY <2>1
  <2>3. ReplayUpTo(base, log, k)[n + 1]
          = ReplayStep(base, log, k, ReplayUpTo(base, log, k)[n], n + 1)
    BY <2>1, ReplayRecursion
  <2>4. ReplayUpTo(base2, log2, k)[n + 1]
          = ReplayStep(base2, log2, k, ReplayUpTo(base2, log2, k)[n], n + 1)
    BY <2>1, ReplayRecursion
  <2>5. ReplayUpTo(base, log, k)[n] = ReplayUpTo(base2, log2, k)[n]
    BY <1>2, <2>1
  <2> QED BY <2>2, <2>3, <2>4, <2>5 DEF ReplayStep
<1> HIDE DEF S
<1>3. \A n \in Nat : n >= m => n \in S
  BY <1>1, <1>2, Induction
<1> QED BY <1>3 DEF S

\* Where there is no record to replay, the state stays as it is.
LEMMA ReplayRests ==
  ASSUME NEW base, NEW log, NEW k, NEW m \in Nat, NEW last \in Nat,
         \A n \in Nat : n > m /\ n <= last => Numbered(base, log, k, n) = {}
  PROVE  \A n \in Nat : n >= m /\ n <= last =>
           ReplayUpTo(base, log, k)[n] = ReplayUpTo(base, log, k)[m]
<1> DEFINE S == {n \in Nat : n <= last =>
                   ReplayUpTo(base, log, k)[n] = ReplayUpTo(base, log, k)[m]}
<1>1. m \in S
  OBVIOUS
<1>2. ASSUME NEW n \in Nat, n >= m, n \in S PROVE n + 1 \in S
  <2> SUFFICES ASSUME n + 1 <= last
               PROVE  ReplayUpTo(base, log, k)[n + 1] = ReplayUpTo(base, log, k)[m]
    OBVIOUS
  <2>1. n + 1 \in Nat \ {0} /\ (n + 1) - 1 = n /\ n <= last /\ n + 1 > m
    BY <1>2
  <2>2. Numbered(base, log, k, n + 1) = {}
    BY <2>1
  <2>3. ReplayUpTo(base, log, k)[n + 1]
          = ReplayStep(base, log, k, ReplayUpTo(base, log, k)[n], n + 1)
    BY <2>1, ReplayRecursion
  <2> QED BY <1>2, <2>1, <2>2, <2>3 DEF ReplayStep
<1> HIDE DEF S
<1>3. \A n \in Nat : n >= m => n \in S
  BY <1>1, <1>2, Induction
<1> QED BY <1>3 DEF S

\* A finite set of numbers has an upper bound,
LEMMA FiniteIsBounded ==
  ASSUME NEW S \in SUBSET Nat, IsFiniteSet(S)
  PROVE  \E b \in Nat : \A n \in S : n <= b
<1> DEFINE Bounded(T) == \E b \in Nat : \A n \in T : n <= b
<1> DEFINE C == {c \in Nat : \A T \in SUBSET Nat :
                   IsFiniteSet(T) /\ Cardinality(T) = c => Bounded(T)}
<1>1. 0 \in C
  <2>1. ASSUME NEW T \in SUBSET Nat, IsFiniteSet(T), Cardinality(T) = 0
        PROVE  Bounded(T)
    <3>1. T = {}
      BY <2>1, FS_EmptySet
    <3> QED BY <3>1
  <2> QED BY <2>1
<1>2. ASSUME NEW c \in Nat, c \in C PROVE c + 1 \in C
  <2>1. ASSUME NEW T \in SUBSET Nat, IsFiniteSet(T), Cardinality(T) = c + 1
        PROVE  Bounded(T)
    <3>0. T # {}
      BY <2>1, FS_EmptySet
    <3>1. PICK x \in T : TRUE
      BY <3>0
    <3>2. IsFiniteSet(T \ {x}) /\ Cardinality(T \ {x}) = c
      <4>1. IsFiniteSet(T \ {x}) /\ Cardinality(T \ {x}) = Cardinality(T) - 1
        BY <2>1, <3>1, FS_RemoveElement
      <4>2. Cardinality(T) - 1 = c
        BY <2>1
      <4> QED BY <4>1, <4>2
    <3>3. PICK b \in Nat : \A n \in T \ {x} : n <= b
      BY <1>2, <3>2
    <3>4. x \in Nat
      BY <3>1
    <3>5. CASE x <= b
      <4>1. \A n \in T : n <= b
        BY <3>3, <3>5
      <4> QED BY <4>1
    <3>6. CASE b <= x
      <4>1. \A n \in T : n <= x
        BY <3>3, <3>4, <3>6
      <4> QED BY <3>4, <4>1
    <3> QED BY <3>4, <3>5, <3>6
  <2> HIDE DEF Bounded
  <2> QED BY <2>1
<1> HIDE DEF C
<1>3. \A c \in Nat : c >= 0 => c \in C
  BY <1>1, <1>2, Induction
<1>4. Cardinality(S) \in Nat /\ Cardinality(S) >= 0
  BY FS_CardinalityType
<1> QED BY <1>3, <1>4 DEF C

\* and so a largest member.
LEMMA LargestNumber ==
  ASSUME NEW S \in SUBSET Nat, IsFiniteSet(S), S # {}
  PROVE  Max(S) \in S /\ \A n \in S : Max(S) >= n
<1>1. PICK b \in Nat : \A n \in S : n <= b
  BY FiniteIsBounded
<1> DEFINE T == {n \in Nat : \A i \in S : i <= n}
<1>2. PICK m \in T : \A n \in T : m <= n
  <2>1. T \in SUBSET Nat /\ b \in T
    BY <1>1
  <2> HIDE DEF T
  <2> QED BY <2>1, LeastNumber
<1>3. m \in S
  <2> SUFFICES ASSUME m \notin S PROVE FALSE
    OBVIOUS
  <2>1. m # 0
    <3>1. PICK i \in S : TRUE
      OBVIOUS
    <3>2. i \in Nat /\ i <= m /\ i # m
      BY <1>2
    <3> QED BY <3>2
  <2>2. m - 1 \in Nat /\ ~(m <= m - 1)
    BY <1>2, <2>1
  <2>3. \A i \in S : i <= m - 1
    BY <1>2
  <2> QED BY <1>2, <2>2, <2>3
<1>4. \A n \in S : m >= n
  BY <1>2
<1> QED BY <1>3, <1>4 DEF Max

\* Replay runs up to a number that no record of the log exceeds.
LEMMA LastNumberIsLast ==
  ASSUME NEW log \in SUBSET MutationRecord, IsFiniteSet(log)
  PROVE  LastNumber(log) \in Nat /\ \A r \in log : r.seq <= LastNumber(log)
<1> DEFINE numbers == {r.seq : r \in log}
<1> DEFINE S == {0} \cup numbers
<1>1. S \in SUBSET Nat /\ S # {} /\ \A r \in log : r.seq \in S /\ r.seq \in Nat
  BY DEF MutationRecord
<1>2. IsFiniteSet(S)
  <2>1. [r \in log |-> r.seq] \in Surjection(log, numbers)
    BY DEF Surjection
  <2>2. IsFiniteSet(numbers)
    BY <2>1, FS_Surjection
  <2>3. IsFiniteSet({0})
    BY FS_Singleton
  <2> HIDE DEF numbers
  <2> QED BY <2>2, <2>3, FS_Union
<1>3. LastNumber(log) = Max(S)
  BY DEF LastNumber
<1> HIDE DEF S
<1>4. Max(S) \in S /\ \A n \in S : Max(S) >= n
  BY <1>1, <1>2, LargestNumber
<1> QED BY <1>1, <1>3, <1>4

\* Going on beyond the last record of the partition changes nothing.
LEMMA ReplayAt ==
  ASSUME NEW base, NEW log \in SUBSET MutationRecord, IsFiniteSet(log), NEW k,
         NEW m \in Nat, \A r \in log : r.key = k => r.seq <= m
  PROVE  Replay(base, log, k) = ReplayUpTo(base, log, k)[m]
<1> DEFINE last == LastNumber(log)
<1>1. last \in Nat /\ \A r \in log : r.seq <= last
  BY LastNumberIsLast
<1>2. Replay(base, log, k) = ReplayUpTo(base, log, k)[last]
  BY ReplayIsLast
<1> HIDE DEF last
<1>3. \A n \in Nat : n > m \/ n > last => Numbered(base, log, k, n) = {}
  BY <1>1 DEF Numbered, MutationRecord
<1>4. CASE last <= m
  <2>1. ReplayUpTo(base, log, k)[m] = ReplayUpTo(base, log, k)[last]
    BY <1>1, <1>3, <1>4, ReplayRests
  <2> QED BY <1>2, <2>1
<1>5. CASE m <= last
  <2>1. ReplayUpTo(base, log, k)[last] = ReplayUpTo(base, log, k)[m]
    BY <1>1, <1>3, <1>5, ReplayRests
  <2> QED BY <1>2, <2>1
<1> QED BY <1>1, <1>4, <1>5

\* The result of a replay: formed, and the number of its last record.
LEMMA ReplayForms ==
  ASSUME NEW base, Formed(base), NEW log \in SUBSET MutationRecord, IsFiniteSet(log),
         NEW k
  PROVE  LET st == Replay(base, log, k) IN
         /\ Formed(st)
         /\ st.seq >= base.seq
         /\ \A r \in log : r.key = k => r.seq <= st.seq
         /\ st = base \/ \E r \in log : r.key = k /\ r.seq = st.seq /\ r.seq > base.seq
<1> DEFINE last == LastNumber(log)
<1>1. last \in Nat /\ \A r \in log : r.seq <= last
  BY LastNumberIsLast
<1>2. Replay(base, log, k) = ReplayUpTo(base, log, k)[last]
  BY ReplayIsLast
<1> HIDE DEF last
<1>3. CoversUpTo(base, log, k, last, Replay(base, log, k))
  BY <1>1, <1>2, ReplayCovers
<1> QED BY <1>1, <1>3 DEF CoversUpTo

\* The records of partition k that a replay from base uses.
Needed(base, log, k) == {r \in log : r.key = k /\ r.seq > base.seq}

\* A replay depends on nothing else ...
LEMMA ReplayOfNeeded ==
  ASSUME NEW base, NEW log \in SUBSET MutationRecord, IsFiniteSet(log),
         NEW log2 \in SUBSET MutationRecord, IsFiniteSet(log2), NEW k,
         Needed(base, log, k) = Needed(base, log2, k)
  PROVE  Replay(base, log, k) = Replay(base, log2, k)
<1>1. PICK m \in Nat : m >= LastNumber(log) /\ m >= LastNumber(log2)
  <2>1. LastNumber(log) \in Nat /\ LastNumber(log2) \in Nat
    BY LastNumberIsLast
  <2>2. CASE LastNumber(log) <= LastNumber(log2)
    BY <2>1, <2>2
  <2>3. CASE LastNumber(log2) <= LastNumber(log)
    BY <2>1, <2>3
  <2> QED BY <2>1, <2>2, <2>3
<1>2. /\ Replay(base, log, k) = ReplayUpTo(base, log, k)[m]
      /\ Replay(base, log2, k) = ReplayUpTo(base, log2, k)[m]
  <2>1. \A r \in log : r.seq \in Nat /\ r.seq <= m
    BY <1>1, LastNumberIsLast DEF MutationRecord
  <2>2. \A r \in log2 : r.seq \in Nat /\ r.seq <= m
    BY <1>1, LastNumberIsLast DEF MutationRecord
  <2> QED BY <2>1, <2>2, ReplayAt
<1>3. \A n \in Nat : Numbered(base, log, k, n) = Numbered(base, log2, k, n)
  BY DEF Numbered, Needed
<1>4. ReplayUpTo(base, log, k)[0] = ReplayUpTo(base, log2, k)[0]
  BY ReplayRecursion
<1>5. ReplayUpTo(base, log, k)[m] = ReplayUpTo(base, log2, k)[m]
  BY <1>3, <1>4, ReplaysAgree
<1> QED BY <1>2, <1>5

\* ... and without any it gives back what it started from.
LEMMA ReplayOfNothing ==
  ASSUME NEW base, NEW log \in SUBSET MutationRecord, IsFiniteSet(log), NEW k,
         Needed(base, log, k) = {}
  PROVE  Replay(base, log, k) = base
<1> DEFINE last == LastNumber(log)
<1>1. last \in Nat
  BY LastNumberIsLast
<1>2. Replay(base, log, k) = ReplayUpTo(base, log, k)[last]
  BY ReplayIsLast
<1> HIDE DEF last
<1>3. \A n \in Nat : Numbered(base, log, k, n) = {}
  BY DEF Numbered, Needed
<1>4. ReplayUpTo(base, log, k)[last] = ReplayUpTo(base, log, k)[0]
  BY <1>1, <1>3, ReplayRests
<1> QED BY <1>2, <1>4, ReplayRecursion

\* A log whose records come in two parts, one after the other, is replayed part by
\* part: recovery can be interrupted anywhere and resumed from what it rebuilt.
LEMMA ReplayInParts ==
  ASSUME NEW base, Formed(base), NEW k,
         NEW first \in SUBSET MutationRecord, IsFiniteSet(first),
         NEW rest \in SUBSET MutationRecord, IsFiniteSet(rest),
         \A r \in first, s \in rest : r.key = k /\ s.key = k => r.seq < s.seq
  PROVE  Replay(base, first \cup rest, k) = Replay(Replay(base, first, k), rest, k)
<1> DEFINE log == first \cup rest
<1> DEFINE mid == Replay(base, first, k)
<1> DEFINE last == LastNumber(log)
<1>1. log \in SUBSET MutationRecord /\ IsFiniteSet(log)
  BY FS_Union
<1>2. last \in Nat /\ \A r \in log : r.seq <= last
  BY <1>1, LastNumberIsLast
<1>3. /\ Formed(mid) /\ mid.seq \in Nat /\ base.seq \in Nat /\ mid.seq >= base.seq
      /\ \A r \in first : r.key = k => r.seq <= mid.seq
      /\ mid = base \/ \E r \in first : r.key = k /\ r.seq = mid.seq /\ r.seq > base.seq
  <2>1. /\ Formed(mid) /\ mid.seq >= base.seq
        /\ \A r \in first : r.key = k => r.seq <= mid.seq
        /\ mid = base \/ \E r \in first : r.key = k /\ r.seq = mid.seq /\ r.seq > base.seq
    BY ReplayForms
  <2> HIDE DEF mid
  <2> QED BY <2>1 DEF Formed, PartitionState
<1>4. \A r \in log : r.seq \in Nat
  BY <1>1 DEF MutationRecord
<1>5. Replay(base, first, k) = ReplayUpTo(base, first, k)[mid.seq]
  <2>1. \A r \in first : r.key = k => r.seq <= mid.seq
    BY <1>3
  <2>2. mid.seq \in Nat
    BY <1>3
  <2> HIDE DEF mid
  <2> QED BY <2>1, <2>2, ReplayAt
<1> HIDE DEF log, last
<1>6. Replay(base, log, k) = ReplayUpTo(base, log, k)[last]
  BY <1>1, <1>2, ReplayAt
<1> DEFINE m == mid.seq
<1>7. mid = ReplayUpTo(base, first, k)[m] /\ m \in Nat
  BY <1>3, <1>5
<1>8. \A n \in Nat : n <= m => Numbered(base, log, k, n) = Numbered(base, first, k, n)
  <2> SUFFICES ASSUME NEW n \in Nat, n <= m, NEW s \in rest, s.key = k, s.seq = n, n > base.seq
               PROVE  FALSE
    BY DEF Numbered, log
  <2>1. mid # base
    BY <1>3
  <2> QED BY <1>3, <1>4, <2>1 DEF log
<1>9. ReplayUpTo(base, log, k)[m] = mid
  <2>1. ReplayUpTo(base, log, k)[0] = ReplayUpTo(base, first, k)[0]
    BY ReplayRecursion
  <2>2. ReplayUpTo(base, log, k)[m] = ReplayUpTo(base, first, k)[m]
    <3> HIDE DEF mid, m
    <3> QED BY <2>1, <1>7, <1>8, ReplaysAgree
  <2> QED BY <2>2, <1>7
<1>10. \A n \in Nat : n > m => Numbered(base, log, k, n) = Numbered(mid, rest, k, n)
  <2>1. ASSUME NEW n \in Nat, n > m PROVE Numbered(base, log, k, n) = Numbered(mid, rest, k, n)
    <3>1. n > base.seq /\ n > mid.seq
      BY <1>3, <2>1
    <3>2. \A r \in first : r.key = k => r.seq # n
      BY <1>3, <1>4, <2>1 DEF log
    <3> HIDE DEF mid
    <3> QED BY <3>1, <3>2 DEF Numbered, log
  <2> QED BY <2>1
<1>11. \A n \in Nat : n <= m => Numbered(mid, rest, k, n) = {}
  BY <1>3 DEF Numbered
<1>12. ReplayUpTo(mid, rest, k)[m] = mid
  <2> HIDE DEF mid, m
  <2>1. ReplayUpTo(mid, rest, k)[m] = ReplayUpTo(mid, rest, k)[0]
    BY <1>7, <1>11, ReplayRests
  <2> QED BY <2>1, ReplayRecursion
<1> HIDE DEF mid, m
<1>13. CASE m <= last
  <2>1. ReplayUpTo(base, log, k)[last] = ReplayUpTo(mid, rest, k)[last]
    <3>1. ReplayUpTo(base, log, k)[m] = ReplayUpTo(mid, rest, k)[m]
      BY <1>9, <1>12
    <3>2. \A n \in Nat : n >= m /\ n <= last =>
            ReplayUpTo(base, log, k)[n] = ReplayUpTo(mid, rest, k)[n]
      BY <1>2, <1>7, <1>10, <3>1, ReplaysAgree
    <3> QED BY <1>2, <1>13, <3>2
  <2>2. Replay(mid, rest, k) = ReplayUpTo(mid, rest, k)[last]
    BY <1>2, ReplayAt DEF log
  <2> QED BY <1>6, <2>1, <2>2 DEF log, mid
<1>14. CASE last <= m
  <2>1. \A r \in log : r.seq <= m
    BY <1>2, <1>4, <1>7, <1>14
  <2>2. Replay(base, log, k) = ReplayUpTo(base, log, k)[m]
    BY <1>1, <1>7, <2>1, ReplayAt
  <2>3. Replay(mid, rest, k) = ReplayUpTo(mid, rest, k)[m]
    BY <1>7, <2>1, ReplayAt DEF log
  <2> QED BY <1>9, <1>12, <2>2, <2>3 DEF log, mid
<1> QED BY <1>2, <1>7, <1>13, <1>14

\* A log of one new record: recovery applies it.
LEMMA ReplayOfOne ==
  ASSUME NEW st, Formed(st), NEW r \in MutationRecord, r.seq > st.seq
  PROVE  Replay(st, {r}, r.key) = ApplyRecovered(st, r)
<1> DEFINE upTo == ReplayUpTo(st, {r}, r.key)
<1>1. PICK n \in Nat : n + 1 = r.seq
  <2>1. r.seq \in Nat \ {0}
    BY DEF MutationRecord
  <2>2. r.seq - 1 \in Nat /\ (r.seq - 1) + 1 = r.seq
    BY <2>1
  <2> QED BY <2>2
<1>2. {r} \in SUBSET MutationRecord /\ IsFiniteSet({r})
  BY FS_Singleton
<1>3. Replay(st, {r}, r.key) = upTo[n + 1]
  <2>1. n + 1 \in Nat /\ \A s \in {r} : s.key = r.key => s.seq <= n + 1
    BY <1>1
  <2> QED BY <1>2, <2>1, ReplayAt
<1>4. upTo[n] = st
  <2>1. \A i \in Nat : i <= n => Numbered(st, {r}, r.key, i) = {}
    BY <1>1 DEF Numbered
  <2>2. upTo[n] = upTo[0]
    <3> DEFINE log == {r}
    <3> DEFINE k == r.key
    <3>1. n \in Nat /\ \A i \in Nat : i > 0 /\ i <= n => Numbered(st, log, k, i) = {}
      BY <1>1, <2>1
    <3> HIDE DEF log, k
    <3>2. \A i \in Nat : i >= 0 /\ i <= n =>
            ReplayUpTo(st, log, k)[i] = ReplayUpTo(st, log, k)[0]
      BY <3>1, ReplayRests
    <3>3. n >= 0 /\ n <= n
      BY <3>1
    <3> QED BY <3>1, <3>2, <3>3 DEF log, k
  <2> QED BY <2>2, ReplayRecursion
<1>5. upTo[n + 1] = ReplayStep(st, {r}, r.key, st, n + 1)
  <2>1. n + 1 \in Nat \ {0} /\ (n + 1) - 1 = n
    OBVIOUS
  <2>2. upTo[n + 1] = ReplayStep(st, {r}, r.key, upTo[(n + 1) - 1], n + 1)
    BY <2>1, ReplayRecursion
  <2> HIDE DEF upTo
  <2> QED BY <1>4, <2>1, <2>2
<1>6. Numbered(st, {r}, r.key, n + 1) = {r}
  BY <1>1 DEF Numbered
<1>7. ReplayStep(st, {r}, r.key, st, n + 1) = ApplyRecovered(st, r)
  <2>1. (CHOOSE s \in {r} : TRUE) = r
    OBVIOUS
  <2> QED BY <1>6, <2>1 DEF ReplayStep
<1> QED BY <1>3, <1>5, <1>7

\* Appending a record to the log is applying it to what the log makes.
LEMMA ReplayOfAppend ==
  ASSUME NEW base, Formed(base), NEW log \in SUBSET MutationRecord, IsFiniteSet(log),
         NEW r \in MutationRecord, r.seq > Replay(base, log, r.key).seq
  PROVE  Replay(base, log \cup {r}, r.key) = ApplyRecovered(Replay(base, log, r.key), r)
<1> DEFINE st == Replay(base, log, r.key)
<1>1. Formed(st) /\ \A s \in log : s.key = r.key => s.seq <= st.seq
  BY ReplayForms
<1>2. {r} \in SUBSET MutationRecord /\ IsFiniteSet({r})
  BY FS_Singleton
<1>3. st.seq \in Nat /\ r.seq \in Nat /\ \A s \in log : s.seq \in Nat
  <2> HIDE DEF st
  <2> QED BY <1>1 DEF Formed, PartitionState, MutationRecord
<1>4. \A s \in log, t \in {r} : s.key = r.key /\ t.key = r.key => s.seq < t.seq
  BY <1>1, <1>3
<1>5. Replay(base, log \cup {r}, r.key) = Replay(st, {r}, r.key)
  BY <1>2, <1>4, ReplayInParts
<1> HIDE DEF st
<1>6. r.seq > st.seq
  BY DEF st
<1>7. Replay(st, {r}, r.key) = ApplyRecovered(st, r)
  BY <1>1, <1>6, ReplayOfOne
<1> QED BY <1>5, <1>7 DEF st

-----------------------------------------------------------------------------
(* The log: what the steps of the manager, the writer and the snapshot     *)
(* loop keep.                                                              *)

\* A state of a partition: it is formed, and without a mutation it is as it was
\* created.
Sound(st) ==
  /\ Formed(st)
  /\ st.seq = 0 => st = NewPartitionState(st.cap)

\* What the queue or the log has got of this process, or the log of an earlier one.
Accepted == wal \cup InFlight \cup dropped

\* The records leave the queue in the order of their numbers, and no partition is
\* behind its records.
NumbersOrdered ==
  /\ \A r \in Accepted : r.seq <= part[r.key].seq
  /\ \A i, j \in 1..Len(walQueue) :
       i < j /\ walQueue[i].key = walQueue[j].key => walQueue[i].seq < walQueue[j].seq
  /\ \A r \in wal \cup dropped : \A i \in 1..Len(walQueue) :
       r.key = walQueue[i].key => r.seq < walQueue[i].seq
  /\ writer.at = "append" =>
       /\ \A r \in wal \cup dropped : r.key = writer.rec.key => r.seq < writer.rec.seq
       /\ \A i \in 1..Len(walQueue) :
            writer.rec.key = walQueue[i].key => writer.rec.seq < walQueue[i].seq

\* What a snapshot of partition k and the records make of it is its memory.
Rebuilds(base, k) ==
  /\ base.seq <= part[k].seq
  /\ IF part[k].seq > 0 THEN Replay(base, Accepted, k) = part[k]
     ELSE base \in {Blank, part[k]}

Recoverable(k) ==
  /\ Sound(part[k]) /\ Sound(snaps[k]) /\ Sound(exported[k])
  /\ Rebuilds(snaps[k], k)
  /\ Exists(exported[k]) => Rebuilds(exported[k], k) /\ snaps[k].seq <= exported[k].seq

WriterSafe ==
  /\ writer.at = "publish" => writer.rec \in wal
  /\ published \subseteq wal

LogInv ==
  /\ LogTypeOK
  /\ IsFiniteSet(wal) /\ IsFiniteSet(dropped)
  /\ WriterSafe
  /\ NumbersOrdered
  /\ \A k \in Keys : Recoverable(k)

\* The invariant names the properties.
LEMMA LogInvImplies ==
  LogInv => LogTypeOK /\ PublishedIsDurable /\ NumbersAreFresh /\ MemoryIsReplayable
<1> SUFFICES ASSUME LogInv
             PROVE  LogTypeOK /\ PublishedIsDurable /\ NumbersAreFresh /\ MemoryIsReplayable
  OBVIOUS
<1>1. LogTypeOK /\ PublishedIsDurable
  BY DEF LogInv, WriterSafe, PublishedIsDurable
<1>2. NumbersAreFresh
  <2> SUFFICES ASSUME NEW r \in InFlight, NEW w \in wal, w.key = r.key, w.seq = r.seq
               PROVE  FALSE
    BY DEF NumbersAreFresh, Collides
  <2>1. w.seq \in Nat
    BY DEF LogInv, LogTypeOK, MutationRecord
  <2>2. w.seq < r.seq
    BY DEF LogInv, NumbersOrdered, InFlight
  <2> QED BY <2>1, <2>2
<1>3. MemoryIsReplayable
  BY DEF LogInv, Recoverable, Rebuilds, MemoryIsReplayable, Accepted
<1> QED BY <1>1, <1>2, <1>3

\* The commands, in two kinds: a partition is at most created, or a mutation is
\* made that its record describes.
Created(k) ==
  /\ \E c \in Nat : part' = [part EXCEPT ![k] = GetOrInit(part[k], c)]
  /\ walQueue' = walQueue

Logged(k, r) ==
  /\ r \in MutationRecord /\ r.key = k /\ r.seq = part[k].seq + 1
  /\ part[k].seq = 0 => ApplyRecovered(Blank, r) = ApplyRecovered(part[k], r)
  /\ part' = [part EXCEPT ![k] = ApplyRecovered(part[k], r)]
  /\ walQueue' = Append(walQueue, r)

LEMMA SendOrUndoEffect ==
  ASSUME NEW k \in Keys, NEW done, NEW undone, NEW type \in EventTypes, NEW h \in HoldIDs,
         NEW q \in Qtys, NEW c \in Nat, NEW size \in Nat,
         part[k].seq \in Nat, done.seq = part[k].seq + 1,
         undone = GetOrInit(part[k], size),
         LET r == [key |-> k, seq |-> done.seq, type |-> type,
                   hold |-> h, qty |-> q, cap |-> c]
         IN  /\ ApplyRecovered(part[k], r) = done
             /\ part[k].seq = 0 => ApplyRecovered(Blank, r) = done,
         SendOrUndo(k, done, undone, type, h, q, c)
  PROVE  Created(k) \/ \E r : Logged(k, r)
<1> DEFINE r == [key |-> k, seq |-> done.seq, type |-> type,
                 hold |-> h, qty |-> q, cap |-> c]
<1>1. CASE ~QueueFull
  <2>1. walQueue' = Append(walQueue, r) /\ part' = [part EXCEPT ![k] = done]
    BY <1>1 DEF SendOrUndo
  <2>2. r \in MutationRecord
    BY DEF MutationRecord
  <2>3. Logged(k, r)
    BY <2>1, <2>2 DEF Logged
  <2> QED BY <2>3
<1>2. CASE QueueFull
  BY <1>2 DEF SendOrUndo, Created
<1> QED BY <1>1, <1>2

\* One lemma per command: a hold,
LEMMA TryHoldEffect ==
  ASSUME NEW k \in Keys, Sound(part[k]), NEW h \in HoldIDs, NEW q \in Qtys,
         NEW c \in Capacities, TryHold(k, h, q, c)
  PROVE  Created(k) \/ \E r : Logged(k, r)
<1> DEFINE st == GetOrInit(part[k], c)
<1> DEFINE done == DoHold(st, h, q)
<1> DEFINE undone == UndoHold(done, h, q)
<1> DEFINE r == [key |-> k, seq |-> done.seq, type |-> "hold_created",
                 hold |-> h, qty |-> q, cap |-> st.cap]
<1>1. /\ Formed(part[k]) /\ part[k].seq \in Nat /\ c \in Nat
      /\ Exists(st) /\ st \in PartitionState /\ st.cap \in Nat /\ st.seq = part[k].seq
  BY GetOrInitForms DEF Sound, Formed, PartitionState
<1>2. ~Held(st, h) /\ SendOrUndo(k, done, undone, "hold_created", h, q, st.cap)
  BY DEF TryHold
<1>3. undone = st
  BY <1>1, <1>2, UndoHoldRestores
<1>4. done.seq = part[k].seq + 1
  <2>1. done.seq = st.seq + 1
    BY <1>1, DoHoldEffect
  <2> QED BY <1>1, <2>1
<1>5. ApplyRecovered(part[k], r) = done
  BY <1>1, <1>2, ReplayedHold
<1>6. ASSUME part[k].seq = 0 PROVE ApplyRecovered(Blank, r) = done
  <2>1. st = GetOrInit(Blank, st.cap)
    <3>1. CASE Exists(part[k])
      <4>1. part[k] = NewPartitionState(part[k].cap) /\ st = part[k]
        BY <1>6, <3>1 DEF Sound, GetOrInit
      <4> QED BY <3>1, <4>1 DEF GetOrInit, Blank, Exists, NewPartitionState
    <3>2. CASE ~Exists(part[k])
      <4>1. st = NewPartitionState(st.cap)
        BY <3>2 DEF GetOrInit, NewPartitionState
      <4> HIDE DEF st
      <4> QED BY <4>1, <1>1 DEF GetOrInit, Blank, Exists, NewPartitionState
    <3> QED BY <3>1, <3>2
  <2>2. Formed(Blank)
    BY DEF Formed, Blank, NewPartitionState, PartitionState
  <2> DEFINE size == st.cap
  <2> DEFINE st1 == GetOrInit(Blank, size)
  <2>3. size \in Nat /\ st1 = st /\ ~Held(st1, h) /\ r.cap = st1.cap
        /\ r.seq = DoHold(st1, h, q).seq
    BY <1>1, <1>2, <2>1
  <2>4. r.type = "hold_created" /\ r.hold = h /\ r.qty = q
    OBVIOUS
  <2>5. ApplyRecovered(Blank, r) = DoHold(st1, h, q)
    <3> HIDE DEF size, r
    <3> QED BY <2>2, <2>3, <2>4, ReplayedHold
  <2> QED BY <2>3, <2>5
<1> HIDE DEF done, undone
<1> QED BY <1>1, <1>2, <1>3, <1>4, <1>5, <1>6, SendOrUndoEffect DEF EventTypes

\* a refused one,
LEMMA TryHoldRefusedEffect ==
  ASSUME NEW k \in Keys, NEW h \in HoldIDs, NEW q \in Qtys, NEW c \in Capacities,
         TryHoldRefused(k, h, q, c)
  PROVE  Created(k)
BY DEF TryHoldRefused, Created

\* and the two ends of a hold, which a partition without a mutation has not.
LEMMA HeldIsUsed ==
  ASSUME NEW st, Sound(st), NEW h \in HoldIDs, Held(st, h)
  PROVE  Exists(st) /\ st.seq # 0 /\ st.holds[h] \in Qtys
<1>1. Exists(st) /\ st.holds[h] \in Qtys
  BY HeldExists DEF Sound
<1>2. st.seq # 0
  BY DEF Sound, Held, NewPartitionState
<1> QED BY <1>1, <1>2

LEMMA ReleaseHoldEffect ==
  ASSUME NEW k \in Keys, Sound(part[k]), NEW h \in HoldIDs, ReleaseHold(k, h)
  PROVE  Created(k) \/ \E r : Logged(k, r)
<1> DEFINE st == part[k]
<1> DEFINE done == DoRelease(st, h)
<1> DEFINE undone == UndoRelease(done, h, st.holds[h])
<1>1. Formed(st) /\ st \in PartitionState /\ st.seq \in Nat
  BY DEF Sound, Formed, PartitionState
<1>2. Held(st, h) /\ SendOrUndo(k, done, undone, "hold_released", h, st.holds[h], 0)
  BY DEF ReleaseHold
<1>3. Exists(st) /\ st.seq # 0 /\ st.holds[h] \in Qtys
  BY <1>2, HeldIsUsed
<1>4. undone = GetOrInit(st, 0)
  BY <1>1, <1>3, UndoReleaseRestores DEF GetOrInit
<1>5. done.seq = st.seq + 1
  BY <1>1, DoReleaseEffect
<1>6. ApplyRecovered(st, [key |-> k, seq |-> done.seq, type |-> "hold_released",
                          hold |-> h, qty |-> st.holds[h], cap |-> 0]) = done
  BY <1>1, <1>2, ReplayedRelease
<1> HIDE DEF done, undone
<1> QED BY <1>1, <1>2, <1>3, <1>4, <1>5, <1>6, SendOrUndoEffect DEF EventTypes

LEMMA ConfirmHoldEffect ==
  ASSUME NEW k \in Keys, Sound(part[k]), NEW h \in HoldIDs, ConfirmHold(k, h)
  PROVE  Created(k) \/ \E r : Logged(k, r)
<1> DEFINE st == part[k]
<1> DEFINE done == DoConfirm(st, h)
<1> DEFINE undone == UndoConfirm(done, h, st.holds[h])
<1>1. Formed(st) /\ st \in PartitionState /\ st.seq \in Nat
  BY DEF Sound, Formed, PartitionState
<1>2. Held(st, h) /\ SendOrUndo(k, done, undone, "hold_confirmed", h, st.holds[h], 0)
  BY DEF ConfirmHold
<1>3. Exists(st) /\ st.seq # 0 /\ st.holds[h] \in Qtys
  BY <1>2, HeldIsUsed
<1>4. undone = GetOrInit(st, 0)
  BY <1>1, <1>3, UndoConfirmRestores DEF GetOrInit
<1>5. done.seq = st.seq + 1
  BY <1>1, DoConfirmEffect
<1>6. ApplyRecovered(st, [key |-> k, seq |-> done.seq, type |-> "hold_confirmed",
                          hold |-> h, qty |-> st.holds[h], cap |-> 0]) = done
  BY <1>1, <1>2, ReplayedConfirm
<1> HIDE DEF done, undone
<1> QED BY <1>1, <1>2, <1>3, <1>4, <1>5, <1>6, SendOrUndoEffect DEF EventTypes

LEMMA CommandEffect ==
  ASSUME NEW k \in Keys, Sound(part[k]), NEW h \in HoldIDs, Command(k, h)
  PROVE  Created(k) \/ \E r : Logged(k, r)
BY TryHoldEffect, TryHoldRefusedEffect, ReleaseHoldEffect, ConfirmHoldEffect DEF Command

-----------------------------------------------------------------------------
\* The records on the way to the table.
QueueRecords == {walQueue[i] : i \in 1..Len(walQueue)}

InHand == IF writer.at = "append" THEN {writer.rec} ELSE {}

LEMMA InFlightIs == InFlight = QueueRecords \cup InHand
BY DEF InFlight, QueueRecords, InHand

\* They are finitely many, and so are all that were accepted.
LEMMA AcceptedTyped ==
  ASSUME LogInv
  PROVE  /\ Accepted \in SUBSET MutationRecord /\ IsFiniteSet(Accepted)
         /\ InFlight \in SUBSET MutationRecord /\ IsFiniteSet(InFlight)
<1>1. /\ walQueue \in Seq(MutationRecord) /\ Len(walQueue) \in Nat
      /\ wal \in SUBSET MutationRecord /\ dropped \in SUBSET MutationRecord
      /\ IsFiniteSet(wal) /\ IsFiniteSet(dropped)
      /\ writer \in [at: {"idle", "append", "publish"}, rec: MutationRecord \cup {NoRecord}]
      /\ (writer.at = "idle") <=> (writer.rec = NoRecord)
  BY DEF LogInv, LogTypeOK, TypeOK
<1>2. QueueRecords \in SUBSET MutationRecord /\ IsFiniteSet(QueueRecords)
  <2>1. IsFiniteSet(1..Len(walQueue))
    <3>1. 1 \in Int /\ Len(walQueue) \in Int
      BY <1>1
    <3> QED BY ONLY <3>1, FS_Interval
  <2>2. [i \in 1..Len(walQueue) |-> walQueue[i]]
          \in Surjection(1..Len(walQueue), QueueRecords)
    BY DEF Surjection, QueueRecords
  <2>3. IsFiniteSet(QueueRecords)
    BY <2>1, <2>2, FS_Surjection
  <2> QED BY <1>1, <2>3 DEF QueueRecords
<1>3. InHand \in SUBSET MutationRecord /\ IsFiniteSet(InHand)
  <2>1. writer.at = "append" => writer.rec \in MutationRecord
    BY <1>1
  <2> QED BY <2>1, FS_EmptySet, FS_Singleton DEF InHand
<1>4. InFlight \in SUBSET MutationRecord /\ IsFiniteSet(InFlight)
  BY <1>2, <1>3, InFlightIs, FS_Union
<1>5. IsFiniteSet(wal \cup InFlight)
  BY <1>1, <1>4, FS_Union
<1>6. IsFiniteSet(Accepted)
  BY <1>1, <1>5, FS_Union DEF Accepted
<1> QED BY <1>1, <1>4, <1>6 DEF Accepted

\* Nothing that recovery is about has changed for partition k.
LEMMA RecoverableKept ==
  ASSUME NEW k \in Keys, Recoverable(k), part'[k] = part[k], Accepted' = Accepted,
         snaps'[k] = snaps[k], exported'[k] = exported[k]
  PROVE  Recoverable(k)'
BY DEF Recoverable, Rebuilds, Sound, Formed, Exists, NewPartitionState, Blank, Replay

\* A step of the writer passes a record on: what was accepted is the same, the
\* memory and the snapshots are not touched.
PassesOn ==
  /\ UNCHANGED <<part, snapVars, restarts>>
  /\ Accepted' = Accepted

LEMMA PassesOnKeeps ==
  ASSUME LogInv, PassesOn,
         walQueue' \in Seq(MutationRecord),
         writer' \in [at: {"idle", "append", "publish"}, rec: MutationRecord \cup {NoRecord}],
         (writer'.at = "idle") <=> (writer'.rec = NoRecord),
         wal' \in SUBSET MutationRecord, published' \in SUBSET MutationRecord,
         dropped' \in SUBSET MutationRecord,
         IsFiniteSet(wal'), IsFiniteSet(dropped'), WriterSafe', NumbersOrdered'
  PROVE  LogInv'
<1>1. LogTypeOK'
  BY DEF LogInv, LogTypeOK, TypeOK, PassesOn, snapVars, Exists, Shards, Blank, NewPartitionState
<1>2. \A k \in Keys : Recoverable(k)'
  BY RecoverableKept DEF LogInv, PassesOn, snapVars
<1> QED BY <1>1, <1>2 DEF LogInv

\* The writer takes the record at the head of the queue,
LEMMA WriterTakeKeeps == ASSUME LogInv, WriterTake PROVE LogInv' /\ PassesOn
<1> DEFINE n == Len(walQueue)
<1>1. /\ walQueue \in Seq(MutationRecord) /\ n \in Nat /\ n # 0
      /\ wal \in SUBSET MutationRecord /\ published \in SUBSET MutationRecord
      /\ dropped \in SUBSET MutationRecord /\ IsFiniteSet(wal) /\ IsFiniteSet(dropped)
      /\ writer.at = "idle"
  BY DEF LogInv, LogTypeOK, TypeOK, WriterTake, TakeRecord
<1>2. /\ walQueue' = Tail(walQueue) /\ writer' = [at |-> "append", rec |-> walQueue[1]]
      /\ UNCHANGED <<wal, published, dropped, part, snapVars, restarts>>
  BY DEF WriterTake, TakeRecord
<1>3. /\ walQueue' \in Seq(MutationRecord) /\ Len(walQueue') = n - 1
      /\ \A i \in 1..(n - 1) : i + 1 \in 1..n /\ walQueue'[i] = walQueue[i + 1]
      /\ 1 \in 1..n /\ walQueue[1] \in MutationRecord
  BY <1>1, <1>2
<1> HIDE DEF n
<1>4. /\ writer' \in [at: {"idle", "append", "publish"}, rec: MutationRecord \cup {NoRecord}]
      /\ writer'.at = "append" /\ writer'.rec = walQueue[1] /\ writer'.rec # NoRecord
  BY <1>2, <1>3
<1>5. QueueRecords = QueueRecords' \cup {walQueue[1]}
  <2>1. ASSUME NEW i \in 1..n PROVE walQueue[i] \in QueueRecords' \cup {walQueue[1]}
    <3>1. CASE i = 1
      BY <3>1
    <3>2. CASE i # 1
      <4>1. i - 1 \in 1..(n - 1) /\ (i - 1) + 1 = i
        BY <1>1, <3>2 DEF n
      <4>2. walQueue'[i - 1] = walQueue[i]
        BY <1>3, <4>1
      <4> QED BY <4>1, <4>2, <1>3 DEF QueueRecords
    <3> QED BY <3>1, <3>2
  <2>2. ASSUME NEW i \in 1..Len(walQueue') PROVE walQueue'[i] \in QueueRecords
    BY <1>3 DEF QueueRecords, n
  <2>3. walQueue[1] \in QueueRecords
    BY <1>3 DEF QueueRecords, n
  <2> QED BY <2>1, <2>2, <2>3 DEF QueueRecords, n
<1>6. InHand = {} /\ InHand' = {walQueue[1]}
  BY <1>1, <1>4 DEF InHand
<1>7. InFlight' = InFlight
  <2>1. InFlight' = QueueRecords' \cup InHand'
    BY DEF InFlight, QueueRecords, InHand
  <2> QED BY <2>1, <1>5, <1>6, InFlightIs
<1>8. PassesOn
  BY <1>2, <1>7 DEF PassesOn, Accepted
<1>9. WriterSafe'
  BY <1>2, <1>4 DEF LogInv, WriterSafe
<1>10. NumbersOrdered'
  <2>1. \A r \in Accepted' : r.seq <= part'[r.key].seq
    BY <1>2, <1>8 DEF LogInv, NumbersOrdered, PassesOn
  <2>2. \A i, j \in 1..Len(walQueue') :
          i < j /\ walQueue'[i].key = walQueue'[j].key => walQueue'[i].seq < walQueue'[j].seq
    BY <1>1, <1>3 DEF LogInv, NumbersOrdered, n
  <2>3. \A r \in wal' \cup dropped' : \A i \in 1..Len(walQueue') :
          r.key = walQueue'[i].key => r.seq < walQueue'[i].seq
    <3> SUFFICES ASSUME NEW r \in wal' \cup dropped', NEW i \in 1..Len(walQueue')
                 PROVE  r.key = walQueue'[i].key => r.seq < walQueue'[i].seq
      OBVIOUS
    <3>1. i + 1 \in 1..n /\ walQueue'[i] = walQueue[i + 1] /\ r \in wal \cup dropped
      BY <1>2, <1>3
    <3> QED BY <3>1 DEF LogInv, NumbersOrdered, n
  <2>4. \A r \in wal' \cup dropped' : r.key = writer'.rec.key => r.seq < writer'.rec.seq
    BY <1>2, <1>3, <1>4 DEF LogInv, NumbersOrdered, n
  <2>5. \A i \in 1..Len(walQueue') :
          writer'.rec.key = walQueue'[i].key => writer'.rec.seq < walQueue'[i].seq
    <3> SUFFICES ASSUME NEW i \in 1..Len(walQueue')
                 PROVE  writer'.rec.key = walQueue'[i].key => writer'.rec.seq < walQueue'[i].seq
      OBVIOUS
    <3>1. i + 1 \in 1..n /\ 1 < i + 1 /\ walQueue'[i] = walQueue[i + 1]
      BY <1>1, <1>3
    <3> QED BY <1>3, <1>4, <3>1 DEF LogInv, NumbersOrdered, n
  <2> QED BY <2>1, <2>2, <2>3, <2>4, <2>5 DEF NumbersOrdered
<1> QED BY <1>1, <1>2, <1>3, <1>4, <1>8, <1>9, <1>10, PassesOnKeeps

\* stores it,
LEMMA AppendRecordKeeps == ASSUME LogInv, AppendRecord PROVE LogInv' /\ PassesOn
<1> DEFINE r == writer.rec
<1>1. /\ walQueue \in Seq(MutationRecord)
      /\ wal \in SUBSET MutationRecord /\ published \in SUBSET MutationRecord
      /\ dropped \in SUBSET MutationRecord /\ IsFiniteSet(wal) /\ IsFiniteSet(dropped)
      /\ writer.at = "append" /\ r \in MutationRecord /\ r # NoRecord
      /\ writer = [at |-> "append", rec |-> r]
  BY DEF LogInv, LogTypeOK, TypeOK, AppendRecord
<1>2. /\ wal' = wal \cup {r} /\ writer' = [at |-> "publish", rec |-> r]
      /\ UNCHANGED <<walQueue, published, dropped, part, snapVars, restarts>>
  BY <1>1 DEF AppendRecord, managerVars
<1>3. /\ writer' \in [at: {"idle", "append", "publish"}, rec: MutationRecord \cup {NoRecord}]
      /\ writer'.at = "publish" /\ writer'.rec = r
  BY <1>1, <1>2
<1>4. wal' \in SUBSET MutationRecord /\ IsFiniteSet(wal')
  BY <1>1, <1>2, FS_AddElement
<1>5. Accepted' = Accepted
  <2>1. InFlight = QueueRecords \cup {r}
    BY <1>1, InFlightIs DEF InHand
  <2>2. InFlight' = QueueRecords
    <3>1. InFlight' = QueueRecords' \cup InHand'
      BY DEF InFlight, QueueRecords, InHand
    <3>2. QueueRecords' = QueueRecords /\ InHand' = {}
      BY <1>2, <1>3 DEF QueueRecords, InHand
    <3> QED BY <3>1, <3>2
  <2> QED BY <1>2, <2>1, <2>2 DEF Accepted
<1>6. PassesOn
  BY <1>2, <1>5 DEF PassesOn
<1>7. WriterSafe'
  BY <1>2, <1>3 DEF LogInv, WriterSafe
<1>8. NumbersOrdered'
  <2>1. \A s \in Accepted' : s.seq <= part'[s.key].seq
    BY <1>2, <1>5 DEF LogInv, NumbersOrdered
  <2>2. \A s \in wal' \cup dropped' : \A i \in 1..Len(walQueue') :
          s.key = walQueue'[i].key => s.seq < walQueue'[i].seq
    BY <1>1, <1>2 DEF LogInv, NumbersOrdered
  <2>3. \A i, j \in 1..Len(walQueue') :
          i < j /\ walQueue'[i].key = walQueue'[j].key => walQueue'[i].seq < walQueue'[j].seq
    BY <1>2 DEF LogInv, NumbersOrdered
  <2> QED BY <1>3, <2>1, <2>2, <2>3 DEF NumbersOrdered
<1> QED BY <1>1, <1>2, <1>3, <1>4, <1>6, <1>7, <1>8, PassesOnKeeps

\* or drops it after an error,
LEMMA AppendFailsKeeps == ASSUME LogInv, AppendFails PROVE LogInv' /\ PassesOn
<1> DEFINE r == writer.rec
<1>1. /\ walQueue \in Seq(MutationRecord)
      /\ wal \in SUBSET MutationRecord /\ published \in SUBSET MutationRecord
      /\ dropped \in SUBSET MutationRecord /\ IsFiniteSet(wal) /\ IsFiniteSet(dropped)
      /\ writer.at = "append" /\ r \in MutationRecord
  BY DEF LogInv, LogTypeOK, TypeOK, AppendFails
<1>2. /\ wal' \in {wal, wal \cup {r}} /\ dropped' = dropped \cup {r} /\ writer' = Idle
      /\ UNCHANGED <<walQueue, published, part, snapVars, restarts>>
  BY DEF AppendFails, managerVars
<1>3. /\ writer' \in [at: {"idle", "append", "publish"}, rec: MutationRecord \cup {NoRecord}]
      /\ writer'.at = "idle" /\ writer'.rec = NoRecord
  BY <1>2 DEF Idle
<1>4. /\ wal' \in SUBSET MutationRecord /\ IsFiniteSet(wal')
      /\ dropped' \in SUBSET MutationRecord /\ IsFiniteSet(dropped')
  <2>1. IsFiniteSet(wal \cup {r}) /\ IsFiniteSet(dropped \cup {r})
    BY <1>1, FS_AddElement
  <2> QED BY <1>1, <1>2, <2>1
<1>5. Accepted' = Accepted
  <2>1. InFlight = QueueRecords \cup {r}
    BY <1>1, InFlightIs DEF InHand
  <2>2. InFlight' = QueueRecords
    <3>1. InFlight' = QueueRecords' \cup InHand'
      BY DEF InFlight, QueueRecords, InHand
    <3>2. QueueRecords' = QueueRecords /\ InHand' = {}
      BY <1>2, <1>3 DEF QueueRecords, InHand
    <3> QED BY <3>1, <3>2
  <2> QED BY <1>2, <2>1, <2>2 DEF Accepted
<1>6. PassesOn
  BY <1>2, <1>5 DEF PassesOn
<1>7. WriterSafe'
  BY <1>2, <1>3 DEF LogInv, WriterSafe
<1>8. NumbersOrdered'
  <2>1. \A s \in Accepted' : s.seq <= part'[s.key].seq
    BY <1>2, <1>5 DEF LogInv, NumbersOrdered
  <2>2. \A s \in wal' \cup dropped' : \A i \in 1..Len(walQueue') :
          s.key = walQueue'[i].key => s.seq < walQueue'[i].seq
    BY <1>1, <1>2 DEF LogInv, NumbersOrdered
  <2>3. \A i, j \in 1..Len(walQueue') :
          i < j /\ walQueue'[i].key = walQueue'[j].key => walQueue'[i].seq < walQueue'[j].seq
    BY <1>2 DEF LogInv, NumbersOrdered
  <2> QED BY <1>3, <2>1, <2>2, <2>3 DEF NumbersOrdered
<1> QED BY <1>1, <1>2, <1>3, <1>4, <1>6, <1>7, <1>8, PassesOnKeeps

\* and announces what it stored.
LEMMA PublishKeeps == ASSUME LogInv, Publish PROVE LogInv' /\ PassesOn
<1>1. /\ walQueue \in Seq(MutationRecord)
      /\ wal \in SUBSET MutationRecord /\ published \in SUBSET MutationRecord
      /\ dropped \in SUBSET MutationRecord /\ IsFiniteSet(wal) /\ IsFiniteSet(dropped)
      /\ writer.at = "publish" /\ writer.rec \in wal /\ published \subseteq wal
  BY DEF LogInv, LogTypeOK, TypeOK, Publish, WriterSafe
<1>2. /\ published' \in {published, published \cup {writer.rec}} /\ writer' = Idle
      /\ UNCHANGED <<walQueue, wal, dropped, part, snapVars, restarts>>
  BY DEF Publish, managerVars
<1>3. /\ writer' \in [at: {"idle", "append", "publish"}, rec: MutationRecord \cup {NoRecord}]
      /\ writer'.at = "idle" /\ writer'.rec = NoRecord
  BY <1>2 DEF Idle
<1>4. InFlight' = InFlight
  <2>1. InFlight' = QueueRecords' \cup InHand' /\ InFlight = QueueRecords \cup InHand
    BY DEF InFlight, QueueRecords, InHand
  <2>2. QueueRecords' = QueueRecords /\ InHand' = {} /\ InHand = {}
    BY <1>1, <1>2, <1>3 DEF QueueRecords, InHand
  <2> QED BY <2>1, <2>2
<1>5. PassesOn
  BY <1>2, <1>4 DEF PassesOn, Accepted
<1>6. WriterSafe' /\ published' \in SUBSET MutationRecord
  BY <1>1, <1>2, <1>3 DEF WriterSafe
<1>7. NumbersOrdered'
  BY <1>2, <1>3, <1>5 DEF LogInv, NumbersOrdered, PassesOn
<1> QED BY <1>1, <1>2, <1>3, <1>5, <1>6, <1>7, PassesOnKeeps

LEMMA WriterStepKeeps == ASSUME LogInv, WriterStep PROVE LogInv' /\ PassesOn
BY WriterTakeKeeps, AppendRecordKeeps, AppendFailsKeeps, PublishKeeps DEF WriterStep

-----------------------------------------------------------------------------
\* A mutation that is logged: what rebuilt the memory before rebuilds it after,
\* with the new record.
LEMMA LoggedRebuilds ==
  ASSUME LogInv, NEW k \in Keys, NEW r, Logged(k, r), Accepted' = Accepted \cup {r},
         NEW j \in Keys, NEW base, Formed(base), Rebuilds(base, j)
  PROVE  /\ base.seq <= part'[j].seq
         /\ IF part'[j].seq > 0 THEN Replay(base, Accepted', j) = part'[j]
            ELSE base \in {Blank, part'[j]}
<1>1. /\ Accepted \in SUBSET MutationRecord /\ IsFiniteSet(Accepted)
      /\ r \in MutationRecord /\ r.key = k /\ r.seq = part[k].seq + 1
      /\ part \in [Keys -> PartitionState] /\ part' = [part EXCEPT ![k] = ApplyRecovered(part[k], r)]
  BY AcceptedTyped DEF Logged, LogInv, LogTypeOK, TypeOK
<1>2. Accepted' \in SUBSET MutationRecord /\ IsFiniteSet(Accepted')
  BY <1>1, FS_AddElement
<1>3. CASE j # k
  <2>1. part'[j] = part[j]
    BY <1>1, <1>3
  <2>2. Needed(base, Accepted', j) = Needed(base, Accepted, j)
    BY <1>1, <1>3 DEF Needed
  <2>3. Replay(base, Accepted', j) = Replay(base, Accepted, j)
    BY <1>1, <1>2, <2>2, ReplayOfNeeded
  <2> QED BY <2>1, <2>3 DEF Rebuilds
<1>4. CASE j = k
  <2>1. /\ part'[j] = ApplyRecovered(part[k], r)
        /\ part[k].seq \in Nat /\ base.seq \in Nat /\ base.seq <= part[k].seq
        /\ Formed(part[k])
    BY <1>1, <1>4 DEF Rebuilds, Formed, PartitionState, LogInv, Recoverable, Sound
  <2>2. r.seq > part[k].seq
    BY <1>1, <2>1
  <2>3. part'[j].seq = part[k].seq + 1
    BY <1>1, <2>1, <2>2, ApplyRecoveredForms
  <2>4. Replay(base, Accepted', k) = part'[j]
    <3>1. CASE part[k].seq > 0
      <4>1. Replay(base, Accepted, k) = part[k]
        BY <1>4, <3>1 DEF Rebuilds
      <4>2. Replay(base, Accepted \cup {r}, k) = ApplyRecovered(Replay(base, Accepted, k), r)
        BY <1>1, <2>2, <4>1, ReplayOfAppend
      <4> QED BY <2>1, <4>1, <4>2
    <3>2. CASE part[k].seq = 0
      <4>1. base \in {Blank, part[k]}
        BY <1>4, <3>2 DEF Rebuilds
      <4>2. Replay(base, Accepted, k) = base
        <5>1. \A s \in Accepted : s.seq \in Nat \ {0} /\ s.seq <= part[s.key].seq
          BY <1>1 DEF MutationRecord, LogInv, NumbersOrdered
        <5>2. Needed(base, Accepted, k) = {}
          BY <3>2, <5>1 DEF Needed
        <5> QED BY <1>1, <5>2, ReplayOfNothing
      <4>3. r.seq > base.seq
        BY <1>1, <2>1
      <4>4. Replay(base, Accepted \cup {r}, k) = ApplyRecovered(base, r)
        BY <1>1, <4>2, <4>3, ReplayOfAppend
      <4>5. ApplyRecovered(base, r) = ApplyRecovered(part[k], r)
        BY <3>2, <4>1 DEF Logged
      <4> QED BY <2>1, <4>4, <4>5
    <3> QED BY <2>1, <3>1, <3>2
  <2> QED BY <1>4, <2>1, <2>3, <2>4
<1> QED BY <1>3, <1>4

\* The record is all that is new of what was accepted.
LEMMA LoggedAccepts ==
  ASSUME LogInv, NEW r, walQueue' = Append(walQueue, r), OnlyManager
  PROVE  Accepted' = Accepted \cup {r}
<1> DEFINE n == Len(walQueue)
<1>1. walQueue \in Seq(MutationRecord) /\ n \in Nat /\ walQueue' = Append(walQueue, r)
  BY DEF LogInv, LogTypeOK, TypeOK
<1>2. /\ Len(walQueue') = n + 1
      /\ \A i \in 1..n : walQueue'[i] = walQueue[i]
      /\ walQueue'[n + 1] = r
  BY <1>1
<1> HIDE DEF n
<1>3. UNCHANGED <<writer, wal, dropped>>
  BY DEF OnlyManager, writerVars
<1>4. QueueRecords' = QueueRecords \cup {r}
  <2>1. 1..Len(walQueue') = (1..n) \cup {n + 1}
    BY <1>1, <1>2 DEF n
  <2>2. QueueRecords' = {walQueue'[i] : i \in 1..n} \cup {walQueue'[n + 1]}
    BY <2>1 DEF QueueRecords
  <2>3. {walQueue'[i] : i \in 1..n} = QueueRecords
    BY <1>2 DEF QueueRecords, n
  <2> QED BY <1>2, <2>2, <2>3
<1>5. InHand' = InHand
  BY <1>3 DEF InHand
<1>6. InFlight' = QueueRecords' \cup InHand' /\ InFlight = QueueRecords \cup InHand
  BY DEF InFlight, QueueRecords, InHand
<1> QED BY <1>3, <1>4, <1>5, <1>6 DEF Accepted

LEMMA LoggedKeeps ==
  ASSUME LogInv, NEW k \in Keys, NEW r, Logged(k, r), OnlyManager
  PROVE  LogInv'
<1> DEFINE n == Len(walQueue)
<1> DEFINE next == ApplyRecovered(part[k], r)
<1>1. /\ part \in [Keys -> PartitionState] /\ walQueue \in Seq(MutationRecord) /\ n \in Nat
      /\ r \in MutationRecord /\ r.key = k /\ r.seq = part[k].seq + 1
      /\ part' = [part EXCEPT ![k] = next] /\ walQueue' = Append(walQueue, r)
      /\ \A j \in Keys : Recoverable(j)
  BY DEF Logged, LogInv, LogTypeOK, TypeOK
<1>2. part[k].seq \in Nat /\ Formed(part[k]) /\ r.seq > part[k].seq
  BY <1>1 DEF PartitionState, Recoverable, Sound
<1>3. Formed(next) /\ next.seq = r.seq
  BY <1>1, <1>2, ApplyRecoveredForms
<1>4. /\ walQueue' \in Seq(MutationRecord) /\ Len(walQueue') = n + 1
      /\ \A i \in 1..n : walQueue'[i] = walQueue[i]
      /\ walQueue'[n + 1] = r
  BY <1>1
<1> HIDE DEF next, n
<1>5. UNCHANGED <<writer, wal, published, dropped, toExport, exported, snaps, restarts>>
  BY DEF OnlyManager, writerVars, snapVars
<1>6. /\ part' \in [Keys -> PartitionState] /\ part'[k] = next
      /\ \A j \in Keys \ {k} : part'[j] = part[j]
  BY <1>1, <1>3 DEF Formed
<1>7. \A j \in Keys : Sound(part'[j])
  <2>1. \A j \in Keys \ {k} : Sound(part'[j])
    BY <1>1, <1>6 DEF Recoverable
  <2>2. Sound(part'[k])
    BY <1>1, <1>2, <1>3, <1>6 DEF Sound
  <2> QED BY <2>1, <2>2
<1>8. LogTypeOK'
  <2>1. TypeOK'
    BY <1>4, <1>6, <1>7 DEF TypeOK, Sound, Formed, Exists, Blank, NewPartitionState
  <2> QED BY <2>1, <1>5 DEF LogInv, LogTypeOK
<1>9. Accepted' = Accepted \cup {r}
  BY <1>1, LoggedAccepts
<1>10. NumbersOrdered'
  <2>1. \A s \in Accepted : s.key \in Keys /\ s.seq \in Nat /\ s.seq <= part[s.key].seq
    BY AcceptedTyped DEF MutationRecord, LogInv, NumbersOrdered
  <2>2. \A s \in Accepted : s.key = k => s.seq < r.seq
    BY <1>1, <1>2, <2>1
  <2>3. \A i \in 1..n : walQueue[i] \in Accepted
    BY DEF Accepted, InFlight, n
  <2>4. \A s \in Accepted' : s.seq <= part'[s.key].seq
    <3> SUFFICES ASSUME NEW s \in Accepted' PROVE s.seq <= part'[s.key].seq
      OBVIOUS
    <3>1. CASE s = r
      BY <1>1, <1>2, <1>3, <1>6, <3>1
    <3>2. CASE s # r /\ s.key = k
      BY <1>1, <1>2, <1>3, <1>6, <1>9, <2>1, <2>2, <3>2
    <3>3. CASE s # r /\ s.key # k
      BY <1>6, <1>9, <2>1, <3>3
    <3> QED BY <3>1, <3>2, <3>3
  <2>5. \A i \in 1..Len(walQueue') : i \in 1..n \/ i = n + 1
    BY <1>1, <1>4 DEF n
  <2>6. \A i, j \in 1..Len(walQueue') :
          i < j /\ walQueue'[i].key = walQueue'[j].key => walQueue'[i].seq < walQueue'[j].seq
    <3> SUFFICES ASSUME NEW i \in 1..Len(walQueue'), NEW j \in 1..Len(walQueue'), i < j,
                        walQueue'[i].key = walQueue'[j].key
                 PROVE  walQueue'[i].seq < walQueue'[j].seq
      OBVIOUS
    <3>1. i \in 1..n
      BY <1>1, <1>4 DEF n
    <3>2. CASE j = n + 1
      BY <1>1, <1>4, <2>2, <2>3, <3>1, <3>2
    <3>3. CASE j \in 1..n
      BY <1>4, <3>1, <3>3 DEF LogInv, NumbersOrdered, n
    <3> QED BY <2>5, <3>2, <3>3
  <2>7. \A s \in wal \cup dropped : s \in Accepted
    BY DEF Accepted
  <2>8. \A s \in wal' \cup dropped' : \A i \in 1..Len(walQueue') :
          s.key = walQueue'[i].key => s.seq < walQueue'[i].seq
    <3> SUFFICES ASSUME NEW s \in wal \cup dropped, NEW i \in 1..Len(walQueue'),
                        s.key = walQueue'[i].key
                 PROVE  s.seq < walQueue'[i].seq
      BY <1>5
    <3>1. CASE i = n + 1
      BY <1>1, <1>4, <2>2, <2>7, <3>1
    <3>2. CASE i \in 1..n
      BY <1>4, <3>2 DEF LogInv, NumbersOrdered, n
    <3> QED BY <2>5, <3>1, <3>2
  <2>9. writer.at = "append" => writer.rec \in Accepted
    BY DEF Accepted, InFlight
  <2>10. writer'.at = "append" =>
          /\ \A s \in wal' \cup dropped' : s.key = writer'.rec.key => s.seq < writer'.rec.seq
          /\ \A i \in 1..Len(walQueue') :
               writer'.rec.key = walQueue'[i].key => writer'.rec.seq < walQueue'[i].seq
    <3> SUFFICES ASSUME writer.at = "append", NEW i \in 1..Len(walQueue'),
                        writer.rec.key = walQueue'[i].key
                 PROVE  writer.rec.seq < walQueue'[i].seq
      BY <1>5 DEF LogInv, NumbersOrdered
    <3>1. CASE i = n + 1
      BY <1>1, <1>4, <2>2, <2>9, <3>1
    <3>2. CASE i \in 1..n
      BY <1>4, <3>2 DEF LogInv, NumbersOrdered, n
    <3> QED BY <2>5, <3>1, <3>2
  <2> QED BY <2>4, <2>6, <2>8, <2>10 DEF NumbersOrdered
<1>11. \A j \in Keys : Recoverable(j)'
  <2> SUFFICES ASSUME NEW j \in Keys PROVE Recoverable(j)'
    OBVIOUS
  <2>1. /\ Sound(snaps[j]) /\ Sound(exported[j]) /\ Rebuilds(snaps[j], j)
        /\ Exists(exported[j]) => Rebuilds(exported[j], j) /\ snaps[j].seq <= exported[j].seq
    BY <1>1 DEF Recoverable
  <2>2. Rebuilds(snaps[j], j)'
    BY <1>5, <1>9, <2>1, LoggedRebuilds DEF Rebuilds, Sound, Blank, NewPartitionState
  <2>3. Exists(exported[j]) => Rebuilds(exported[j], j)'
    BY <1>5, <1>9, <2>1, LoggedRebuilds DEF Rebuilds, Sound, Blank, NewPartitionState
  <2>4. Sound(part[j])' /\ Sound(snaps[j])' /\ Sound(exported[j])'
    BY <1>5, <1>7, <2>1 DEF Sound, Formed, Exists, Blank, NewPartitionState
  <2> QED BY <1>5, <2>1, <2>2, <2>3, <2>4 DEF Recoverable, Exists
<1>12. WriterSafe'
  BY <1>5 DEF LogInv, WriterSafe
<1> QED BY <1>5, <1>8, <1>10, <1>11, <1>12 DEF LogInv

\* A command that logs nothing at most creates the partition.
LEMMA CreatedKeeps ==
  ASSUME LogInv, NEW k \in Keys, Created(k), OnlyManager
  PROVE  LogInv'
<1>1. PICK c \in Nat : part' = [part EXCEPT ![k] = GetOrInit(part[k], c)]
  BY DEF Created
<1>2. /\ part \in [Keys -> PartitionState]
      /\ UNCHANGED <<walQueue, writer, wal, published, dropped, toExport, exported, snaps,
                     restarts>>
      /\ \A j \in Keys : Recoverable(j)
  BY DEF LogInv, LogTypeOK, TypeOK, Created, OnlyManager, writerVars, snapVars
<1>3. /\ GetOrInit(part[k], c) \in PartitionState /\ Formed(GetOrInit(part[k], c))
      /\ GetOrInit(part[k], c).seq = part[k].seq
  BY <1>2, GetOrInitForms DEF Recoverable, Sound
<1>4. Sound(GetOrInit(part[k], c))
  <2>1. CASE Exists(part[k])
    BY <1>2, <2>1 DEF Recoverable, GetOrInit
  <2>2. CASE ~Exists(part[k])
    <3>1. GetOrInit(part[k], c) = NewPartitionState(GetOrInit(part[k], c).cap)
      BY <2>2 DEF GetOrInit, NewPartitionState
    <3> QED BY <1>3, <3>1 DEF Sound
  <2> QED BY <2>1, <2>2
<1>5. /\ part' \in [Keys -> PartitionState]
      /\ \A j \in Keys : part'[j].seq = part[j].seq /\ Sound(part'[j])
      /\ \A j \in Keys : j # k => part'[j] = part[j]
  BY <1>1, <1>2, <1>3, <1>4 DEF Recoverable
<1>6. Accepted' = Accepted
  BY <1>2 DEF Accepted, InFlight
<1>7. LogTypeOK'
  <2>1. TypeOK'
    BY <1>2, <1>5 DEF LogInv, LogTypeOK, TypeOK, Sound, Formed, Exists, Blank, NewPartitionState
  <2> QED BY <2>1, <1>2 DEF LogInv, LogTypeOK
<1>8. NumbersOrdered'
  <2>1. \A r \in Accepted : r.key \in Keys
    BY AcceptedTyped DEF MutationRecord
  <2>2. \A r \in Accepted' : r.seq <= part'[r.key].seq
    BY <1>5, <1>6, <2>1 DEF LogInv, NumbersOrdered
  <2> QED BY <1>2, <2>2 DEF LogInv, NumbersOrdered
<1>9. \A j \in Keys : Recoverable(j)'
  <2> SUFFICES ASSUME NEW j \in Keys PROVE Recoverable(j)'
    OBVIOUS
  <2>1. CASE part'[j] = part[j]
    BY <1>2, <1>6, <2>1, RecoverableKept
  <2>2. CASE part'[j] # part[j]
    <3>1. j = k /\ ~Exists(part[k])
      BY <1>1, <1>2, <1>5, <2>2 DEF GetOrInit
    <3>2. part[j] = Blank /\ part[j].seq = 0
      <4>1. Formed(part[k]) /\ ~Exists(part[k])
        BY <1>2, <3>1 DEF Recoverable, Sound
      <4>2. part[j] = Blank
        BY <3>1, <4>1 DEF Formed
      <4> QED BY <4>2 DEF Blank, NewPartitionState
    <3>3. /\ Sound(snaps[j]) /\ Sound(exported[j]) /\ Rebuilds(snaps[j], j)
          /\ Exists(exported[j]) => Rebuilds(exported[j], j) /\ snaps[j].seq <= exported[j].seq
      BY <1>2 DEF Recoverable
    <3>4. ASSUME NEW base, Rebuilds(base, j)
          PROVE  base.seq <= part'[j].seq /\ part'[j].seq = 0 /\ base = Blank
      BY <1>5, <3>2, <3>4 DEF Rebuilds
    <3>5. Rebuilds(snaps[j], j)'
      BY <1>2, <3>3, <3>4 DEF Rebuilds, Blank, NewPartitionState
    <3>6. Exists(exported[j]) => Rebuilds(exported[j], j)'
      BY <1>2, <3>3, <3>4 DEF Rebuilds, Blank, NewPartitionState
    <3>7. Sound(part[j])' /\ Sound(snaps[j])' /\ Sound(exported[j])'
      BY <1>2, <1>5, <3>3 DEF Sound, Formed, Exists, Blank, NewPartitionState
    <3> QED BY <1>2, <3>3, <3>5, <3>6, <3>7 DEF Recoverable, Exists
  <2> QED BY <2>1, <2>2
<1>10. WriterSafe'
  BY <1>2 DEF LogInv, WriterSafe
<1> QED BY <1>2, <1>7, <1>8, <1>9, <1>10 DEF LogInv

\* So does every command.
LEMMA CommandKeeps ==
  ASSUME LogInv, NEW k \in Keys, NEW h \in HoldIDs, Command(k, h), OnlyManager
  PROVE  LogInv'
<1>1. Sound(part[k])
  BY DEF LogInv, Recoverable
<1>2. Created(k) \/ \E r : Logged(k, r)
  BY <1>1, CommandEffect
<1> QED BY <1>2, CreatedKeeps, LoggedKeeps

-----------------------------------------------------------------------------
\* The snapshot loop touches nothing but its copies and its table.
LEMMA SnapshotKeeps ==
  ASSUME LogInv, UNCHANGED <<managerVars, writerVars, restarts>>,
         toExport' \subseteq Shards,
         exported' \in [Keys -> PartitionState], snaps' \in [Keys -> PartitionState],
         \A k \in Keys : Recoverable(k)'
  PROVE  LogInv'
<1>1. LogTypeOK'
  BY DEF LogInv, LogTypeOK, TypeOK, managerVars, writerVars, Exists, Shards, Blank,
         NewPartitionState
<1>2. WriterSafe'
  BY DEF LogInv, WriterSafe, writerVars
<1>3. NumbersOrdered'
  BY DEF LogInv, NumbersOrdered, managerVars, writerVars, Accepted, InFlight
<1> QED BY <1>1, <1>2, <1>3 DEF LogInv, writerVars

\* No copy is a copy that is not there.
LEMMA NothingExported ==
  ASSUME NEW k \in Keys
  PROVE  /\ NoStates \in [Keys -> PartitionState] /\ NoStates[k] = Blank
         /\ Sound(Blank) /\ ~Exists(Blank)
BY DEF NoStates, Blank, NewPartitionState, PartitionState, Sound, Formed, Exists

\* It starts with no copies,
LEMMA StartExportKeeps == ASSUME LogInv, StartExport PROVE LogInv'
<1>1. /\ toExport' \subseteq Shards /\ exported' = exported /\ snaps' = snaps
      /\ exported \in [Keys -> PartitionState] /\ snaps \in [Keys -> PartitionState]
      /\ UNCHANGED <<managerVars, writerVars, restarts>>
  BY DEF StartExport, LogInv, LogTypeOK
<1>2. part' = part /\ Accepted' = Accepted
  BY <1>1 DEF managerVars, writerVars, Accepted, InFlight
<1>3. \A k \in Keys : Recoverable(k)'
  BY <1>1, <1>2, RecoverableKept DEF LogInv
<1> QED BY <1>1, <1>3, SnapshotKeeps

\* copies the memory of a shard, which needs no record to be rebuilt,
LEMMA ExportShardKeeps ==
  ASSUME LogInv, NEW s \in Shards, ExportShard(s)
  PROVE  LogInv'
<1>1. /\ toExport' \subseteq Shards /\ snaps' = snaps
      /\ exported' = [k \in Keys |-> IF ShardOf[k] = s THEN part[k] ELSE exported[k]]
      /\ exported \in [Keys -> PartitionState] /\ snaps \in [Keys -> PartitionState]
      /\ part \in [Keys -> PartitionState]
      /\ UNCHANGED <<managerVars, writerVars, restarts>>
  BY DEF ExportShard, LogInv, LogTypeOK, TypeOK
<1>2. part' = part /\ Accepted' = Accepted
  BY <1>1 DEF managerVars, writerVars, Accepted, InFlight
<1>3. exported' \in [Keys -> PartitionState]
  BY <1>1
<1>4. ASSUME NEW k \in Keys PROVE Recoverable(k)'
  <2>1. Recoverable(k)
    BY DEF LogInv
  <2>2. CASE ShardOf[k] # s
    <3>1. exported'[k] = exported[k]
      BY <1>1, <2>2
    <3> QED BY <1>1, <1>2, <2>1, <3>1, RecoverableKept
  <2>3. CASE ShardOf[k] = s
    <3>1. exported'[k] = part[k]
      BY <1>1, <2>3
    <3>2. /\ Sound(part[k]) /\ Sound(snaps[k]) /\ Rebuilds(snaps[k], k)
          /\ part[k].seq \in Nat
      BY <1>1, <2>1 DEF Recoverable, PartitionState
    <3>3. part[k].seq > 0 => Replay(part[k], Accepted, k) = part[k]
      <4>1. \A r \in Accepted : r.seq \in Nat /\ r.seq <= part[r.key].seq
        BY AcceptedTyped DEF MutationRecord, LogInv, NumbersOrdered
      <4>2. Needed(part[k], Accepted, k) = {}
        BY <3>2, <4>1 DEF Needed
      <4> QED BY <4>2, AcceptedTyped, ReplayOfNothing
    <3>4. Sound(part[k])' /\ Sound(snaps[k])' /\ Sound(exported[k])'
      BY <1>1, <1>2, <3>1, <3>2 DEF Sound, Formed, Exists, Blank, NewPartitionState
    <3>5. Rebuilds(snaps[k], k)'
      BY <1>1, <1>2, <3>2 DEF Rebuilds, Blank, NewPartitionState, Replay
    <3>6. Rebuilds(exported[k], k)'
      BY <1>1, <1>2, <3>1, <3>2, <3>3 DEF Rebuilds, Blank, NewPartitionState
    <3>7. snaps'[k].seq <= exported'[k].seq
      BY <1>1, <3>1, <3>2 DEF Rebuilds
    <3> QED BY <3>4, <3>5, <3>6, <3>7 DEF Recoverable
  <2> QED BY <2>2, <2>3
<1> QED BY <1>1, <1>3, <1>4, SnapshotKeeps

\* stores a copy, which was as good as the memory all along,
LEMMA StoredKeeps ==
  ASSUME LogInv, NEW k \in Keys, NextToStore(k),
         UNCHANGED <<managerVars, writerVars, toExport, restarts>>,
         snaps' \in {snaps, [snaps EXCEPT ![k] = exported[k]]},
         exported' \in {NoStates, [exported EXCEPT ![k] = Blank]}
  PROVE  LogInv'
<1>1. /\ exported \in [Keys -> PartitionState] /\ snaps \in [Keys -> PartitionState]
      /\ toExport \subseteq Shards /\ Exists(exported[k])
  BY DEF LogInv, LogTypeOK, NextToStore
<1>2. part' = part /\ Accepted' = Accepted
  BY DEF managerVars, writerVars, Accepted, InFlight
<1>3. /\ exported' \in [Keys -> PartitionState] /\ snaps' \in [Keys -> PartitionState]
      /\ exported'[k] = Blank
  BY <1>1, NothingExported DEF NoStates
<1>4. ASSUME NEW j \in Keys PROVE Recoverable(j)'
  <2>1. /\ Sound(part[j]) /\ Sound(snaps[j]) /\ Sound(exported[j]) /\ Rebuilds(snaps[j], j)
        /\ Exists(exported[j]) => Rebuilds(exported[j], j) /\ snaps[j].seq <= exported[j].seq
    BY DEF LogInv, Recoverable
  <2>2. snaps'[j] \in {snaps[j], exported[j]} /\ (snaps'[j] # snaps[j] => j = k)
    BY <1>1
  <2>3. /\ exported'[j] \in {exported[j], Blank}
        /\ exported'[j] # Blank => snaps'[j] = snaps[j]
    BY <1>1, <1>3, <2>2 DEF NoStates
  <2>4. Sound(snaps'[j]) /\ Sound(exported'[j])
    BY <2>1, <2>2, <2>3, NothingExported
  <2>5. Rebuilds(snaps'[j], j)
    BY <1>1, <2>1, <2>2
  <2>6. Exists(exported'[j]) => Rebuilds(exported'[j], j) /\ snaps'[j].seq <= exported'[j].seq
    BY <2>1, <2>3, NothingExported
  <2>7. Sound(part[j])' /\ Sound(snaps[j])' /\ Sound(exported[j])'
    BY <1>2, <2>1, <2>4 DEF Sound, Formed, Exists, Blank, NewPartitionState
  <2>8. Rebuilds(snaps[j], j)'
    BY <1>2, <2>5 DEF Rebuilds, Blank, NewPartitionState, Replay
  <2>9. Exists(exported[j])' => Rebuilds(exported[j], j)' /\ snaps'[j].seq <= exported'[j].seq
    BY <1>2, <2>6 DEF Rebuilds, Blank, NewPartitionState, Replay, Exists
  <2> QED BY <2>7, <2>8, <2>9 DEF Recoverable
<1> QED BY <1>1, <1>3, <1>4, SnapshotKeeps

\* and that is all it does.
LEMMA SnapshotStepKeeps == ASSUME LogInv, SnapshotStep PROVE LogInv'
<1>1. ASSUME NEW k \in Keys, UpsertSnapshot(k) PROVE LogInv'
  BY <1>1, StoredKeeps DEF UpsertSnapshot
<1>2. ASSUME NEW k \in Keys, UpsertFails(k) PROVE LogInv'
  BY <1>2, StoredKeeps DEF UpsertFails
<1> QED BY <1>1, <1>2, StartExportKeeps, ExportShardKeeps DEF SnapshotStep

-----------------------------------------------------------------------------
\* After a restart the memory is, by definition, what snapshot and log rebuild.
LEMMA RestartKeeps == ASSUME LogInv, Restart PROVE LogInv'
<1>1. /\ part' = [k \in Keys |-> Replay(snaps[k], wal, k)] /\ walQueue' = <<>>
      /\ writer' = Idle /\ dropped' = {} /\ toExport' = {} /\ exported' = NoStates
      /\ wal' = wal /\ published' = published /\ snaps' = snaps
      /\ restarts' = restarts + 1 /\ restarts < MaxRestarts
  BY DEF Restart, Recovered
<1>2. /\ wal \in SUBSET MutationRecord /\ IsFiniteSet(wal)
      /\ published \in SUBSET MutationRecord /\ published \subseteq wal
      /\ snaps \in [Keys -> PartitionState] /\ restarts \in 0..MaxRestarts
      /\ \A k \in Keys : Sound(snaps[k])
  BY DEF LogInv, LogTypeOK, WriterSafe, Recoverable
<1>3. ASSUME NEW k \in Keys
      PROVE  /\ Sound(part'[k]) /\ part'[k] = Replay(snaps[k], wal, k)
             /\ snaps[k].seq <= part'[k].seq
             /\ \A r \in wal : r.key = k => r.seq <= part'[k].seq
             /\ part'[k].seq > 0 \/ part'[k] = snaps[k]
  <2> DEFINE st == Replay(snaps[k], wal, k)
  <2>1. /\ Formed(st) /\ st.seq >= snaps[k].seq
        /\ \A r \in wal : r.key = k => r.seq <= st.seq
        /\ st = snaps[k] \/ \E r \in wal : r.key = k /\ r.seq = st.seq
    BY <1>2, ReplayForms DEF Sound
  <2>2. part'[k] = st
    BY <1>1
  <2> HIDE DEF st
  <2>3. st.seq \in Nat /\ snaps[k].seq \in Nat /\ \A r \in wal : r.seq \in Nat \ {0}
    BY <1>2, <2>1 DEF Formed, PartitionState, MutationRecord
  <2>4. st.seq > 0 \/ st = snaps[k]
    BY <2>1, <2>3
  <2>5. Sound(st)
    BY <1>2, <2>1, <2>3, <2>4 DEF Sound
  <2> QED BY <2>1, <2>2, <2>3, <2>4, <2>5 DEF st
<1>4. part' \in [Keys -> PartitionState]
  <2>1. \A k \in Keys : part'[k] \in PartitionState
    BY <1>3 DEF Sound, Formed
  <2>2. part' = [k \in Keys |-> part'[k]]
    BY <1>1
  <2> QED BY <2>1, <2>2
<1>5. InFlight' = {} /\ Accepted' = wal
  <2>1. QueueRecords' = {} /\ InHand' = {}
    BY <1>1 DEF QueueRecords, InHand, Idle
  <2>2. InFlight' = QueueRecords' \cup InHand'
    BY DEF InFlight, QueueRecords, InHand
  <2> QED BY <1>1, <2>1, <2>2 DEF Accepted
<1>6. LogTypeOK'
  <2>1. TypeOK'
    <3>1. walQueue' \in Seq(MutationRecord)
      BY <1>1
    <3>2. \A k \in Keys : ~Exists(part'[k]) => part'[k] = Blank
      BY <1>3 DEF Sound, Formed
    <3> QED BY <1>4, <3>1, <3>2 DEF TypeOK, Exists, Blank, NewPartitionState
  <2>2. exported' \in [Keys -> PartitionState]
    BY <1>1 DEF NoStates, Blank, NewPartitionState, PartitionState
  <2>3. /\ writer' \in [at: {"idle", "append", "publish"}, rec: MutationRecord \cup {NoRecord}]
        /\ writer'.at = "idle" /\ writer'.rec = NoRecord
    BY <1>1 DEF Idle
  <2> QED BY <1>1, <1>2, <2>1, <2>2, <2>3 DEF LogTypeOK
<1>7. WriterSafe'
  BY <1>1, <1>2 DEF WriterSafe, Idle
<1>8. NumbersOrdered'
  <2>1. \A r \in Accepted' : r.seq <= part'[r.key].seq
    BY <1>2, <1>3, <1>5 DEF MutationRecord
  <2> QED BY <1>1, <2>1 DEF NumbersOrdered, Idle
<1>9. ASSUME NEW k \in Keys PROVE Recoverable(k)'
  <2>1. Sound(part[k])' /\ Sound(snaps[k])' /\ Sound(exported[k])'
    BY <1>1, <1>2, <1>3, NothingExported DEF Sound, Formed, Exists, Blank, NewPartitionState
  <2>2. ~Exists(exported[k])'
    BY <1>1, NothingExported DEF Exists
  <2>3. Rebuilds(snaps[k], k)'
    BY <1>1, <1>3, <1>5 DEF Rebuilds
  <2> QED BY <2>1, <2>2, <2>3 DEF Recoverable
<1>10. IsFiniteSet(wal)' /\ IsFiniteSet(dropped)'
  BY <1>1, <1>2, FS_EmptySet
<1> QED BY <1>6, <1>7, <1>8, <1>9, <1>10 DEF LogInv

-----------------------------------------------------------------------------
\* Nothing is stored at first, and no partition exists.
LEMMA LogInitIsSafe == LogInit => LogInv
<1> SUFFICES ASSUME LogInit PROVE LogInv
  OBVIOUS
<1>1. /\ part = [k \in Keys |-> Blank] /\ walQueue = <<>> /\ writer = Idle
      /\ wal = {} /\ published = {} /\ dropped = {} /\ toExport = {}
      /\ exported = NoStates /\ snaps = NoStates /\ restarts = 0
  BY DEF LogInit, Init
<1>2. Blank \in PartitionState /\ Sound(Blank) /\ ~Exists(Blank) /\ Blank.seq = 0
  BY DEF Blank, NewPartitionState, PartitionState, Sound, Formed, Exists
<1>3. LogTypeOK
  <2>1. walQueue \in Seq(MutationRecord)
    BY <1>1
  <2>2. TypeOK
    BY <1>1, <1>2, <2>1 DEF TypeOK
  <2>3. /\ writer \in [at: {"idle", "append", "publish"}, rec: MutationRecord \cup {NoRecord}]
        /\ writer.at = "idle" /\ writer.rec = NoRecord
    BY <1>1 DEF Idle
  <2> QED BY <1>1, <1>2, <2>2, <2>3 DEF LogTypeOK, NoStates
<1>4. Accepted = {}
  BY <1>1 DEF Accepted, InFlight, Idle
<1>5. NumbersOrdered
  BY <1>1, <1>4 DEF NumbersOrdered, Idle
<1>6. \A k \in Keys : Recoverable(k)
  BY <1>1, <1>2 DEF Recoverable, Rebuilds, NoStates
<1>7. WriterSafe
  BY <1>1 DEF WriterSafe, Idle
<1>8. IsFiniteSet(wal) /\ IsFiniteSet(dropped)
  BY <1>1, FS_EmptySet
<1> QED BY <1>3, <1>5, <1>6, <1>7, <1>8 DEF LogInv

\* Every step keeps the invariant.
LEMMA LogNextIsSafe == LogInv /\ [LogNext]_logVars => LogInv'
<1> SUFFICES ASSUME LogInv, [LogNext]_logVars PROVE LogInv'
  OBVIOUS
<1>1. ASSUME NEW k \in Keys, NEW h \in HoldIDs, Command(k, h), OnlyManager PROVE LogInv'
  BY <1>1, CommandKeeps
<1>2. CASE UNCHANGED logVars
  <2>1. UNCHANGED <<part, walQueue, writer, wal, published, dropped, toExport, exported,
                    snaps, restarts>>
    BY <1>2 DEF logVars, managerVars, writerVars, snapVars
  <2>2. Accepted' = Accepted
    BY <2>1 DEF Accepted, InFlight
  <2>3. \A k \in Keys : Recoverable(k)'
    BY <2>1, <2>2, RecoverableKept DEF LogInv
  <2> QED BY <2>1, <2>3, SnapshotKeeps
       DEF LogInv, LogTypeOK, managerVars, writerVars, snapVars
<1> QED BY <1>1, <1>2, WriterStepKeeps, SnapshotStepKeeps, RestartKeeps DEF LogNext, OnlyManager

LEMMA LogAlwaysSafe == LogSpec => []LogInv
BY LogInitIsSafe, LogNextIsSafe, PTL DEF LogSpec

\* The manager, the writer and the snapshot loop keep the types of what they pass
\* on, whatever fails and however often the process restarts.
THEOREM LogTypeCorrect == LogSpec => []LogTypeOK
BY LogAlwaysSafe, LogInvImplies, PTL

\* The WAL writer never meets the unique key of inventory_wal: after a restart the
\* recovered partition counts on from the last number of the log.
THEOREM FreshNumbers == LogSpec => []NumbersAreFresh
BY LogAlwaysSafe, LogInvImplies, PTL

\* Snapshot, log, queue and dropped records rebuild every partition that was ever
\* changed: replay (service.go:98-125) computes what the handlers computed.
THEOREM MemoryReplayable == LogSpec => []MemoryIsReplayable
BY LogAlwaysSafe, LogInvImplies, PTL

\* Whatever the writer announced is in the log (service.go:188-201).
THEOREM PublishedDurable == LogSpec => []PublishedIsDurable
BY LogAlwaysSafe, LogInvImplies, PTL

-----------------------------------------------------------------------------
\* A copy is stored only over an older one.
LEMMA SnapshotStepAdvances ==
  LogInv /\ LogInv' /\ [LogNext]_logVars =>
    [\A k \in Keys : /\ snaps'[k].seq >= snaps[k].seq
                     /\ snaps'[k].seq <= part'[k].seq]_logVars
<1> SUFFICES ASSUME LogInv, LogInv', [LogNext]_logVars, NEW k \in Keys
             PROVE  /\ snaps'[k].seq >= snaps[k].seq
                    /\ snaps'[k].seq <= part'[k].seq
  OBVIOUS
<1>1. snaps'[k].seq <= part'[k].seq
  BY DEF LogInv, Recoverable, Rebuilds
<1>2. /\ snaps \in [Keys -> PartitionState] /\ snaps[k].seq \in Nat
      /\ Exists(exported[k]) => snaps[k].seq <= exported[k].seq
      /\ exported[k].seq \in Nat
  BY DEF LogInv, LogTypeOK, Recoverable, PartitionState
<1>3. snaps'[k] = snaps[k] \/ (Exists(exported[k]) /\ snaps'[k] = exported[k])
  <2>1. ASSUME NEW j \in Keys, UpsertSnapshot(j) \/ UpsertFails(j)
        PROVE  snaps'[k] = snaps[k] \/ (Exists(exported[k]) /\ snaps'[k] = exported[k])
    <3>1. /\ Exists(exported[j])
          /\ snaps' = snaps \/ snaps' = [snaps EXCEPT ![j] = exported[j]]
      BY <2>1 DEF UpsertSnapshot, UpsertFails, NextToStore
    <3> QED BY <1>2, <3>1
  <2>2. snaps' = snaps \/ \E j \in Keys : UpsertSnapshot(j) \/ UpsertFails(j)
    BY DEF LogNext, WriterStep, WriterTake, AppendRecord, AppendFails, Publish,
           SnapshotStep, StartExport, ExportShard, Restart, logVars, snapVars
  <2> QED BY <2>1, <2>2
<1> QED BY <1>1, <1>2, <1>3

\* The snapshot loop replaces a snapshot by one that is not older, and that memory
\* has reached: a copy made before a restart is never stored after it.
THEOREM SnapshotsOnlyAdvance == LogSpec => SnapshotsAdvance
BY LogAlwaysSafe, SnapshotStepAdvances, PTL DEF LogSpec, SnapshotsAdvance

\* What a restart forgets is in flight: the log has the records before it.
LEMMA RestartForgets ==
  ASSUME LogInv, Restart, NEW k \in Keys, part[k].seq > 0, NothingMissing(k)
  PROVE  Replay(part'[k], InFlight, k) = part[k]
<1>1. /\ Accepted \in SUBSET MutationRecord /\ IsFiniteSet(Accepted)
      /\ InFlight \in SUBSET MutationRecord /\ IsFiniteSet(InFlight)
      /\ wal \in SUBSET MutationRecord /\ IsFiniteSet(wal)
      /\ Formed(snaps[k]) /\ Replay(snaps[k], Accepted, k) = part[k]
  BY AcceptedTyped DEF LogInv, LogTypeOK, Recoverable, Sound, Rebuilds
<1>2. part'[k] = Replay(snaps[k], wal, k)
  BY DEF Restart, Recovered
<1>3. wal \cup InFlight \in SUBSET MutationRecord /\ IsFiniteSet(wal \cup InFlight)
  BY <1>1, FS_Union
<1>4. Needed(snaps[k], Accepted, k) = Needed(snaps[k], wal \cup InFlight, k)
  <2>1. snaps[k].seq \in Nat /\ \A r \in Accepted : r.seq \in Nat
    BY <1>1 DEF Formed, PartitionState, MutationRecord
  <2>2. \A r \in dropped : r.key = k /\ r.seq > snaps[k].seq => r \in wal
    BY <2>1 DEF NothingMissing, Accepted
  <2> QED BY <2>2 DEF Needed, Accepted
<1>5. Replay(snaps[k], wal \cup InFlight, k) = part[k]
  BY <1>1, <1>3, <1>4, ReplayOfNeeded
<1>6. \A r \in wal, s \in InFlight : r.key = k /\ s.key = k => r.seq < s.seq
  BY DEF InFlight, LogInv, NumbersOrdered
<1>7. Replay(snaps[k], wal \cup InFlight, k) = Replay(Replay(snaps[k], wal, k), InFlight, k)
  BY <1>1, <1>6, ReplayInParts
<1> QED BY <1>2, <1>5, <1>7

LEMMA OnlyRestartsCount ==
  ASSUME LogInv, [LogNext]_logVars, restarts' > restarts
  PROVE  Restart
<1>1. restarts' = restarts \/ Restart
  BY DEF LogNext, WriterStep, WriterTake, AppendRecord, AppendFails, Publish,
         SnapshotStep, StartExport, ExportShard, UpsertSnapshot, UpsertFails, logVars
<1>2. restarts \in Nat
  BY DEF LogInv, LogTypeOK
<1> QED BY <1>1, <1>2

LEMMA StepLosesOnlyInFlight ==
  LogInv /\ [LogNext]_logVars =>
    [restarts' > restarts =>
       \A k \in Keys : (part[k].seq > 0 /\ NothingMissing(k)) =>
         Replay(part'[k], InFlight, k) = part[k]]_logVars
BY OnlyRestartsCount, RestartForgets

\* A restart takes from a partition the records in flight and nothing else, unless
\* the writer had dropped one that no snapshot covers.
THEOREM RestartsLoseOnlyInFlight == LogSpec => RestartLosesOnlyInFlight
BY LogAlwaysSafe, StepLosesOnlyInFlight, PTL DEF LogSpec, RestartLosesOnlyInFlight

-----------------------------------------------------------------------------
(* The seats of a partition, through recovery.                             *)

\* A partition starts with balanced books,
LEMMA NewStateBalances == ASSUME NEW c \in Nat PROVE Balanced(NewPartitionState(c))
<1> DEFINE st == NewPartitionState(c)
<1>1. HeldSeats(st) = {}
  BY DEF HeldSeats, Qtys, NewPartitionState
<1>2. Cardinality(HeldSeats(st)) = 0
  BY <1>1, FS_EmptySet
<1> QED BY <1>2 DEF Balanced, NewPartitionState

\* also if it is created on first use,
LEMMA GetOrInitBalances ==
  ASSUME NEW st, Balanced(st), NEW c \in Nat
  PROVE  Balanced(GetOrInit(st, c))
BY NewStateBalances DEF GetOrInit

\* and a record that is replayed leaves them balanced: what does not fit is skipped.
LEMMA ApplyRecoveredBalances ==
  ASSUME NEW st, Formed(st), Balanced(st), NEW r \in MutationRecord
  PROVE  Balanced(ApplyRecovered(st, r))
<1> DEFINE st1 == GetOrInit(st, r.cap)
<1>1. /\ r.hold \in HoldIDs /\ r.qty \in Qtys /\ r.cap \in Nat
      /\ st1 \in PartitionState /\ Balanced(st1)
  BY GetOrInitForms, GetOrInitBalances DEF MutationRecord
<1> HIDE DEF st1
<1> DEFINE replayed ==
        CASE r.type = "hold_created" /\ ~Held(st1, r.hold) -> DoHold(st1, r.hold, r.qty)
          [] r.type = "hold_released" /\ Held(st1, r.hold) -> DoRelease(st1, r.hold)
          [] r.type = "hold_confirmed" /\ Held(st1, r.hold) -> DoConfirm(st1, r.hold)
          [] OTHER -> st1
<1>2. ApplyRecovered(st, r) = IF r.seq <= st1.seq THEN st1 ELSE [replayed EXCEPT !.seq = r.seq]
  BY DEF ApplyRecovered, st1
<1>3. \/ replayed = st1
      \/ ~Held(st1, r.hold) /\ replayed = DoHold(st1, r.hold, r.qty)
      \/ Held(st1, r.hold) /\ replayed = DoRelease(st1, r.hold)
      \/ Held(st1, r.hold) /\ replayed = DoConfirm(st1, r.hold)
  OBVIOUS
<1> HIDE DEF replayed
<1>4. Balanced(replayed)
  BY <1>1, <1>3, DoHoldBalances, DoReleaseBalances, DoConfirmBalances
<1>5. replayed \in PartitionState
  <2>1. DoHold(st1, r.hold, r.qty) \in PartitionState
    BY <1>1, DoHoldEffect
  <2>2. DoRelease(st1, r.hold) \in PartitionState
    BY <1>1, DoReleaseEffect
  <2>3. DoConfirm(st1, r.hold) \in PartitionState
    BY <1>1, DoConfirmEffect
  <2> QED BY <1>1, <1>3, <2>1, <2>2, <2>3
<1> DEFINE last == [replayed EXCEPT !.seq = r.seq]
<1>6. /\ last.cap = replayed.cap /\ last.avail = replayed.avail
      /\ last.conf = replayed.conf /\ last.holds = replayed.holds
  BY <1>5 DEF PartitionState
<1>7. Balanced(last)
  <2> HIDE DEF last
  <2> QED BY <1>4, <1>6, HeldSeatsOfHolds DEF Balanced
<1> QED BY <1>1, <1>2, <1>7

\* So does a replay of any records, complete or not.
LEMMA ReplayBalances ==
  ASSUME NEW base, Formed(base), Balanced(base),
         NEW log \in SUBSET MutationRecord, IsFiniteSet(log), NEW k
  PROVE  Balanced(Replay(base, log, k))
<1> DEFINE upTo == ReplayUpTo(base, log, k)
<1> DEFINE S == {n \in Nat : Balanced(upTo[n])}
<1>1. /\ upTo[0] = base
      /\ \A n \in Nat \ {0} : upTo[n] = ReplayStep(base, log, k, upTo[n - 1], n)
  BY ReplayRecursion
<1>2. \A n \in Nat : Formed(upTo[n])
  BY ReplayCovers DEF CoversUpTo
<1> HIDE DEF upTo
<1>3. 0 \in S
  BY <1>1
<1>4. ASSUME NEW n \in Nat, n \in S PROVE n + 1 \in S
  <2>1. n + 1 \in Nat \ {0} /\ (n + 1) - 1 = n
    OBVIOUS
  <2>2. upTo[n + 1] = ReplayStep(base, log, k, upTo[n], n + 1)
    BY <1>1, <2>1
  <2>3. Balanced(upTo[n]) /\ Formed(upTo[n])
    BY <1>2, <1>4
  <2>4. CASE Numbered(base, log, k, n + 1) = {}
    BY <2>2, <2>3, <2>4 DEF ReplayStep
  <2>5. CASE Numbered(base, log, k, n + 1) # {}
    <3> DEFINE r == CHOOSE r \in Numbered(base, log, k, n + 1) : TRUE
    <3>1. r \in Numbered(base, log, k, n + 1)
      BY <2>5
    <3>2. upTo[n + 1] = ApplyRecovered(upTo[n], r)
      BY <2>2, <2>5 DEF ReplayStep
    <3> HIDE DEF r
    <3>3. r \in MutationRecord
      BY <3>1 DEF Numbered
    <3> QED BY <2>3, <3>2, <3>3, ApplyRecoveredBalances
  <2> QED BY <2>4, <2>5
<1> HIDE DEF S
<1>5. \A n \in Nat : n >= 0 => n \in S
  BY <1>3, <1>4, Induction
<1>6. LastNumber(log) \in Nat /\ Replay(base, log, k) = upTo[LastNumber(log)]
  BY LastNumberIsLast, ReplayIsLast DEF upTo
<1> QED BY <1>5, <1>6 DEF S

\* The invariant: a copy that will be stored balances as well.
BooksBalance ==
  \A k \in Keys : Balanced(part[k]) /\ Balanced(snaps[k]) /\ Balanced(exported[k])

LEMMA BooksInit == LogInit => BooksBalance
<1>1. Balanced(Blank)
  BY NewStateBalances DEF Blank
<1> QED BY <1>1 DEF LogInit, Init, NoStates, BooksBalance

\* Every step keeps it, whatever fails.
LEMMA BooksStep == LogInv /\ BooksBalance /\ [LogNext]_logVars => BooksBalance'
<1> SUFFICES ASSUME LogInv, BooksBalance, [LogNext]_logVars PROVE BooksBalance'
  OBVIOUS
<1>1. /\ part \in [Keys -> PartitionState] /\ snaps \in [Keys -> PartitionState]
      /\ exported \in [Keys -> PartitionState] /\ wal \in SUBSET MutationRecord
      /\ IsFiniteSet(wal)
      /\ \A k \in Keys : Sound(part[k]) /\ Formed(part[k]) /\ Formed(snaps[k])
  BY DEF LogInv, LogTypeOK, TypeOK, Recoverable, Sound
<1>2. SUFFICES \A k \in Keys : /\ Balanced(part'[k]) /\ Balanced(snaps'[k])
                               /\ Balanced(exported'[k])
  BY DEF BooksBalance, Balanced, HeldSeats
<1>3. Balanced(Blank)
  BY NewStateBalances DEF Blank
<1>4. \A k \in Keys : Balanced(part[k]) /\ Balanced(snaps[k]) /\ Balanced(exported[k])
  BY DEF BooksBalance
<1>5. ASSUME NEW k \in Keys, NEW h \in HoldIDs, Command(k, h), OnlyManager
      PROVE  \A j \in Keys : Balanced(part'[j]) /\ Balanced(snaps'[j]) /\ Balanced(exported'[j])
  <2>1. snaps' = snaps /\ exported' = exported
    BY <1>5 DEF OnlyManager, snapVars
  <2>2. PICK st : part' = [part EXCEPT ![k] = st] /\ Balanced(st)
    <3>1. Created(k) \/ \E r : Logged(k, r)
      BY <1>1, <1>5, CommandEffect
    <3>2. CASE Created(k)
      BY <1>4, <3>2, GetOrInitBalances DEF Created
    <3>3. ASSUME NEW r, Logged(k, r)
          PROVE  \E st : part' = [part EXCEPT ![k] = st] /\ Balanced(st)
      BY <1>1, <1>4, <3>3, ApplyRecoveredBalances DEF Logged
    <3> QED BY <3>1, <3>2, <3>3
  <2> QED BY <1>1, <1>4, <2>1, <2>2
<1>6. CASE WriterStep
  <2>1. UNCHANGED <<part, snapVars>>
    BY <1>6, WriterStepKeeps DEF PassesOn
  <2> QED BY <1>4, <2>1 DEF snapVars
<1>7. CASE SnapshotStep
  <2>1. part' = part
    BY <1>7 DEF SnapshotStep, StartExport, ExportShard, UpsertSnapshot, UpsertFails, managerVars
  <2>2. ASSUME NEW j \in Keys
        PROVE  /\ snaps'[j] \in {snaps[j], exported[j]}
               /\ exported'[j] \in {exported[j], part[j], Blank}
    BY <1>1, <1>7 DEF SnapshotStep, StartExport, ExportShard, UpsertSnapshot, UpsertFails,
       NoStates
  <2> QED BY <1>3, <1>4, <2>1, <2>2
<1>8. CASE Restart
  <2>1. /\ part' = [k \in Keys |-> Replay(snaps[k], wal, k)]
        /\ snaps' = snaps /\ exported' = NoStates
    BY <1>8 DEF Restart, Recovered
  <2>2. \A k \in Keys : Balanced(Replay(snaps[k], wal, k))
    BY <1>1, <1>4, ReplayBalances
  <2> QED BY <1>3, <1>4, <2>1, <2>2 DEF NoStates
<1>9. CASE UNCHANGED logVars
  BY <1>4, <1>9 DEF logVars, managerVars, snapVars
<1> QED BY <1>5, <1>6, <1>7, <1>8, <1>9 DEF LogNext, OnlyManager

\* Memory and snapshots balance whatever fails: a record that is missing from the log
\* may let recovery sell a seat twice, but no seat is counted twice or lost.
THEOREM SeatsBalanced == LogSpec => []SeatsBalance
<1>1. BooksBalance => SeatsBalance
  BY DEF BooksBalance, SeatsBalance
<1> QED BY <1>1, LogAlwaysSafe, BooksInit, BooksStep, PTL DEF LogSpec

-----------------------------------------------------------------------------
(* Recovery from a log that misses nothing.                                *)

\* Every state that a replay of the accepted records goes through is a good one: a
\* replay that ends early, as the one after a crash does, ends in a good state.
GoodOnTheWay(base, log, k) == \A n \in Nat : GoodState(ReplayUpTo(base, log, k)[n])

LEMMA OnTheWayKept ==
  ASSUME NEW base, NEW log, NEW log2, NEW k, GoodOnTheWay(base, log, k),
         \A n \in Nat : Numbered(base, log2, k, n) = Numbered(base, log, k, n)
  PROVE  GoodOnTheWay(base, log2, k)
<1> SUFFICES ASSUME NEW n \in Nat PROVE GoodState(ReplayUpTo(base, log2, k)[n])
  BY DEF GoodOnTheWay
<1>1. ReplayUpTo(base, log2, k)[0] = ReplayUpTo(base, log, k)[0]
  BY ReplayRecursion
<1>2. ReplayUpTo(base, log2, k)[n] = ReplayUpTo(base, log, k)[n]
  BY <1>1, ReplaysAgree
<1> QED BY <1>2 DEF GoodOnTheWay

\* Where no record is needed, the way is short.
LEMMA OnNoWay ==
  ASSUME NEW base, GoodState(base), NEW log, NEW k,
         \A n \in Nat : Numbered(base, log, k, n) = {}
  PROVE  GoodOnTheWay(base, log, k)
<1> SUFFICES ASSUME NEW n \in Nat PROVE GoodState(ReplayUpTo(base, log, k)[n])
  BY DEF GoodOnTheWay
<1>1. ReplayUpTo(base, log, k)[n] = ReplayUpTo(base, log, k)[0]
  BY ReplayRests
<1> QED BY <1>1, ReplayRecursion

\* A record that comes after the others adds the state it leads to.
LEMMA OnTheWayOneMore ==
  ASSUME NEW base, Formed(base), NEW log \in SUBSET MutationRecord, IsFiniteSet(log),
         NEW r \in MutationRecord, GoodOnTheWay(base, log, r.key),
         \A s \in log : s.key = r.key => s.seq < r.seq,
         GoodState(Replay(base, log \cup {r}, r.key))
  PROVE  GoodOnTheWay(base, log \cup {r}, r.key)
<1> DEFINE all == log \cup {r}
<1> DEFINE k == r.key
<1>1. /\ all \in SUBSET MutationRecord /\ IsFiniteSet(all) /\ r.seq \in Nat
      /\ \A s \in log : s.seq \in Nat
  BY FS_AddElement DEF MutationRecord
<1>2. \A s \in all : s.key = k => s.seq <= r.seq
  BY <1>1
<1> SUFFICES ASSUME NEW n \in Nat PROVE GoodState(ReplayUpTo(base, all, k)[n])
  BY DEF GoodOnTheWay
<1> HIDE DEF all, k
<1>3. CASE n >= r.seq
  <2>1. \A s \in all : s.key = k => s.seq <= n
    BY <1>1, <1>2, <1>3 DEF MutationRecord
  <2>2. Replay(base, all, k) = ReplayUpTo(base, all, k)[n]
    BY <1>1, <2>1, ReplayAt
  <2> QED BY <2>2 DEF all, k
<1>4. CASE n < r.seq
  <2>1. \A i \in Nat : i <= n => Numbered(base, all, k, i) = Numbered(base, log, k, i)
    BY <1>1, <1>4 DEF Numbered, all
  <2>2. ReplayUpTo(base, all, k)[0] = ReplayUpTo(base, log, k)[0]
    BY ReplayRecursion
  <2>3. \A i \in Nat : i >= 0 /\ i <= n =>
          ReplayUpTo(base, all, k)[i] = ReplayUpTo(base, log, k)[i]
    BY <2>1, <2>2, ReplaysAgree
  <2> QED BY <2>3 DEF GoodOnTheWay, k
<1> QED BY <1>1, <1>3, <1>4

\* The invariant while no insert fails.
OnTheWay ==
  \A k \in Keys :
    /\ GoodOnTheWay(snaps[k], Accepted, k)
    /\ Exists(exported[k]) => GoodOnTheWay(exported[k], Accepted, k)

NothingLost ==
  /\ SafeState
  /\ dropped = {}
  /\ OnTheWay

\* The invariant after a step, from the values its variables have then.
LEMMA OnTheWayThen ==
  ASSUME \A k \in Keys :
           /\ GoodOnTheWay(snaps'[k], Accepted', k)
           /\ Exists(exported'[k]) => GoodOnTheWay(exported'[k], Accepted', k)
  PROVE  OnTheWay'
BY Zenon DEF OnTheWay, GoodOnTheWay, ReplayUpTo, ReplayStep, Numbered, GoodState, Exists

LEMMA NothingLostInit == LogInit => NothingLost
<1> SUFFICES ASSUME LogInit PROVE NothingLost
  OBVIOUS
<1>1. SafeState /\ dropped = {}
  BY InitIsSafe DEF LogInit
<1>2. /\ snaps = NoStates /\ exported = NoStates /\ Accepted = {}
  BY DEF LogInit, Init, Accepted, InFlight, Idle
<1>3. ASSUME NEW k \in Keys PROVE GoodOnTheWay(snaps[k], Accepted, k)
  <2>1. snaps[k] = Blank /\ GoodState(Blank)
    BY <1>2, NothingExported, NewStateIsGood DEF Blank
  <2>2. \A n \in Nat : Numbered(snaps[k], Accepted, k, n) = {}
    BY <1>2 DEF Numbered
  <2> QED BY <2>1, <2>2, OnNoWay
<1>4. \A k \in Keys : ~Exists(exported[k])
  BY <1>2, NothingExported
<1> QED BY <1>1, <1>3, <1>4 DEF NothingLost, OnTheWay

\* An insert fails only on a number that was used before.
LEMMA NothingDropped ==
  ASSUME ~AppendMayFail, LogInv, WriterStep
  PROVE  dropped' = dropped
<1>1. ~AppendFails
  BY LogInvImplies DEF AppendFails, NumbersAreFresh, InFlight
<1> QED BY <1>1 DEF WriterStep, WriterTake, AppendRecord, Publish

\* A command: the new record leads to the new memory.
LEMMA CommandLosesNothing ==
  ASSUME LogInv, NothingLost, NEW k \in Keys, NEW h \in HoldIDs, Command(k, h), OnlyManager
  PROVE  NothingLost'
<1>1. SafeState'
  BY NextIsSafe DEF NothingLost, Next
<1>2. /\ dropped' = {} /\ snaps' = snaps /\ exported' = exported /\ dropped' = dropped
      /\ writer' = writer /\ wal' = wal
  BY DEF NothingLost, OnlyManager, writerVars, snapVars
<1>3. LogInv'
  BY CommandKeeps
<1>4. Created(k) \/ \E r : Logged(k, r)
  BY CommandEffect DEF LogInv, Recoverable
<1>5. CASE Created(k)
  <2>1. Accepted' = Accepted
    BY <1>2, <1>5 DEF Created, Accepted, InFlight
  <2>2. \A j \in Keys :
          /\ GoodOnTheWay(snaps'[j], Accepted', j)
          /\ Exists(exported'[j]) => GoodOnTheWay(exported'[j], Accepted', j)
    BY <1>2, <2>1 DEF NothingLost, OnTheWay
  <2>3. OnTheWay'
    BY <2>2, OnTheWayThen
  <2> QED BY <1>1, <1>2, <2>3 DEF NothingLost
<1>6. ASSUME NEW r, Logged(k, r) PROVE NothingLost'
  <2>1. /\ Accepted' = Accepted \cup {r}
        /\ r \in MutationRecord /\ r.key = k /\ r.seq = part[k].seq + 1
        /\ Accepted \in SUBSET MutationRecord /\ IsFiniteSet(Accepted)
    BY <1>6, LoggedAccepts, AcceptedTyped DEF Logged
  <2>2. \A s \in Accepted : s.key = k => s.seq < r.seq
    <3>1. part[k].seq \in Nat /\ \A s \in Accepted : s.seq \in Nat
      BY <2>1 DEF MutationRecord, LogInv, LogTypeOK, TypeOK, PartitionState
    <3>2. \A s \in Accepted : s.seq <= part[s.key].seq
      BY DEF LogInv, NumbersOrdered
    <3> QED BY <2>1, <3>1, <3>2
  <2>3. GoodState(part'[k]) /\ part'[k].seq > 0
    <3>1. GoodState(part'[k])
      BY <1>1 DEF SafeState, GoodState, Blank, NewPartitionState, Exists, Conserved, Balanced,
         HeldSeats
    <3>2. part'[k].seq > 0
      <4>1. /\ part \in [Keys -> PartitionState] /\ part[k].seq \in Nat /\ Formed(part[k])
            /\ part'[k] = ApplyRecovered(part[k], r)
        BY <1>6 DEF Logged, LogInv, LogTypeOK, TypeOK, PartitionState, Recoverable, Sound
      <4>2. r.seq > part[k].seq
        BY <2>1, <4>1
      <4>3. part'[k].seq = r.seq
        BY <2>1, <4>1, <4>2, ApplyRecoveredForms
      <4> QED BY <2>1, <4>1, <4>3
    <3> QED BY <3>1, <3>2
  <2>4. ASSUME NEW j \in Keys, NEW base, Formed(base), GoodOnTheWay(base, Accepted, j),
               Rebuilds(base, j)
        PROVE  GoodOnTheWay(base, Accepted', j)
    <3>1. CASE j = k
      <4>1. Replay(base, Accepted', k) = part'[k]
        BY <1>6, <2>1, <2>3, <2>4, <3>1, LoggedRebuilds
      <4> QED BY <2>1, <2>2, <2>3, <2>4, <3>1, <4>1, OnTheWayOneMore
    <3>2. CASE j # k
      <4>1. \A n \in Nat : Numbered(base, Accepted', j, n) = Numbered(base, Accepted, j, n)
        BY <2>1, <3>2 DEF Numbered
      <4> QED BY <2>4, <4>1, OnTheWayKept
    <3> QED BY <3>1, <3>2
  <2>5. ASSUME NEW j \in Keys
        PROVE  /\ GoodOnTheWay(snaps[j], Accepted', j)
               /\ Exists(exported[j]) => GoodOnTheWay(exported[j], Accepted', j)
    BY <2>4 DEF LogInv, Recoverable, Sound, NothingLost, OnTheWay
  <2>6. OnTheWay'
    BY <1>2, <2>5, OnTheWayThen
  <2> QED BY <1>1, <1>2, <2>6 DEF NothingLost
<1> QED BY <1>4, <1>5, <1>6

\* A snapshot: a copy of the memory needs no record, and a stored one is as before.
LEMMA SnapshotLosesNothing ==
  ASSUME LogInv, NothingLost, SnapshotStep
  PROVE  NothingLost'
<1>1. UNCHANGED <<managerVars, writerVars>>
  BY DEF SnapshotStep, StartExport, ExportShard, UpsertSnapshot, UpsertFails
<1>2. SafeState' /\ dropped' = {}
  BY <1>1, NextIsSafe DEF NothingLost, writerVars
<1>3. Accepted' = Accepted
  BY <1>1 DEF managerVars, writerVars, Accepted, InFlight
<1>4. /\ part \in [Keys -> PartitionState] /\ snaps \in [Keys -> PartitionState]
      /\ exported \in [Keys -> PartitionState]
  BY DEF LogInv, LogTypeOK, TypeOK
<1>5. ASSUME NEW k \in Keys
      PROVE  /\ \/ snaps'[k] = snaps[k]
                \/ Exists(exported[k]) /\ snaps'[k] = exported[k]
             /\ exported'[k] \in {exported[k], part[k], Blank}
  BY <1>4 DEF SnapshotStep, StartExport, ExportShard, UpsertSnapshot, UpsertFails, NoStates,
     NextToStore
<1>6. ASSUME NEW k \in Keys PROVE GoodOnTheWay(part[k], Accepted, k)
  <2>1. GoodState(part[k]) /\ part[k].seq \in Nat
    BY <1>4 DEF NothingLost, SafeState, PartitionState
  <2>2. \A r \in Accepted : r.seq \in Nat /\ r.seq <= part[r.key].seq
    BY AcceptedTyped DEF MutationRecord, LogInv, NumbersOrdered
  <2>3. \A n \in Nat : Numbered(part[k], Accepted, k, n) = {}
    BY <2>1, <2>2 DEF Numbered
  <2> QED BY <2>1, <2>3, OnNoWay
<1>7. ASSUME NEW k \in Keys
      PROVE  /\ GoodOnTheWay(snaps'[k], Accepted, k)
             /\ Exists(exported'[k]) => GoodOnTheWay(exported'[k], Accepted, k)
  BY <1>5, <1>6, NothingExported DEF NothingLost, OnTheWay
<1>8. OnTheWay'
  BY <1>3, <1>7, OnTheWayThen
<1> QED BY <1>2, <1>8 DEF NothingLost

\* A restart: what was in flight comes after what is in the log, so memory goes back
\* to a state on its way.
LEMMA RestartLosesNothing ==
  ASSUME LogInv, NothingLost, Restart
  PROVE  NothingLost'
<1>1. /\ part' = [k \in Keys |-> Replay(snaps[k], wal, k)] /\ walQueue' = <<>>
      /\ snaps' = snaps /\ exported' = NoStates /\ dropped' = {} /\ wal' = wal
      /\ writer' = Idle
  BY DEF Restart, Recovered
<1>2. Accepted' = wal
  BY <1>1 DEF Accepted, InFlight, Idle
<1>3. /\ wal \in SUBSET MutationRecord /\ IsFiniteSet(wal)
      /\ Accepted = wal \cup InFlight /\ Accepted \in SUBSET MutationRecord
      /\ \A k \in Keys : Formed(snaps[k])
  BY AcceptedTyped DEF LogInv, LogTypeOK, NothingLost, Accepted, Recoverable, Sound
<1>4. ASSUME NEW k \in Keys
      PROVE  GoodState(Replay(snaps[k], wal, k)) /\ GoodOnTheWay(snaps[k], wal, k)
  <2> DEFINE base == snaps[k]
  <2> DEFINE st == Replay(base, wal, k)
  <2> DEFINE m == st.seq
  <2>1. /\ Formed(st) /\ \A r \in wal : r.key = k => r.seq <= m
        /\ st = base \/ \E r \in wal : r.key = k /\ r.seq = m
    BY <1>3, ReplayForms
  <2>2. /\ m \in Nat /\ base.seq \in Nat
        /\ \A r \in Accepted : r.seq \in Nat
    BY <1>3, <2>1 DEF Formed, PartitionState, MutationRecord
  <2>3. st = ReplayUpTo(base, wal, k)[m]
    <3> HIDE DEF m, base
    <3> QED BY <1>3, <2>1, <2>2, ReplayAt
  <2>4. GoodOnTheWay(base, Accepted, k)
    BY DEF NothingLost, OnTheWay
  <2>5. \A r \in wal : \A s \in InFlight : r.key = k /\ s.key = k => r.seq < s.seq
    BY DEF InFlight, LogInv, NumbersOrdered
  <2> HIDE DEF m, st, base
  <2>6. st = base => m = base.seq
    BY DEF m
  <2>7. \A n \in Nat : n <= m => Numbered(base, wal, k, n) = Numbered(base, Accepted, k, n)
    <3> SUFFICES ASSUME NEW n \in Nat, n <= m, NEW s \in InFlight, s.key = k, s.seq = n,
                        n > base.seq
                 PROVE  s \in wal
      BY <1>3 DEF Numbered
    <3>1. PICK r \in wal : r.key = k /\ r.seq = m
      BY <2>1, <2>2, <2>6
    <3>2. m < n
      BY <2>5, <3>1
    <3> QED BY <2>2, <3>2
  <2>8. ReplayUpTo(base, wal, k)[0] = ReplayUpTo(base, Accepted, k)[0]
    BY ReplayRecursion
  <2>9. \A n \in Nat : n <= m => ReplayUpTo(base, wal, k)[n] = ReplayUpTo(base, Accepted, k)[n]
    BY <2>2, <2>7, <2>8, ReplaysAgree
  <2>10. \A n \in Nat : n > m => Numbered(base, wal, k, n) = {}
    BY <1>3, <2>1, <2>2 DEF Numbered, Accepted
  <2>11. \A n \in Nat : n >= m => ReplayUpTo(base, wal, k)[n] = ReplayUpTo(base, wal, k)[m]
    <3> SUFFICES ASSUME NEW n \in Nat, n >= m
                 PROVE  ReplayUpTo(base, wal, k)[n] = ReplayUpTo(base, wal, k)[m]
      OBVIOUS
    <3> QED BY <2>2, <2>10, ReplayRests
  <2>12. GoodOnTheWay(base, wal, k)
    BY <2>2, <2>4, <2>9, <2>11 DEF GoodOnTheWay
  <2>13. GoodState(st)
    BY <2>2, <2>3, <2>12 DEF GoodOnTheWay
  <2> QED BY <2>12, <2>13 DEF base, st
<1>5. SafeState'
  <2>1. walQueue' \in Seq(MutationRecord)
    BY <1>1
  <2>2. part' = [k \in Keys |-> part'[k]] /\ \A k \in Keys : GoodState(part'[k])
    BY <1>1, <1>4
  <2> QED BY <2>1, <2>2 DEF SafeState, GoodState, Blank, NewPartitionState, Exists, Conserved,
       Balanced, HeldSeats
<1>6. OnTheWay'
  <2>1. \A k \in Keys : GoodOnTheWay(snaps'[k], wal, k) /\ ~Exists(exported'[k])
    BY <1>1, <1>4, NothingExported
  <2> QED BY <1>2, <2>1, OnTheWayThen
<1> QED BY <1>1, <1>5, <1>6 DEF NothingLost

LEMMA NothingLostStep ==
  ASSUME ~AppendMayFail
  PROVE  LogInv /\ NothingLost /\ [LogNext]_logVars => NothingLost'
<1> SUFFICES ASSUME LogInv, NothingLost, [LogNext]_logVars PROVE NothingLost'
  OBVIOUS
<1>1. ASSUME UNCHANGED <<part, snapVars>>, Accepted' = Accepted, dropped' = dropped
      PROVE  NothingLost'
  <2>1. SafeState'
    <3>1. walQueue' \in Seq(MutationRecord)
      BY LogNextIsSafe DEF LogInv, LogTypeOK, TypeOK
    <3> QED BY <1>1, <3>1 DEF NothingLost, SafeState, GoodState
  <2>2. OnTheWay'
    BY <1>1, OnTheWayThen DEF NothingLost, OnTheWay, snapVars
  <2> QED BY <1>1, <2>1, <2>2 DEF NothingLost
<1>2. CASE WriterStep
  BY <1>1, <1>2, WriterStepKeeps, NothingDropped DEF PassesOn
<1>3. CASE UNCHANGED logVars
  <2>1. UNCHANGED <<part, snapVars, dropped>> /\ Accepted' = Accepted
    BY <1>3 DEF logVars, managerVars, writerVars, Accepted, InFlight
  <2> QED BY <1>1, <2>1
<1>4. ASSUME NEW k \in Keys, NEW h \in HoldIDs, Command(k, h), OnlyManager
      PROVE  NothingLost'
  BY <1>4, CommandLosesNothing
<1> QED BY <1>2, <1>3, <1>4, SnapshotLosesNothing, RestartLosesNothing
     DEF LogNext, OnlyManager

\* While the tables take what they are given, no seat is sold twice, however often the
\* process dies with records in its queue: the log is always a beginning of what was
\* done, in every partition.
THEOREM RestartsKeepSeats ==
  ASSUME ~AppendMayFail
  PROVE  LogSpec => []SeatsConserved
<1>1. LogInv /\ NothingLost /\ [LogNext]_logVars => NothingLost'
  BY NothingLostStep
<1>2. NothingLost => SeatsConserved
  BY SafeStateImplies DEF NothingLost
<1> QED BY <1>1, <1>2, NothingLostInit, LogAlwaysSafe, PTL DEF LogSpec

USE ServiceAssumption DEF ServiceAssumption

-----------------------------------------------------------------------------
(* The service: what its own variables keep.                               *)

\* A request under way.
Request == [at: {"save", "undo", "undoRemove", "remove"}, key: Keys, hold: HoldIDs]

\* The part of ServiceTypeOK that is about the variables of this module.
OwnTypeOK ==
  /\ call \in [Callers -> Request \cup {NoCall}]
  /\ value \in [HoldIDs -> Keys \cup {Nil}]
  /\ delay \in [HoldIDs -> {"none", "waiting", "due"}]
  /\ poller \in [at: {"idle", "round", "zrem", "remove", "removeAgain"},
                 ids: SUBSET HoldIDs, polled: SUBSET [key: Keys, hold: HoldIDs],
                 cur: HoldIDs \cup {Nil}]
  /\ poller.at \in {"zrem", "remove", "removeAgain"} => poller.cur \in HoldIDs
  /\ ops \in 0..SnapshotOps

\* A request that is somewhere is under way.
LEMMA AtIsRequest ==
  ASSUME OwnTypeOK, NEW w \in Callers, call[w].at # "idle"
  PROVE  /\ call[w] \in Request /\ call[w].key \in Keys /\ call[w].hold \in HoldIDs
         /\ call[w].at \in {"save", "undo", "undoRemove", "remove"}
BY DEF OwnTypeOK, Request, NoCall

LEMMA OwnInit == ServiceInit => OwnTypeOK
BY DEF ServiceInit, OwnTypeOK, NoCall, PollerIdle

\* Redis and the counter keep their types.
LEMMA RedisTyped ==
  ASSUME OwnTypeOK, NEW k \in Keys, NEW h \in HoldIDs,
         Save(h, k) \/ SaveFails(h, k) \/ Remove(h)
  PROVE  /\ value' \in [HoldIDs -> Keys \cup {Nil}]
         /\ delay' \in [HoldIDs -> {"none", "waiting", "due"}]
BY DEF OwnTypeOK, Save, SaveFails, Remove, redisVars

LEMMA CountTyped == ASSUME OwnTypeOK, CountOp PROVE ops' \in 0..SnapshotOps
BY DEF OwnTypeOK, CountOp

\* What a step of a request leaves of the requests.
LEMMA ProceedTyped == ASSUME OwnTypeOK, NEW w \in Callers, Proceed(w) PROVE OwnTypeOK'
<1>1. /\ call[w] \in Request /\ call[w].key \in Keys /\ call[w].hold \in HoldIDs
  BY AtIsRequest DEF Proceed, SaveHold, SaveHoldFails, UndoTryHold, UndoRemove, RemoveHold
<1>2. call \in [Callers -> Request \cup {NoCall}]
  BY DEF OwnTypeOK
<1>3. call' \in [Callers -> Request \cup {NoCall}]
  <2>1. [call EXCEPT ![w] = NoCall] \in [Callers -> Request \cup {NoCall}]
    BY <1>2
  <2>2. /\ [call EXCEPT ![w].at = "undo"] \in [Callers -> Request \cup {NoCall}]
        /\ [call EXCEPT ![w].at = "undoRemove"] \in [Callers -> Request \cup {NoCall}]
    BY <1>1, <1>2 DEF Request
  <2> QED BY <2>1, <2>2
       DEF Proceed, SaveHold, SaveHoldFails, UndoTryHold, UndoRemove, RemoveHold
<1>4. ops' \in 0..SnapshotOps
  BY CountTyped DEF Proceed, SaveHold, SaveHoldFails, UndoTryHold, UndoRemove, RemoveHold,
                    OwnTypeOK
<1>5. /\ value' \in [HoldIDs -> Keys \cup {Nil}]
      /\ delay' \in [HoldIDs -> {"none", "waiting", "due"}]
  BY <1>1, RedisTyped DEF Proceed, SaveHold, SaveHoldFails, UndoTryHold, UndoRemove,
                          RemoveHold, OwnTypeOK, redisVars
<1>6. poller' = poller
  BY DEF Proceed, SaveHold, SaveHoldFails, UndoTryHold, UndoRemove, RemoveHold
<1> QED BY <1>3, <1>4, <1>5, <1>6 DEF OwnTypeOK

\* The loop,
LEMMA PollerTyped == ASSUME OwnTypeOK, PollerStep PROVE OwnTypeOK'
<1> DEFINE PollerType ==
      [at: {"idle", "round", "zrem", "remove", "removeAgain"},
       ids: SUBSET HoldIDs, polled: SUBSET [key: Keys, hold: HoldIDs],
       cur: HoldIDs \cup {Nil}]
<1> DEFINE CurSet(p) == p.at \in {"zrem", "remove", "removeAgain"} => p.cur \in HoldIDs
<1>1. /\ poller \in PollerType /\ CurSet(poller) /\ call' = call
      /\ call \in [Callers -> Request \cup {NoCall}]
      /\ value \in [HoldIDs -> Keys \cup {Nil}]
      /\ delay \in [HoldIDs -> {"none", "waiting", "due"}]
      /\ ops \in 0..SnapshotOps
  BY DEF OwnTypeOK, PollerStep, PollRange, DropEntry, PollFails, RemoveExpired,
         RemoveExpiredAgain, EndRound, PollValue, ReleaseExpired
<1>2. PollerType \in {PollerType} /\ PollerIdle \in PollerType
  BY DEF PollerIdle
<1>3. CASE PollRange
  BY <1>1, <1>2, <1>3 DEF PollRange, PollerIdle, redisVars, OwnTypeOK
<1>4. CASE DropEntry
  <2>1. delay' \in [HoldIDs -> {"none", "waiting", "due"}]
    BY <1>1, <1>4 DEF DropEntry
  <2>2. poller' \in PollerType /\ CurSet(poller')
    BY <1>1, <1>4 DEF DropEntry
  <2> QED BY <1>1, <1>4, <2>1, <2>2 DEF DropEntry, OwnTypeOK
<1>5. CASE PollFails \/ EndRound
  BY <1>1, <1>2, <1>5 DEF PollFails, EndRound, PollerIdle, redisVars, OwnTypeOK
<1>6. CASE RemoveExpired \/ RemoveExpiredAgain
  <2>1. poller.cur \in HoldIDs
    BY <1>1, <1>6 DEF RemoveExpired, RemoveExpiredAgain
  <2>2. poller' \in PollerType /\ CurSet(poller')
    BY <1>1, <1>6, <2>1 DEF RemoveExpired, RemoveExpiredAgain
  <2>3. /\ value' \in [HoldIDs -> Keys \cup {Nil}]
        /\ delay' \in [HoldIDs -> {"none", "waiting", "due"}]
    BY <1>1, <1>6, <2>1 DEF RemoveExpired, RemoveExpiredAgain, Remove, redisVars
  <2>4. ops' \in 0..SnapshotOps
    BY <1>1, <1>6, CountTyped DEF RemoveExpired, RemoveExpiredAgain
  <2> QED BY <1>1, <2>2, <2>3, <2>4 DEF OwnTypeOK
<1>7. ASSUME NEW h \in HoldIDs, PollValue(h) PROVE OwnTypeOK'
  <2>1. CASE value[h] # Nil
    <3>1. [key |-> value[h], hold |-> h] \in [key: Keys, hold: HoldIDs]
      BY <1>1, <2>1
    <3>2. poller' = [poller EXCEPT !.ids = @ \ {h},
                                   !.polled = @ \cup {[key |-> value[h], hold |-> h]}]
      BY <1>7, <2>1 DEF PollValue
    <3>3. poller' \in PollerType /\ CurSet(poller')
      BY <1>1, <3>1, <3>2
    <3> QED BY <1>1, <1>7, <3>3 DEF PollValue, redisVars, OwnTypeOK
  <2>2. CASE value[h] = Nil
    <3>1. poller' = [poller EXCEPT !.ids = @ \ {h}, !.at = "zrem", !.cur = h]
      BY <1>7, <2>2 DEF PollValue
    <3>2. poller' \in PollerType /\ CurSet(poller')
      BY <1>1, <3>1
    <3> QED BY <1>1, <1>7, <3>2 DEF PollValue, redisVars, OwnTypeOK
  <2> QED BY <2>1, <2>2
<1>8. ASSUME NEW v \in poller.polled, ReleaseExpired(v) PROVE OwnTypeOK'
  <2>1. v.key \in Keys /\ v.hold \in HoldIDs
    BY <1>1
  <2> DEFINE at2 == IF Held(part'[v.key], v.hold) THEN "round"
                    ELSE IF Held(part[v.key], v.hold) THEN "remove" ELSE "removeAgain"
  <2> DEFINE cur2 == IF Held(part'[v.key], v.hold) THEN Nil ELSE v.hold
  <2>2. poller' = [poller EXCEPT !.polled = @ \ {v}, !.at = at2, !.cur = cur2]
    BY <1>8 DEF ReleaseExpired
  <2>3. at2 \in {"round", "remove", "removeAgain"} /\ cur2 \in HoldIDs \cup {Nil}
        /\ (at2 # "round" => cur2 \in HoldIDs)
    BY <2>1
  <2> HIDE DEF at2, cur2
  <2>4. poller' \in PollerType /\ CurSet(poller')
    BY <1>1, <2>2, <2>3
  <2> QED BY <1>1, <1>8, <2>4 DEF ReleaseExpired, redisVars, OwnTypeOK
<1> QED BY <1>3, <1>4, <1>5, <1>6, <1>7, <1>8 DEF PollerStep

\* and the rest of the steps.
LEMMA OwnTypeKept == OwnTypeOK /\ [ServiceNext]_serviceVars => OwnTypeOK'
<1> SUFFICES ASSUME OwnTypeOK, [ServiceNext]_serviceVars PROVE OwnTypeOK'
  OBVIOUS
<1>1. ASSUME NEW w \in Callers, NEW k \in Keys, NEW h \in HoldIDs,
             \/ \E q \in Qtys, c \in Capacities : CallTryHold(w, k, h, q, c)
             \/ CallEnd(w, k, h)
      PROVE  OwnTypeOK'
  <2>1. /\ [at |-> "save", key |-> k, hold |-> h] \in Request
        /\ [at |-> "remove", key |-> k, hold |-> h] \in Request
    BY DEF Request
  <2>2. call' \in [Callers -> Request \cup {NoCall}]
    BY <1>1, <2>1 DEF CallTryHold, CallEnd, OwnTypeOK
  <2> QED BY <1>1, <2>2 DEF CallTryHold, CallEnd, OwnTypeOK, redisVars
<1>2. ASSUME NEW h \in HoldIDs, BecomesDue(h) \/ ValueLapses(h) PROVE OwnTypeOK'
  BY <1>2 DEF BecomesDue, ValueLapses, OwnTypeOK
<1>3. CASE ServiceWriter \/ ServiceSnapshot
  BY <1>3 DEF ServiceWriter, ServiceSnapshot, OwnTypeOK, redisVars
<1>4. CASE ServiceRestart
  BY <1>4 DEF ServiceRestart, OwnTypeOK, redisVars, NoCall, PollerIdle
<1>5. CASE UNCHANGED serviceVars
  BY <1>5 DEF serviceVars, OwnTypeOK, redisVars
<1> QED BY <1>1, <1>2, <1>3, <1>4, <1>5, ProceedTyped, PollerTyped DEF ServiceNext

LEMMA OwnTypeCorrect == ServiceSpec => []OwnTypeOK
BY OwnInit, OwnTypeKept, PTL DEF ServiceSpec

-----------------------------------------------------------------------------
(* The service runs the log: what its steps do to the manager, the writer, *)
(* the snapshots and the process are steps of the log.                     *)

LEMMA ServiceStepIsLogStep ==
  OwnTypeOK /\ [ServiceNext]_serviceVars => [LogNext]_logVars
<1> SUFFICES ASSUME OwnTypeOK, [ServiceNext]_serviceVars PROVE [LogNext]_logVars
  OBVIOUS
<1>1. ASSUME NEW w \in Callers, NEW k \in Keys, NEW h \in HoldIDs,
             NEW q \in Qtys, NEW c \in Capacities, CallTryHold(w, k, h, q, c)
      PROVE  [LogNext]_logVars
  <2>1. CASE TryHold(k, h, q, c) \/ TryHoldRefused(k, h, q, c)
    <3>1. Command(k, h) /\ OnlyManager
      BY <1>1, <2>1 DEF Command, CallTryHold
    <3> QED BY <3>1 DEF LogNext, OnlyManager
  <2>2. CASE TryHoldRepeated(k, h, q)
    BY <1>1, <2>2 DEF CallTryHold, TryHoldRepeated, OnlyManager, logVars
  <2> QED BY <1>1, <2>1, <2>2 DEF CallTryHold
<1>2. ASSUME NEW w \in Callers, NEW k \in Keys, NEW h \in HoldIDs, CallEnd(w, k, h)
      PROVE  [LogNext]_logVars
  BY <1>2 DEF CallEnd, Command, LogNext, OnlyManager
<1>3. ASSUME NEW w \in Callers, Proceed(w) PROVE [LogNext]_logVars
  <2>1. CASE UndoTryHold(w)
    <3>1. call[w].key \in Keys /\ call[w].hold \in HoldIDs
      BY <2>1, AtIsRequest DEF UndoTryHold
    <3>2. /\ OnlyManager
          /\ Command(call[w].key, call[w].hold) \/ UNCHANGED managerVars
      BY <2>1 DEF UndoTryHold, Command
    <3> QED BY <3>1, <3>2 DEF LogNext, OnlyManager, logVars
  <2>2. CASE SaveHold(w) \/ SaveHoldFails(w) \/ UndoRemove(w) \/ RemoveHold(w)
    BY <2>2 DEF SaveHold, SaveHoldFails, UndoRemove, RemoveHold
  <2> QED BY <1>3, <2>1, <2>2 DEF Proceed
<1>4. CASE PollerStep
  <2>1. ASSUME NEW v \in poller.polled, ReleaseExpired(v) PROVE [LogNext]_logVars
    <3>1. v.key \in Keys /\ v.hold \in HoldIDs
      BY DEF OwnTypeOK
    <3>2. OnlyManager /\ (Command(v.key, v.hold) \/ UNCHANGED managerVars)
      BY <2>1 DEF ReleaseExpired, Command
    <3> QED BY <3>1, <3>2 DEF LogNext, OnlyManager, logVars
  <2> QED BY <1>4, <2>1 DEF PollerStep, PollRange, DropEntry, PollFails, RemoveExpired,
                            RemoveExpiredAgain, EndRound, PollValue
<1>5. CASE \E h \in HoldIDs : BecomesDue(h) \/ ValueLapses(h)
  BY <1>5 DEF BecomesDue, ValueLapses
<1>6. CASE ServiceWriter \/ ServiceSnapshot \/ ServiceRestart
  BY <1>6 DEF ServiceWriter, ServiceSnapshot, ServiceRestart, LogNext
<1>7. CASE UNCHANGED serviceVars
  BY <1>7 DEF serviceVars
<1> QED BY <1>1, <1>2, <1>3, <1>4, <1>5, <1>6, <1>7 DEF ServiceNext

\* The service drives the manager through the log: what a request, the TTL loop or
\* a restart does to it is a step of the log, or none.
THEOREM ServiceRunsLog == ServiceSpec => LogSpec
<1>1. ServiceInit => LogInit
  BY DEF ServiceInit
<1> QED BY <1>1, OwnTypeCorrect, ServiceStepIsLogStep, PTL DEF ServiceSpec, LogSpec

\* The requests, the two keys of every hold in Redis and the TTL loop keep their
\* types.
THEOREM ServiceTypeCorrect == ServiceSpec => []ServiceTypeOK
<1>1. OwnTypeOK /\ LogTypeOK => ServiceTypeOK
  BY DEF OwnTypeOK, ServiceTypeOK, Request
<1> QED BY <1>1, OwnTypeCorrect, ServiceRunsLog, LogTypeCorrect, PTL

-----------------------------------------------------------------------------
(* The holds and Redis.                                                    *)

\* Requests that know a hold are about to store it,
CallsMind(k, h) ==
  \A w \in Callers : call[w] # NoCall /\ call[w].hold = h => call[w].at = "save" /\ call[w].key = k

\* the loop has not given it up, and knows of which partition it is,
LoopMinds(k, h) ==
  /\ poller.cur # h
  /\ \A v \in poller.polled : v.hold = h => v.key = k

\* and so does Redis, once it was told.
RedisMinds(k, h) ==
  /\ value[h] \in {Nil, k}
  /\ value[h] = Nil => delay[h] = "none" /\ h \notin poller.ids

Minded(k, h) ==
  /\ HeldOnly(k, h)
  /\ CallsMind(k, h)
  /\ LoopMinds(k, h)
  /\ RedisMinds(k, h)
  /\ Tracked(k, h) \/ BeingSaved(k, h)

Minding ==
  /\ fresh \subseteq HoldIDs
  /\ \A h \in fresh : Traceless(h) \/ \E k \in Keys : Minded(k, h)

-----------------------------------------------------------------------------
\* What a step does to the holds: nothing, one more, or one less.
Rests == \A j \in Keys, g \in HoldIDs : Held(part'[j], g) <=> Held(part[j], g)

Takes(k, h) ==
  /\ ~Held(part[k], h)
  /\ \A j \in Keys, g \in HoldIDs :
       Held(part'[j], g) <=> Held(part[j], g) \/ (j = k /\ g = h)

Ends(k, h) ==
  /\ Held(part[k], h)
  /\ \A j \in Keys, g \in HoldIDs :
       Held(part'[j], g) <=> Held(part[j], g) /\ ~(j = k /\ g = h)

\* The select on walQueue decides which.
LEMMA SendOrUndoHolds ==
  ASSUME LogInv, NEW k \in Keys, NEW done, NEW undone, NEW type,
         NEW h \in HoldIDs, NEW q, NEW c, SendOrUndo(k, done, undone, type, h, q, c),
         undone.holds = part[k].holds
  PROVE  Rests \/ part' = [part EXCEPT ![k] = done]
<1>1. part \in [Keys -> PartitionState]
  BY DEF LogInv, LogTypeOK, TypeOK
<1>2. CASE QueueFull
  <2>1. \A j \in Keys : part'[j].holds = part[j].holds
    BY <1>1, <1>2 DEF SendOrUndo
  <2> QED BY <2>1 DEF Rests, Held
<1> QED BY <1>2 DEF SendOrUndo

LEMMA TryHoldHolds ==
  ASSUME LogInv, NEW k \in Keys, NEW h \in HoldIDs, NEW q \in Qtys,
         NEW c \in Capacities, TryHold(k, h, q, c)
  PROVE  Rests \/ Takes(k, h)
<1> DEFINE st == GetOrInit(part[k], c)
<1> DEFINE done == DoHold(st, h, q)
<1> DEFINE undone == UndoHold(done, h, q)
<1>1. part \in [Keys -> PartitionState] /\ Formed(part[k]) /\ c \in Nat
  BY DEF LogInv, LogTypeOK, TypeOK, Recoverable, Sound
<1>2. st \in PartitionState /\ Exists(st) /\ st.holds = part[k].holds
  BY <1>1, GetOrInitForms
<1>3. ~Held(st, h) /\ SendOrUndo(k, done, undone, "hold_created", h, q, st.cap)
  BY DEF TryHold
<1>4. undone = st
  BY <1>2, <1>3, UndoHoldRestores
<1>5. done.holds = [part[k].holds EXCEPT ![h] = q]
  <2>1. done.holds = [st.holds EXCEPT ![h] = q]
    BY <1>2, DoHoldEffect
  <2> QED BY <1>2, <2>1
<1>6. ~Held(part[k], h)
  BY <1>2, <1>3 DEF Held
<1> DEFINE size == st.cap
<1> HIDE DEF st, done, undone, size
<1>7. SendOrUndo(k, done, undone, "hold_created", h, q, size)
  BY <1>3 DEF size
<1>8. Rests \/ part' = [part EXCEPT ![k] = done]
  BY <1>2, <1>4, <1>7, SendOrUndoHolds
<1>9. CASE part' = [part EXCEPT ![k] = done]
  <2>1. part'[k].holds = [part[k].holds EXCEPT ![h] = q]
        /\ \A j \in Keys : j # k => part'[j] = part[j]
    BY <1>1, <1>5, <1>9
  <2>2. part[k].holds \in [HoldIDs -> 0..MaxQty] /\ q > 0
    BY <1>1 DEF PartitionState, Qtys
  <2>3. \A j \in Keys, g \in HoldIDs :
          Held(part'[j], g) <=> Held(part[j], g) \/ (j = k /\ g = h)
    BY <2>1, <2>2 DEF Held
  <2> QED BY <1>6, <2>3 DEF Takes
<1> QED BY <1>8, <1>9

\* A refused TryHold at most creates the partition, without a hold.
LEMMA TryHoldRefusedHolds ==
  ASSUME LogInv, NEW k \in Keys, NEW h \in HoldIDs, NEW q \in Qtys,
         NEW c \in Capacities, TryHoldRefused(k, h, q, c)
  PROVE  Rests
<1>1. part \in [Keys -> PartitionState] /\ Formed(part[k]) /\ c \in Nat
  BY DEF LogInv, LogTypeOK, TypeOK, Recoverable, Sound
<1>2. GetOrInit(part[k], c).holds = part[k].holds
  BY <1>1, GetOrInitForms
<1>3. \A j \in Keys : part'[j].holds = part[j].holds
  BY <1>1, <1>2 DEF TryHoldRefused
<1> QED BY <1>3 DEF Rests, Held

LEMMA EndHolds ==
  ASSUME LogInv, NEW k \in Keys, NEW h \in HoldIDs,
         ReleaseHold(k, h) \/ ConfirmHold(k, h)
  PROVE  Rests \/ Ends(k, h)
<1> DEFINE st == part[k]
<1>1. part \in [Keys -> PartitionState] /\ st \in PartitionState /\ Formed(st)
  BY DEF LogInv, LogTypeOK, TypeOK, Recoverable, Sound
<1>2. Held(st, h)
  BY DEF ReleaseHold, ConfirmHold
<1>3. Exists(st) /\ st.holds[h] \in Qtys
  BY <1>1, <1>2, HeldExists
<1>4. ASSUME NEW done, part' = [part EXCEPT ![k] = done],
             done.holds = [st.holds EXCEPT ![h] = 0]
      PROVE  Ends(k, h)
  <2>1. part'[k].holds = [part[k].holds EXCEPT ![h] = 0]
        /\ \A j \in Keys : j # k => part'[j] = part[j]
    BY <1>1, <1>4
  <2>2. part[k].holds \in [HoldIDs -> 0..MaxQty]
    BY <1>1 DEF PartitionState
  <2>3. \A j \in Keys, g \in HoldIDs :
          Held(part'[j], g) <=> Held(part[j], g) /\ ~(j = k /\ g = h)
    BY <2>1, <2>2 DEF Held
  <2> QED BY <1>2, <2>3 DEF Ends
<1>5. CASE ReleaseHold(k, h)
  <2> DEFINE done == DoRelease(st, h)
  <2> DEFINE undone == UndoRelease(done, h, st.holds[h])
  <2>1. SendOrUndo(k, done, undone, "hold_released", h, st.holds[h], 0)
    BY <1>5 DEF ReleaseHold
  <2>2. undone = st
    BY <1>1, <1>3, UndoReleaseRestores
  <2>3. done.holds = [st.holds EXCEPT ![h] = 0]
    BY <1>1, DoReleaseEffect
  <2> HIDE DEF done, undone
  <2> QED BY <1>4, <2>1, <2>2, <2>3, SendOrUndoHolds
<1>6. CASE ConfirmHold(k, h)
  <2> DEFINE done == DoConfirm(st, h)
  <2> DEFINE undone == UndoConfirm(done, h, st.holds[h])
  <2>1. SendOrUndo(k, done, undone, "hold_confirmed", h, st.holds[h], 0)
    BY <1>6 DEF ConfirmHold
  <2>2. undone = st
    BY <1>1, <1>3, UndoConfirmRestores
  <2>3. done.holds = [st.holds EXCEPT ![h] = 0]
    BY <1>1, DoConfirmEffect
  <2> HIDE DEF done, undone
  <2> QED BY <1>4, <2>1, <2>2, <2>3, SendOrUndoHolds
<1> QED BY <1>5, <1>6

\* Memory that stays, stays.
LEMMA SameRests == ASSUME part' = part PROVE Rests
BY DEF Rests

\* Only a TryHold makes a hold.
LEMMA HoldsMove ==
  ASSUME LogInv, OwnTypeOK, ServiceNext, ~ServiceRestart
  PROVE  \/ Rests
         \/ \E k \in Keys, h \in HoldIDs : Ends(k, h)
         \/ \E w \in Callers, k \in Keys, h \in HoldIDs :
              /\ Takes(k, h)
              /\ \E q \in Qtys, c \in Capacities : CallTryHold(w, k, h, q, c)
<1> DEFINE Moves == \/ Rests
                    \/ \E k \in Keys, h \in HoldIDs : Ends(k, h)
                    \/ \E w \in Callers, k \in Keys, h \in HoldIDs :
                         /\ Takes(k, h)
                         /\ \E q \in Qtys, c \in Capacities : CallTryHold(w, k, h, q, c)
<1> SUFFICES Moves
  OBVIOUS
<1>1. Rests => Moves
  OBVIOUS
<1>2. \A k \in Keys, h \in HoldIDs : Ends(k, h) => Moves
  OBVIOUS
<1>3. ASSUME NEW w \in Callers, NEW k \in Keys, NEW h \in HoldIDs, NEW q \in Qtys,
             NEW c \in Capacities, CallTryHold(w, k, h, q, c)
      PROVE  Moves
  <2>1. TryHoldRepeated(k, h, q) => Rests
    BY SameRests DEF TryHoldRepeated, managerVars
  <2>2. \/ TryHold(k, h, q, c) \/ TryHoldRefused(k, h, q, c) \/ TryHoldRepeated(k, h, q)
    BY <1>3 DEF CallTryHold
  <2>3. Rests \/ Takes(k, h)
    BY <2>1, <2>2, TryHoldHolds, TryHoldRefusedHolds
  <2> QED BY <1>3, <2>3
<1> HIDE DEF Moves
<1>4. ASSUME NEW w \in Callers, NEW k \in Keys, NEW h \in HoldIDs, CallEnd(w, k, h)
      PROVE  Moves
  BY <1>1, <1>2, <1>4, EndHolds DEF CallEnd
<1>5. ASSUME NEW w \in Callers, Proceed(w) PROVE Moves
  <2>1. CASE UndoTryHold(w)
    <3>1. call[w].key \in Keys /\ call[w].hold \in HoldIDs
      BY <2>1, AtIsRequest DEF UndoTryHold
    <3>2. ReleaseHold(call[w].key, call[w].hold) \/ part' = part
      BY <2>1 DEF UndoTryHold, managerVars
    <3> QED BY <1>1, <1>2, <3>1, <3>2, EndHolds, SameRests
  <2>2. CASE ~UndoTryHold(w)
    <3>1. part' = part
      BY <1>5, <2>2 DEF Proceed, SaveHold, SaveHoldFails, UndoRemove, RemoveHold, logVars,
         managerVars
    <3> QED BY <1>1, <3>1, SameRests
  <2> QED BY <2>1, <2>2
<1>6. CASE PollerStep
  <2>1. ASSUME NEW v \in poller.polled, ReleaseExpired(v) PROVE Moves
    <3>1. v.key \in Keys /\ v.hold \in HoldIDs
      BY DEF OwnTypeOK
    <3>2. ReleaseHold(v.key, v.hold) \/ part' = part
      BY <2>1 DEF ReleaseExpired, managerVars
    <3> QED BY <1>1, <1>2, <3>1, <3>2, EndHolds, SameRests
  <2>2. CASE ~\E v \in poller.polled : ReleaseExpired(v)
    <3>1. part' = part
      BY <1>6, <2>2 DEF PollerStep, PollRange, DropEntry, PollFails, RemoveExpired,
         RemoveExpiredAgain, EndRound, PollValue, logVars, managerVars
    <3> QED BY <1>1, <3>1, SameRests
  <2> QED BY <2>1, <2>2
<1>7. CASE \E h \in HoldIDs : BecomesDue(h) \/ ValueLapses(h)
  BY <1>1, <1>7, SameRests DEF BecomesDue, ValueLapses, logVars, managerVars
<1>8. CASE ServiceWriter
  BY <1>1, <1>8, SameRests DEF ServiceWriter, WriterStep, WriterTake, TakeRecord, AppendRecord,
     AppendFails, Publish, managerVars
<1>9. CASE ServiceSnapshot
  BY <1>1, <1>9, SameRests DEF ServiceSnapshot, SnapshotStep, StartExport, ExportShard,
     UpsertSnapshot, UpsertFails, managerVars
<1> QED BY <1>3, <1>4, <1>5, <1>6, <1>7, <1>8, <1>9 DEF ServiceNext

-----------------------------------------------------------------------------
\* What a step of a request does to a hold that is minded,
LEMMA ProceedMinds ==
  ASSUME OwnTypeOK, NEW k \in Keys, NEW h \in HoldIDs, Minded(k, h), HeldOnly(k, h)',
         NEW w \in Callers, Proceed(w), ~MayBeLost(h)
  PROVE  Minded(k, h)'
<1>1. /\ call[w] \in Request /\ call[w].key \in Keys /\ call[w].hold \in HoldIDs
      /\ call[w] # NoCall /\ poller' = poller
  BY AtIsRequest DEF Proceed, SaveHold, SaveHoldFails, UndoTryHold, UndoRemove, RemoveHold, NoCall
<1>2. \A x \in Callers \ {w} : call'[x] = call[x]
  BY DEF Proceed, SaveHold, SaveHoldFails, UndoTryHold, UndoRemove, RemoveHold, OwnTypeOK
<1>3. CASE call[w].hold = h
  <2>1. call[w].at = "save" /\ call[w].key = k /\ w \in CallsOn(h)
    BY <1>1, <1>3 DEF Minded, CallsMind, CallsOn
  <2>2. SaveHold(w)
    BY <2>1 DEF Proceed, SaveHoldFails, UndoTryHold, UndoRemove, RemoveHold, MayBeLost
  <2>3. value'[h] = k /\ delay'[h] = "waiting" /\ call'[w] = NoCall
    BY <1>3, <2>1, <2>2 DEF SaveHold, Save, OwnTypeOK
  <2>4. k # Nil
    BY ServiceAssumption DEF ServiceAssumption
  <2>5. CallsMind(k, h)'
    BY <1>2, <2>3 DEF Minded, CallsMind
  <2> QED BY <1>1, <2>3, <2>4, <2>5 DEF Minded, LoopMinds, RedisMinds, Tracked
<1>4. CASE call[w].hold # h
  <2>1. value'[h] = value[h] /\ delay'[h] = delay[h]
    BY <1>1, <1>4 DEF Proceed, SaveHold, SaveHoldFails, UndoTryHold, UndoRemove, RemoveHold,
       Save, SaveFails, Remove, redisVars, OwnTypeOK
  <2>2. call'[w] = NoCall \/ call'[w].hold # h
    BY <1>1, <1>4 DEF Proceed, SaveHold, SaveHoldFails, UndoTryHold, UndoRemove, RemoveHold,
       OwnTypeOK, Request
  <2>3. CallsMind(k, h)'
    BY <1>2, <2>2 DEF Minded, CallsMind
  <2>4. BeingSaved(k, h) => BeingSaved(k, h)'
    BY <1>2, <1>4 DEF BeingSaved, CallsOn
  <2> QED BY <1>1, <2>1, <2>3, <2>4 DEF Minded, LoopMinds, RedisMinds, Tracked
<1> QED BY <1>3, <1>4

\* of the loop,
LEMMA PollerMinds ==
  ASSUME OwnTypeOK, NEW k \in Keys, NEW h \in HoldIDs, Minded(k, h), HeldOnly(k, h)',
         PollerStep
  PROVE  Minded(k, h)'
<1>1. call' = call
  BY DEF PollerStep, PollRange, DropEntry, PollFails, RemoveExpired, RemoveExpiredAgain,
     EndRound, PollValue, ReleaseExpired
<1>2. CallsMind(k, h)' /\ (BeingSaved(k, h) => BeingSaved(k, h)')
  BY <1>1 DEF Minded, CallsMind, BeingSaved, CallsOn
<1>3. k # Nil /\ h # Nil
  BY ServiceAssumption DEF ServiceAssumption
<1>4. poller.cur # h /\ (\A v \in poller.polled : v.hold = h => v.key = k)
      /\ value[h] \in {Nil, k} /\ (value[h] = Nil => delay[h] = "none" /\ h \notin poller.ids)
  BY DEF Minded, LoopMinds, RedisMinds
<1>5. value'[h] = value[h] /\ delay'[h] = delay[h]
  BY <1>4 DEF PollerStep, PollRange, DropEntry, PollFails, RemoveExpired, RemoveExpiredAgain,
     EndRound, PollValue, ReleaseExpired, Remove, redisVars, OwnTypeOK
<1>6. /\ poller'.cur # h
      /\ \A v \in poller'.polled : v.hold = h => v.key = k
      /\ value[h] = Nil => h \notin poller'.ids
  <2>1. poller \in [at: {"idle", "round", "zrem", "remove", "removeAgain"},
                    ids: SUBSET HoldIDs, polled: SUBSET [key: Keys, hold: HoldIDs],
                    cur: HoldIDs \cup {Nil}]
    BY DEF OwnTypeOK
  <2>2. CASE PollRange
    BY <1>3, <1>4, <2>2 DEF PollRange, PollerIdle
  <2>3. ASSUME NEW g \in HoldIDs, PollValue(g)
        PROVE  /\ poller'.cur # h
               /\ \A v \in poller'.polled : v.hold = h => v.key = k
               /\ value[h] = Nil => h \notin poller'.ids
    <3>1. CASE value[g] # Nil
      <4>1. /\ poller'.cur = poller.cur /\ poller'.ids = poller.ids \ {g}
            /\ poller'.polled = poller.polled \cup {[key |-> value[g], hold |-> g]}
        BY <2>1, <2>3, <3>1 DEF PollValue
      <4> QED BY <1>4, <3>1, <4>1
    <3>2. CASE value[g] = Nil
      <4>1. /\ poller'.cur = g /\ poller'.ids = poller.ids \ {g}
            /\ poller'.polled = poller.polled /\ g \in poller.ids
        BY <2>1, <2>3, <3>2 DEF PollValue
      <4> QED BY <1>4, <3>2, <4>1
    <3> QED BY <3>1, <3>2
  <2>4. CASE DropEntry \/ RemoveExpiredAgain \/ RemoveExpired
    <3>1. poller'.cur \in {Nil, poller.cur} /\ poller'.ids = poller.ids
          /\ poller'.polled = poller.polled
      BY <2>1, <2>4 DEF DropEntry, RemoveExpiredAgain, RemoveExpired
    <3> QED BY <1>3, <1>4, <3>1
  <2>5. CASE PollFails \/ EndRound
    BY <1>3, <2>5 DEF PollFails, EndRound, PollerIdle
  <2>6. ASSUME NEW v \in poller.polled, ReleaseExpired(v)
        PROVE  /\ poller'.cur # h
               /\ \A u \in poller'.polled : u.hold = h => u.key = k
               /\ value[h] = Nil => h \notin poller'.ids
    <3>1. v.hold = h => Held(part'[v.key], v.hold)
      BY <1>4 DEF HeldOnly
    <3>2. /\ poller'.cur = IF Held(part'[v.key], v.hold) THEN Nil ELSE v.hold
          /\ poller'.polled = poller.polled \ {v} /\ poller'.ids = poller.ids
      BY <2>1, <2>6 DEF ReleaseExpired
    <3> QED BY <1>3, <1>4, <3>1, <3>2
  <2> QED BY <2>2, <2>3, <2>4, <2>5, <2>6 DEF PollerStep
<1> QED BY <1>2, <1>4, <1>5, <1>6 DEF Minded, LoopMinds, RedisMinds, Tracked

\* and of anybody.
LEMMA StaysMinded ==
  ASSUME OwnTypeOK, NEW k \in Keys, NEW h \in HoldIDs, Minded(k, h), HeldOnly(k, h)',
         ServiceNext, ~ServiceRestart, ~MayBeLost(h)
  PROVE  Minded(k, h)'
<1>1. ASSUME NEW w \in Callers, NEW req, UNCHANGED <<value, delay, poller>>, call[w] = NoCall,
             call' = call \/ call' = [call EXCEPT ![w] = req],
             call' # call /\ req.hold = h => req.at = "save" /\ req.key = k
      PROVE  Minded(k, h)'
  <2>1. \A x \in Callers : call'[x] = call[x] \/ (call' # call /\ x = w /\ call'[x] = req)
    BY <1>1 DEF OwnTypeOK
  <2>2. CallsMind(k, h)'
    BY <1>1, <2>1 DEF Minded, CallsMind
  <2>3. BeingSaved(k, h) => BeingSaved(k, h)'
    BY <1>1, <2>1 DEF BeingSaved, CallsOn
  <2> QED BY <1>1, <2>2, <2>3 DEF Minded, LoopMinds, RedisMinds, Tracked
<1>2. ASSUME NEW w \in Callers, NEW j \in Keys, NEW g \in HoldIDs, NEW q \in Qtys,
             NEW c \in Capacities, CallTryHold(w, j, g, q, c)
      PROVE  Minded(k, h)'
  <2> DEFINE req == [at |-> "save", key |-> j, hold |-> g]
  <2>1. /\ UNCHANGED <<value, delay, poller>> /\ call[w] = NoCall
        /\ call' = call \/ call' = [call EXCEPT ![w] = req]
        /\ call' # call => Held(part'[j], g)
    BY <1>2 DEF CallTryHold, redisVars
  <2>2. req.at = "save" /\ req.key = j /\ req.hold = g
    OBVIOUS
  <2>3. Held(part'[j], h) => j = k
    BY DEF HeldOnly
  <2> HIDE DEF req
  <2> QED BY <1>1, <2>1, <2>2, <2>3
<1>3. ASSUME NEW w \in Callers, NEW j \in Keys, NEW g \in HoldIDs, CallEnd(w, j, g)
      PROVE  Minded(k, h)'
  <2> DEFINE req == [at |-> "remove", key |-> j, hold |-> g]
  <2>1. /\ UNCHANGED <<value, delay, poller>> /\ call[w] = NoCall
        /\ call' = call \/ call' = [call EXCEPT ![w] = req]
        /\ call' # call => ~Held(part'[j], g)
        /\ Held(part[j], g)
    BY <1>3 DEF CallEnd, redisVars, ReleaseHold, ConfirmHold
  <2>2. req.hold = g
    OBVIOUS
  <2>3. g = h => j = k /\ Held(part'[j], g)
    BY <2>1 DEF Minded, HeldOnly
  <2> HIDE DEF req
  <2> QED BY <1>1, <2>1, <2>2, <2>3
<1>4. ASSUME NEW g \in HoldIDs, BecomesDue(g) PROVE Minded(k, h)'
  <2>1. /\ UNCHANGED <<call, value, poller>> /\ delay[g] = "waiting"
        /\ delay' = [delay EXCEPT ![g] = "due"]
    BY <1>4 DEF BecomesDue
  <2>2. delay'[h] = "none" <=> delay[h] = "none"
    BY <2>1 DEF OwnTypeOK
  <2> QED BY <2>1, <2>2
       DEF Minded, CallsMind, LoopMinds, RedisMinds, Tracked, BeingSaved, CallsOn
<1>5. ASSUME NEW g \in HoldIDs, ValueLapses(g) PROVE Minded(k, h)'
  <2>1. g # h
    BY <1>5 DEF MayBeLost
  <2>2. UNCHANGED <<call, delay, poller>> /\ value'[h] = value[h]
    BY <1>5, <2>1 DEF ValueLapses, OwnTypeOK
  <2> QED BY <2>2 DEF Minded, CallsMind, LoopMinds, RedisMinds, Tracked, BeingSaved, CallsOn
<1>6. CASE ServiceWriter \/ ServiceSnapshot
  <2>1. UNCHANGED <<call, value, delay, poller>>
    BY <1>6 DEF ServiceWriter, ServiceSnapshot, redisVars
  <2> QED BY <2>1 DEF Minded, CallsMind, LoopMinds, RedisMinds, Tracked, BeingSaved, CallsOn
<1> QED BY <1>2, <1>3, <1>4, <1>5, <1>6, ProceedMinds, PollerMinds DEF ServiceNext

\* A hold is granted of which there was nothing.
LEMMA GrantMinds ==
  ASSUME OwnTypeOK, NEW k \in Keys, NEW h \in HoldIDs, Traceless(h), HeldOnly(k, h)',
         NEW w \in Callers, NEW q \in Qtys, NEW c \in Capacities, TryHold(k, h, q, c),
         CallTryHold(w, k, h, q, c)
  PROVE  Minded(k, h)'
<1> DEFINE req == [at |-> "save", key |-> k, hold |-> h]
<1>1. Held(part'[k], h) /\ ~InsufficientStock(GetOrInit(part[k], c), q)
  BY DEF HeldOnly, TryHold
<1>2. UNCHANGED <<value, delay, poller>> /\ call' = [call EXCEPT ![w] = req]
  BY <1>1 DEF CallTryHold, redisVars
<1>3. call'[w] = req /\ \A x \in Callers \ {w} : call'[x] = call[x]
  BY <1>2 DEF OwnTypeOK
<1>4. req # NoCall /\ req.at = "save" /\ req.key = k /\ req.hold = h
  BY DEF NoCall
<1> HIDE DEF req
<1>5. CallsMind(k, h)' /\ BeingSaved(k, h)'
  BY <1>3, <1>4 DEF CallsMind, BeingSaved, CallsOn, Traceless
<1> QED BY <1>2, <1>5 DEF Minded, LoopMinds, RedisMinds, Traceless

\* A restart leaves Redis alone, and nobody else has anything to do.
LEMMA RestartMinds ==
  ASSUME OwnTypeOK, NEW h \in HoldIDs, ServiceRestart, ~MayBeLost(h)
  PROVE  \E k \in Keys : Minded(k, h)'
<1>1. restarts' # restarts
  <2>1. restarts < MaxRestarts /\ restarts' = restarts + 1
    BY DEF ServiceRestart, Restart
  <2> QED BY <2>1
<1>2. PICK k \in Keys : Tracked(k, h) /\ HeldOnly(k, h)'
  BY <1>1 DEF MayBeLost
<1>3. h # Nil /\ k # Nil
  BY ServiceAssumption DEF ServiceAssumption
<1>4. /\ UNCHANGED <<value, delay>> /\ poller' = PollerIdle
      /\ \A w \in Callers : call'[w] = NoCall
  BY DEF ServiceRestart, redisVars
<1> QED BY <1>2, <1>3, <1>4
     DEF Minded, CallsMind, LoopMinds, RedisMinds, Tracked, PollerIdle

LEMMA MindedStep ==
  ASSUME LogInv, OwnTypeOK, Minding, TrackNext
  PROVE  Minding'
<1>1. fresh' = {h \in HoldIDs :
                  \/ Traceless(h)'
                  \/ h \in fresh /\ (\E k \in Keys : HeldOnly(k, h)') /\ ~MayBeLost(h)}
  BY DEF TrackNext
<1>2. fresh' \subseteq HoldIDs
  BY <1>1
<1>3. SUFFICES ASSUME NEW h \in HoldIDs, h \in fresh, NEW k \in Keys, HeldOnly(k, h)',
                      ~MayBeLost(h)
               PROVE  \E j \in Keys : Minded(j, h)'
  BY <1>1, <1>2 DEF Minding
<1>4. ServiceNext
  BY DEF TrackNext
<1>5. CASE ServiceRestart
  BY <1>3, <1>5, RestartMinds
<1>6. CASE ~ServiceRestart
  <2>1. \/ Rests
        \/ \E j \in Keys, g \in HoldIDs : Ends(j, g)
        \/ \E w \in Callers, j \in Keys, g \in HoldIDs :
             /\ Takes(j, g)
             /\ \E q \in Qtys, c \in Capacities : CallTryHold(w, j, g, q, c)
    BY <1>4, <1>6, HoldsMove
  <2>2. \A j \in Keys : Held(part'[j], h) <=> j = k
    BY <1>3 DEF HeldOnly
  <2>3. ASSUME NEW j \in Keys, Minded(j, h) PROVE Minded(k, h)
    <3>1. \A i \in Keys : Held(part[i], h) <=> i = j
      BY <2>3 DEF Minded, HeldOnly
    <3>2. j = k
      BY <2>1, <2>2, <3>1 DEF Rests, Ends, Takes
    <3> QED BY <2>3, <3>2
  <2>4. CASE \E j \in Keys : Minded(j, h)
    BY <1>3, <1>4, <1>6, <2>3, <2>4, StaysMinded
  <2>5. CASE Traceless(h)
    <3>1. \A i \in Keys : ~Held(part[i], h)
      BY <2>5 DEF Traceless
    <3>2. PICK w \in Callers, j \in Keys, g \in HoldIDs, q \in Qtys, c \in Capacities :
            Takes(j, g) /\ CallTryHold(w, j, g, q, c)
      BY <2>1, <2>2, <3>1 DEF Rests, Ends
    <3>3. j = k /\ g = h
      BY <2>2, <3>1, <3>2 DEF Takes
    <3>4. TryHold(k, h, q, c)
      <4>1. ~Held(part[k], h) /\ Held(part'[k], h)
        BY <2>2, <3>1
      <4>2. ~TryHoldRepeated(k, h, q)
        BY <4>1 DEF TryHoldRepeated
      <4>3. ~TryHoldRefused(k, h, q, c)
        BY <4>1, TryHoldRefusedHolds DEF Rests
      <4> QED BY <3>2, <3>3, <4>2, <4>3 DEF CallTryHold
    <3> QED BY <1>3, <2>5, <3>2, <3>3, <3>4, GrantMinds
  <2> QED BY <1>3, <2>4, <2>5 DEF Minding
<1> QED BY <1>5, <1>6

\* A stuttering step of the service keeps what was minded, and nobody else steps.
LEMMA MindedKept == LogInv /\ OwnTypeOK /\ Minding /\ [TrackNext]_trackVars => Minding'
<1> SUFFICES ASSUME LogInv, OwnTypeOK, Minding, UNCHANGED trackVars PROVE Minding'
  BY MindedStep
<1>1. UNCHANGED <<part, call, value, delay, poller, fresh>>
  BY DEF trackVars, serviceVars, logVars, managerVars, redisVars
<1> QED BY <1>1
     DEF Minding, Minded, Traceless, HeldOnly, CallsMind, LoopMinds, RedisMinds, Tracked,
         BeingSaved, CallsOn

\* A hold in memory has a value and an entry of the delay queue that will release
\* it, or a request is about to store them (service.go:127-177, 246-273), whatever
\* fails, is restarted or is used again -- but for the holds that HoldTracking names:
\* those whose value lapsed or could not be stored, or whose id had left something.
THEOREM HoldsStayTracked == TrackSpec => []HoldsAreTracked
<1>1. TrackInit => ServiceInit /\ Minding
  BY DEF TrackInit, ServiceInit, LogInit, Init, Minding, Traceless, CallsOn, PollerIdle, Held,
     Blank, NewPartitionState, ServiceAssumption
<1>2. [TrackNext]_trackVars => [ServiceNext]_serviceVars
  BY DEF TrackNext, trackVars
<1>3. ServiceSpec => []LogInv
  BY ServiceRunsLog, LogAlwaysSafe, PTL
<1>4. Minding => HoldsAreTracked
  BY DEF Minding, Minded, Traceless, HeldOnly, HoldsAreTracked
<1> QED BY <1>1, <1>2, <1>3, <1>4, MindedKept, OwnTypeCorrect, PTL DEF TrackSpec, ServiceSpec

-----------------------------------------------------------------------------
LEMMA LogStepIsManagerStep ==
  ASSUME MaxRestarts = 0
  PROVE  LogTypeOK /\ [LogNext]_logVars => [Next]_managerVars
<1> SUFFICES ASSUME LogTypeOK, [LogNext]_logVars PROVE [Next]_managerVars
  OBVIOUS
<1>1. ~Restart
  BY DEF LogTypeOK, Restart
<1>2. CASE WriterStep
  BY <1>2 DEF WriterStep, WriterTake, AppendRecord, AppendFails, Publish, Next
<1>3. CASE SnapshotStep
  BY <1>3 DEF SnapshotStep, StartExport, ExportShard, UpsertSnapshot, UpsertFails
<1>4. CASE UNCHANGED logVars
  BY <1>4 DEF logVars
<1> QED BY <1>1, <1>2, <1>3, <1>4 DEF LogNext, Next

\* A service that is not restarted keeps all that was proved of the manager, with
\* the writer, the snapshot loop, the TTL loop and the requests around it.
THEOREM ServiceKeepsSeats ==
  ASSUME MaxRestarts = 0
  PROVE  ServiceSpec => []SeatsConserved /\ ChangesAreRecorded /\ LedgerSpec
<1>1. LogTypeOK /\ [LogNext]_logVars => [Next]_managerVars
  BY LogStepIsManagerStep
<1>2. LogInit => Init
  BY DEF LogInit
<1>3. LogSpec => Spec
  BY <1>1, <1>2, LogTypeCorrect, PTL DEF LogSpec, Spec
<1> QED BY <1>3, ServiceRunsLog, SeatsAreConserved, ChangesRecorded, ImplementsLedger, PTL

=============================================================================
