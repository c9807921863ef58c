------------------------- MODULE TicketOutboxProofs --------------------------
(***************************************************************************)
(* That no ticket event is dropped between database and broker, for any    *)
(* number of orders, workers and restarts.                                 *)
(*                                                                         *)
(* The rows that count as published are announced, and so is the row a     *)
(* worker is about to mark (SentIsAnnounced): it is the second that makes  *)
(* the first inductive, for a worker marks a row whatever the others and   *)
(* its own earlier batches have made of it.                                *)
(***************************************************************************)
EXTENDS TicketOutbox, TLAPS, SequenceTheorems

SentIsAnnounced ==
  \A w \in Workers, id \in DOMAIN rows :
    loop[w].at = "mark" /\ IsCurrent(w, id) => rows[id].order \in announced

OutboxInv == OutboxTypeOK /\ SentIsAnnounced /\ PublishedIsAnnounced

Row == [order : Orders, state : {"PENDING", "BACKOFF", "RETRY", "PUBLISHED"}]

USE OutboxAssumption

LEMMA SetRowRows ==
  ASSUME OutboxTypeOK, NEW id \in DOMAIN rows,
         NEW state \in {"PENDING", "BACKOFF", "RETRY", "PUBLISHED"}, SetRow(id, state)
  PROVE  /\ rows' \in Seq(Row)
         /\ DOMAIN rows' = DOMAIN rows
         /\ rows'[id].state = state
         /\ \A other \in DOMAIN rows :
              /\ rows'[other].order = rows[other].order
              /\ other # id => rows'[other].state = rows[other].state
<1>1. rows \in Seq(Row)
  BY DEF OutboxTypeOK, Row
<1>2. rows[id] \in Row
  BY <1>1
<1>3. [rows[id] EXCEPT !.state = state] \in Row
  BY <1>2 DEF Row
<1>4. rows' = [rows EXCEPT ![id] = [rows[id] EXCEPT !.state = state]]
  BY DEF SetRow
<1> QED BY <1>1, <1>2, <1>3, <1>4, ExceptSeq DEF Row

LEMMA InsertKeeps ==
  ASSUME OutboxInv, NEW o \in Orders, InsertRow(o)
  PROVE  OutboxInv'
<1> DEFINE row == [order |-> o, state |-> "PENDING"]
<1>1. rows \in Seq(Row) /\ row \in Row /\ rows' = Append(rows, row)
  BY DEF OutboxInv, OutboxTypeOK, Row, InsertRow
<1> HIDE DEF row
<1>2. /\ rows' \in Seq(Row) /\ DOMAIN rows' = DOMAIN rows \cup {Len(rows) + 1}
      /\ \A id \in DOMAIN rows : rows'[id] = rows[id]
      /\ rows'[Len(rows) + 1] = row
  BY <1>1, AppendProperties
<1>3. UNCHANGED <<loop, announced, restarts>> /\ row.state = "PENDING"
  BY DEF InsertRow, row
<1>4. OutboxTypeOK'
  BY <1>2, <1>3 DEF OutboxInv, OutboxTypeOK, Row
<1>5. SentIsAnnounced'
  BY <1>1, <1>2, <1>3 DEF OutboxInv, OutboxTypeOK, SentIsAnnounced, IsCurrent
<1>6. PublishedIsAnnounced'
  BY <1>1, <1>2, <1>3 DEF OutboxInv, PublishedIsAnnounced
<1> QED BY <1>4, <1>5, <1>6 DEF OutboxInv

LEMMA LoopFields ==
  ASSUME OutboxTypeOK, NEW w \in Workers, NEW at, NEW batch
  PROVE  /\ loop[w].batch \in SUBSET DOMAIN rows
         /\ [loop EXCEPT ![w].at = at]
              = [loop EXCEPT ![w] = [at |-> at, batch |-> loop[w].batch]]
         /\ loop[w].at = "publish" =>
              [loop EXCEPT ![w].batch = batch]
                = [loop EXCEPT ![w] = [at |-> "publish", batch |-> batch]]
<1>1. loop[w] \in [at : {"publish", "mark", "retry"}, batch : SUBSET DOMAIN rows]
  BY DEF OutboxTypeOK
<1>2. /\ [loop[w] EXCEPT !.at = at] = [at |-> at, batch |-> loop[w].batch]
      /\ [loop[w] EXCEPT !.batch = batch] = [at |-> loop[w].at, batch |-> batch]
  BY <1>1
<1> QED BY <1>1, <1>2

\* A worker that lists, starts anew, or publishes leaves the rows alone.
LEMMA LoopKeeps ==
  ASSUME OutboxInv, NEW w \in Workers, UNCHANGED rows, announced \subseteq announced',
         announced' \subseteq Orders, restarts' \in 0 .. MaxRestarts,
         NEW at \in {"publish", "mark", "retry"}, NEW batch \in SUBSET DOMAIN rows,
         loop' = [loop EXCEPT ![w] = [at |-> at, batch |-> batch]],
         at # "publish" => batch # {},
         at = "mark" => \A id \in batch :
                          (\A other \in batch : id <= other) => rows[id].order \in announced'
  PROVE  OutboxInv'
<1>1. OutboxTypeOK'
  BY DEF OutboxInv, OutboxTypeOK
<1>2. SentIsAnnounced'
  BY DEF OutboxInv, OutboxTypeOK, SentIsAnnounced, IsCurrent
<1>3. PublishedIsAnnounced'
  BY DEF OutboxInv, PublishedIsAnnounced
<1> QED BY <1>1, <1>2, <1>3 DEF OutboxInv

LEMMA ListKeeps ==
  ASSUME OutboxInv, NEW w \in Workers, ListPending(w) \/ RestartLoop(w)
  PROVE  OutboxInv'
<1>1. /\ loop[w] = [at |-> loop[w].at, batch |-> loop[w].batch]
      /\ announced \subseteq Orders /\ restarts \in 0 .. MaxRestarts
  BY DEF OutboxInv, OutboxTypeOK
<1>2. CASE ListPending(w)
  <2> DEFINE due == {id \in DOMAIN rows : IsDue(id)}
  <2>1. loop' = [loop EXCEPT ![w] = [at |-> "publish", batch |-> due]]
    <3>1. loop[w].at = "publish"
      BY <1>2 DEF ListPending, Waiting
    <3>2. loop' = [loop EXCEPT ![w].batch = due]
      BY <1>2 DEF ListPending
    <3> HIDE DEF due
    <3> QED BY <3>1, <3>2, LoopFields DEF OutboxInv
  <2>2. due \in SUBSET DOMAIN rows /\ UNCHANGED <<rows, announced, restarts>>
    BY <1>2 DEF ListPending
  <2> HIDE DEF due
  <2> QED BY <1>1, <2>1, <2>2, LoopKeeps
<1>3. CASE RestartLoop(w)
  <2>1. /\ loop' = [loop EXCEPT ![w] = [at |-> "publish", batch |-> {}]]
        /\ UNCHANGED <<rows, announced>> /\ restarts' \in 0 .. MaxRestarts
    BY <1>1, <1>3 DEF RestartLoop, Waiting
  <2>2. {} \in SUBSET DOMAIN rows /\ announced \subseteq announced' /\ announced' \subseteq Orders
    BY <1>1, <2>1
  <2> QED BY <2>1, <2>2, LoopKeeps
<1> QED BY <1>2, <1>3

LEMMA PublishKeeps ==
  ASSUME OutboxInv, NEW w \in Workers, NEW id \in DOMAIN rows,
         Publish(w, id) \/ PublishFails(w, id)
  PROVE  OutboxInv'
<1> DEFINE batch == loop[w].batch
<1>1. /\ announced \subseteq Orders /\ restarts \in 0 .. MaxRestarts
      /\ rows[id].order \in Orders /\ DOMAIN rows \subseteq Nat
  <2>1. rows \in Seq(Row) /\ announced \subseteq Orders /\ restarts \in 0 .. MaxRestarts
    BY DEF OutboxInv, OutboxTypeOK, Row
  <2>2. rows[id] \in Row /\ DOMAIN rows \subseteq Nat
    BY <2>1
  <2> QED BY <2>1, <2>2 DEF Row
<1>2. IsCurrent(w, id) /\ UNCHANGED <<rows, restarts>>
  BY DEF Publish, PublishFails
<1>3. batch \in SUBSET DOMAIN rows /\ id \in batch
  BY <1>2, LoopFields DEF IsCurrent, OutboxInv
<1>4. CASE Publish(w, id)
  <2>1. announced' = announced \cup {rows[id].order}
    BY <1>4 DEF Publish
  <2>2. loop' = [loop EXCEPT ![w] = [at |-> "mark", batch |-> batch]]
    BY <1>4, LoopFields DEF Publish, OutboxInv
  <2>3. \A other \in batch : (\A x \in batch : other <= x) => other = id
    BY <1>1, <1>2, <1>3 DEF IsCurrent
  <2> HIDE DEF batch
  <2> QED BY <1>1, <1>2, <1>3, <2>1, <2>2, <2>3, LoopKeeps
<1>5. CASE PublishFails(w, id)
  <2>1. announced' \in {announced, announced \cup {rows[id].order}}
    BY <1>5 DEF PublishFails
  <2>2. loop' = [loop EXCEPT ![w] = [at |-> "retry", batch |-> batch]]
    BY <1>5, LoopFields DEF PublishFails, OutboxInv
  <2> HIDE DEF batch
  <2> QED BY <1>1, <1>2, <1>3, <2>1, <2>2, LoopKeeps
<1> QED BY <1>4, <1>5

LEMMA MarkKeeps ==
  ASSUME OutboxInv, NEW w \in Workers, NEW id \in DOMAIN rows, MarkRow(w, id)
  PROVE  OutboxInv'
<1>1. /\ loop \in [Workers -> [at : {"publish", "mark", "retry"}, batch : SUBSET DOMAIN rows]]
      /\ IsCurrent(w, id) /\ loop[w].at # "publish" /\ UNCHANGED <<announced, restarts>>
      /\ loop' = [loop EXCEPT ![w] = [at |-> "publish", batch |-> loop[w].batch \ {id}]]
  BY DEF OutboxInv, OutboxTypeOK, MarkRow, GoOn
<1>2. /\ rows' \in Seq(Row) /\ DOMAIN rows' = DOMAIN rows
      /\ \A other \in DOMAIN rows :
           /\ rows'[other].order = rows[other].order
           /\ rows'[other].state # rows[other].state /\ rows'[other].state = "PUBLISHED"
                => other = id /\ loop[w].at = "mark"
  <2>1. CASE UNCHANGED rows
    BY <2>1 DEF OutboxInv, OutboxTypeOK, Row
  <2>2. CASE loop[w].at = "mark" /\ SetRow(id, "PUBLISHED")
    BY <2>2, SetRowRows DEF OutboxInv
  <2>3. CASE loop[w].at # "mark" /\ SetRow(id, "BACKOFF")
    BY <2>3, SetRowRows DEF OutboxInv
  <2> QED BY <2>1, <2>2, <2>3 DEF MarkRow
<1>3. OutboxTypeOK'
  BY <1>1, <1>2 DEF OutboxInv, OutboxTypeOK, Row
<1>4. SentIsAnnounced'
  BY <1>1, <1>2 DEF OutboxInv, SentIsAnnounced, IsCurrent
<1>5. PublishedIsAnnounced'
  BY <1>1, <1>2 DEF OutboxInv, PublishedIsAnnounced, SentIsAnnounced
<1> QED BY <1>3, <1>4, <1>5 DEF OutboxInv

LEMMA BackoffKeeps ==
  ASSUME OutboxInv, NEW id \in DOMAIN rows, BackoffEnds(id)
  PROVE  OutboxInv'
<1>1. SetRow(id, "RETRY") /\ UNCHANGED <<loop, announced, restarts>> /\ OutboxTypeOK
  BY DEF BackoffEnds, OutboxInv
<1>2. /\ rows' \in Seq(Row) /\ DOMAIN rows' = DOMAIN rows /\ rows'[id].state = "RETRY"
      /\ \A other \in DOMAIN rows :
           /\ rows'[other].order = rows[other].order
           /\ other # id => rows'[other].state = rows[other].state
  BY <1>1, SetRowRows
<1>3. OutboxTypeOK'
  BY <1>1, <1>2 DEF OutboxTypeOK, Row
<1> QED BY <1>1, <1>2, <1>3 DEF OutboxInv, SentIsAnnounced, PublishedIsAnnounced, IsCurrent

(***************************************************************************)
(* The inductive invariant.                                                *)
(***************************************************************************)
THEOREM OutboxInvariant == OutboxSpec => []OutboxInv
<1>1. OutboxInit => OutboxInv
  BY DEF OutboxInit, Waiting, OutboxInv, OutboxTypeOK, SentIsAnnounced, PublishedIsAnnounced
<1>2. OutboxInv /\ [OutboxNext]_outboxVars => OutboxInv'
  <2> SUFFICES ASSUME OutboxInv, [OutboxNext]_outboxVars PROVE OutboxInv'
    OBVIOUS
  <2>1. CASE OutboxNext
    BY <2>1, InsertKeeps, ListKeeps, PublishKeeps, MarkKeeps, BackoffKeeps DEF OutboxNext
  <2>2. CASE UNCHANGED outboxVars
    BY <2>2 DEF outboxVars, OutboxInv, OutboxTypeOK, SentIsAnnounced, PublishedIsAnnounced,
       IsCurrent
  <2> QED BY <2>1, <2>2
<1> QED BY <1>1, <1>2, PTL DEF OutboxSpec

(***************************************************************************)
(* Rows, loops and batches have their types.                               *)
(***************************************************************************)
THEOREM OutboxTypes == OutboxSpec => []OutboxTypeOK
<1> QED BY OutboxInvariant, PTL DEF OutboxInv

(***************************************************************************)
(* A row of ticket_outbox counts as published only when its TicketIssued is*)
(* in ticket.events (publishOutboxBatch), whichever worker marked it and   *)
(* whatever failed or restarted on the way.                                *)
(***************************************************************************)
THEOREM PublishedAreAnnounced == OutboxSpec => []PublishedIsAnnounced
<1> QED BY OutboxInvariant, PTL DEF OutboxInv

=============================================================================
