---------------------------- MODULE TicketOutbox -----------------------------
(***************************************************************************)
(* The publisher loop of the ticket worker                                 *)
(* (internal/ticket/application/worker.go, publishOutboxBatch): it lists   *)
(* the rows of ticket_outbox that are due, publishes them one by one and   *)
(* marks each as published or for a retry after a pause.  Every worker     *)
(* runs such a loop over the one table.                                    *)
(***************************************************************************)
EXTENDS Integers, Sequences, FiniteSets

CONSTANTS
  Orders,             \* an order has at most one row (TicketWorker)
  Workers,
  MaxRestarts         \* bound on the workers' restarts

ASSUME OutboxAssumption == MaxRestarts \in Nat

VARIABLES
  rows,               \* ticket_outbox, by id
  loop,               \* the publisher loop of each worker
  announced,          \* orders whose TicketIssued is in ticket.events
  restarts

outboxVars == <<rows, loop, announced, restarts>>

Waiting == [at |-> "publish", batch |-> {}]

Ids == 1..Cardinality(Orders)

OutboxInit ==
  /\ rows = <<>>
  /\ loop = [w \in Workers |-> Waiting]
  /\ announced = {}
  /\ restarts = 0

HasRow(o) == \E id \in DOMAIN rows : rows[id].order = o

SetRow(id, state) == rows' = [rows EXCEPT ![id].state = state]

\* The transaction that issues the ticket writes the row.
InsertRow(o) ==
  /\ ~HasRow(o)
  /\ rows' = Append(rows, [order |-> o, state |-> "PENDING"])
  /\ UNCHANGED <<loop, announced, restarts>>

IsDue(id) == rows[id].state \in {"PENDING", "RETRY"}

ListPending(w) ==
  LET due == {id \in DOMAIN rows : IsDue(id)} IN
  /\ loop[w] = Waiting
  /\ due # {}
  /\ loop' = [loop EXCEPT ![w].batch = due]
  /\ UNCHANGED <<rows, announced, restarts>>

\* The row the batch has come to: rows are listed by id.
IsCurrent(w, id) ==
  id \in loop[w].batch /\ \A other \in loop[w].batch : id <= other

Publish(w, id) ==
  /\ loop[w].at = "publish" /\ IsCurrent(w, id)
  /\ announced' = announced \cup {rows[id].order}
  /\ loop' = [loop EXCEPT ![w].at = "mark"]
  /\ UNCHANGED <<rows, restarts>>

\* Mutant: an error is taken for a success.
PublishFailsUnseen(w, id) ==
  /\ loop[w].at = "publish" /\ IsCurrent(w, id)
  /\ announced' \in {announced, announced \cup {rows[id].order}}
  /\ loop' = [loop EXCEPT ![w].at = "mark"]
  /\ UNCHANGED <<rows, restarts>>

\* An error does not tell whether the broker has the message.
PublishFails(w, id) ==
  /\ loop[w].at = "publish" /\ IsCurrent(w, id)
  /\ announced' \in {announced, announced \cup {rows[id].order}}
  /\ loop' = [loop EXCEPT ![w].at = "retry"]
  /\ UNCHANGED <<rows, restarts>>

GoOn(w, id) == loop' = [loop EXCEPT ![w] = [at |-> "publish", batch |-> @.batch \ {id}]]

\* Mutant: a failed row is kept for a retry that nobody lists.
MarkRowDead(w, id) ==
  /\ loop[w].at # "publish" /\ IsCurrent(w, id)
  /\ SetRow(id, IF loop[w].at = "mark" THEN "PUBLISHED" ELSE "FAILED")
  /\ GoOn(w, id)
  /\ UNCHANGED <<announced, restarts>>

\* MarkPublished after a success, MarkRetry after an error, whatever the row has
\* become meanwhile; if the database refuses, the row stays as it is.  Then the
\* batch goes on.
MarkRow(w, id) ==
  /\ loop[w].at # "publish" /\ IsCurrent(w, id)
  /\ \/ SetRow(id, IF loop[w].at = "mark" THEN "PUBLISHED" ELSE "BACKOFF")
     \/ UNCHANGED rows
  /\ GoOn(w, id)
  /\ UNCHANGED <<announced, restarts>>

\* The time next_retry_at of a row comes.
BackoffEnds(id) ==
  /\ id \in DOMAIN rows
  /\ rows[id].state = "BACKOFF"
  /\ SetRow(id, "RETRY")
  /\ UNCHANGED <<loop, announced, restarts>>

RestartLoop(w) ==
  /\ restarts < MaxRestarts
  /\ restarts' = restarts + 1
  /\ loop' = [loop EXCEPT ![w] = Waiting]
  /\ UNCHANGED <<rows, announced>>

OutboxNext ==
  \/ \E o \in Orders : InsertRow(o)
  \/ \E w \in Workers : ListPending(w) \/ RestartLoop(w)
  \/ \E w \in Workers, id \in DOMAIN rows :
       Publish(w, id) \/ PublishFails(w, id) \/ MarkRow(w, id)
  \/ \E id \in DOMAIN rows : BackoffEnds(id)

OutboxSpec == OutboxInit /\ [][OutboxNext]_outboxVars

\* The loops tick for ever, time passes, and a message that is sent again and
\* again gets through in the end.  The database may refuse every update.
FairOutboxSpec ==
  /\ OutboxSpec
  /\ \A w \in Workers :
       /\ WF_outboxVars(ListPending(w))
       /\ \A id \in Ids : WF_outboxVars(MarkRow(w, id)) /\ SF_outboxVars(Publish(w, id))
  /\ \A id \in Ids : WF_outboxVars(BackoffEnds(id))

-----------------------------------------------------------------------------
(* Properties                                                              *)

OutboxTypeOK ==
  /\ rows \in Seq([order: Orders, state: {"PENDING", "BACKOFF", "RETRY", "PUBLISHED"}])
  /\ loop \in [Workers -> [at: {"publish", "mark", "retry"}, batch: SUBSET DOMAIN rows]]
  /\ \A w \in Workers : loop[w].at # "publish" => loop[w].batch # {}
  /\ announced \subseteq Orders
  /\ restarts \in 0..MaxRestarts

\* A row counts as published only when its event is in the topic, so that no
\* event is dropped between database and broker.
PublishedIsAnnounced ==
  \A id \in DOMAIN rows : rows[id].state = "PUBLISHED" => rows[id].order \in announced

\* docs/architecture/overview.md: ticket events are produced from ticket_outbox
\* to guarantee eventual delivery.  Every ticket is announced, whatever fails on
\* the way, unless the workers do nothing but restart.
TicketsAreAnnounced == \A o \in Orders : HasRow(o) ~> o \in announced

=============================================================================
