----------------------------- MODULE OrderEvents -----------------------------
(***************************************************************************)
(* How the life of an order becomes messages: every step of an order       *)
(* writes a row of the outbox in its own transaction (OrderService checks  *)
(* that it does), a loop of the order service publishes the rows           *)
(* (internal/order/application/service.go, StartOutboxPublisher), and the  *)
(* ticket worker announces tickets in a topic of its own (TicketOutbox).   *)
(*                                                                         *)
(* A topic is one partition: messages have the order as their key, so      *)
(* those of one order are in one partition.                                *)
(***************************************************************************)
EXTENDS Integers, Sequences, FiniteSets

CONSTANTS
  Orders,
  MaxRows,            \* bound on the rows of the outbox
  MaxSent,            \* bound on the messages of order.events
  MaxAnnounced,       \* bound on the messages of ticket.events
  MaxFaults,          \* bound on how often something goes wrong
  Faults              \* what may go wrong

ASSUME EventsAssumption ==
  /\ {MaxRows, MaxSent, MaxAnnounced, MaxFaults} \subseteq Nat
  /\ Faults \subseteq {"publish", "mark", "handle", "cache", "commit", "restart"}

VARIABLES
  status,             \* orders.status; "none": no such row
  outbox,             \* outbox, by id
  sender,             \* the publisher loop: the ids it has yet to deal with
  topic,              \* order.events and ticket.events
  failed,             \* history: events that could not be published or handled at once
  faults

orderVars == <<status, outbox, sender, topic>>
eventVars == <<orderVars, failed, faults>>

Streams == {"order.events", "ticket.events"}

\* What an order does next, and the event that tells of it.
Steps == {[from |-> "none",     to |-> "INIT",      event |-> "OrderCreated"],
          [from |-> "INIT",     to |-> "RESERVED",  event |-> "OrderReserved"],
          [from |-> "RESERVED", to |-> "PAID",      event |-> "OrderPaid"],
          [from |-> "INIT",     to |-> "CANCELLED", event |-> "OrderCancelled"],
          [from |-> "RESERVED", to |-> "CANCELLED", event |-> "OrderCancelled"]}

Event(type, o) == [type |-> type, order |-> o]

NoBatch == [at |-> "publish", batch |-> {}]

EventsInit ==
  /\ status = [o \in Orders |-> "none"]
  /\ outbox = <<>>
  /\ sender = NoBatch
  /\ topic = [t \in Streams |-> <<>>]
  /\ failed = {}
  /\ faults = 0

Fault(kind) ==
  /\ kind \in Faults
  /\ faults < MaxFaults
  /\ faults' = faults + 1

Fails(kind, e) == Fault(kind) /\ failed' = failed \cup {e}

-----------------------------------------------------------------------------
\* Mutant: the row is written before the step that it tells of.
AdvanceOrderLater(o) ==
  \E s \in Steps :
    /\ status[o] = s.from
    /\ Len(outbox) < MaxRows
    /\ outbox' = Append(outbox, [event |-> Event(s.event, o), published |-> FALSE])
    /\ status' \in {status, [status EXCEPT ![o] = s.to]}
    /\ UNCHANGED <<sender, topic, failed, faults>>

\* The transactions of the order service.
AdvanceOrder(o) ==
  \E s \in Steps :
    /\ status[o] = s.from
    /\ Len(outbox) < MaxRows
    /\ status' = [status EXCEPT ![o] = s.to]
    /\ outbox' = Append(outbox, [event |-> Event(s.event, o), published |-> FALSE])
    /\ UNCHANGED <<sender, topic, failed, faults>>

\* The ticket worker's: it leaves the outbox of the order service alone.
TicketOrder(o) ==
  /\ status[o] = "PAID"
  /\ status' = [status EXCEPT ![o] = "TICKETED"]
  /\ UNCHANGED <<outbox, sender, topic, failed, faults>>

\* A ticket is announced once or more often.
AnnounceTicket(o) ==
  /\ status[o] = "TICKETED"
  /\ Len(topic["ticket.events"]) < MaxAnnounced
  /\ topic' = [topic EXCEPT !["ticket.events"] = Append(@, Event("TicketIssued", o))]
  /\ UNCHANGED <<status, outbox, sender, failed, faults>>

-----------------------------------------------------------------------------
(* StartOutboxPublisher                                                    *)

ListPending ==
  LET pending == {id \in DOMAIN outbox : ~outbox[id].published} IN
  /\ sender = NoBatch
  /\ pending # {}
  /\ sender' = [sender EXCEPT !.batch = pending]
  /\ UNCHANGED <<status, outbox, topic, failed, faults>>

\* The row the batch has come to: rows are listed by id.
IsCurrent(id) == id \in sender.batch /\ \A other \in sender.batch : id <= other

ToTopic(e) ==
  /\ Len(topic["order.events"]) < MaxSent
  /\ topic' = [topic EXCEPT !["order.events"] = Append(@, e)]

Publish(id) ==
  /\ sender.at = "publish" /\ IsCurrent(id)
  /\ ToTopic(outbox[id].event)
  /\ sender' = [sender EXCEPT !.at = "mark"]
  /\ UNCHANGED <<status, outbox, failed, faults>>

GoOn(id) == sender' = [at |-> "publish", batch |-> sender.batch \ {id}]

\* The loop goes on with the next row, and this one waits for the next round.
\* The message may have come through.
PublishFails(id) ==
  /\ sender.at = "publish" /\ IsCurrent(id)
  /\ ToTopic(outbox[id].event) \/ UNCHANGED topic
  /\ Fails("publish", outbox[id].event)
  /\ GoOn(id)
  /\ UNCHANGED <<status, outbox>>

\* MarkPublished, an error of which means that the row is published again.
MarkPublished(id) ==
  /\ sender.at = "mark" /\ IsCurrent(id)
  /\ \/ outbox' = [outbox EXCEPT ![id].published = TRUE] /\ UNCHANGED faults
     \/ Fault("mark") /\ UNCHANGED outbox
  /\ GoOn(id)
  /\ UNCHANGED <<status, topic, failed>>

RestartOrderService ==
  /\ Fault("restart")
  /\ sender' = NoBatch
  /\ UNCHANGED <<status, outbox, topic, failed>>

EventsNext ==
  \/ \E o \in Orders : AdvanceOrder(o) \/ TicketOrder(o) \/ AnnounceTicket(o)
  \/ ListPending
  \/ \E id \in DOMAIN outbox : Publish(id) \/ PublishFails(id) \/ MarkPublished(id)
  \/ RestartOrderService

-----------------------------------------------------------------------------
(* Properties                                                              *)

Statuses == {"none", "INIT", "RESERVED", "PAID", "TICKETED", "CANCELLED"}

Events ==
  [type: {s.event : s \in Steps} \cup {"TicketIssued"}, order: Orders]

EventsTypeOK ==
  /\ status \in [Orders -> Statuses]
  /\ outbox \in Seq([event: Events, published: BOOLEAN])
  /\ sender \in [at: {"publish", "mark"}, batch: SUBSET DOMAIN outbox]
  /\ topic \in [Streams -> Seq(Events)]
  /\ failed \subseteq Events
  /\ faults \in 0..MaxFaults

InTopic(t, e) == \E i \in 1..Len(topic[t]) : topic[t][i] = e

=============================================================================
