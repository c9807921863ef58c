---------------------------- MODULE TicketWorker -----------------------------
(***************************************************************************)
(* The ticket worker (internal/ticket/application/worker.go): it reads     *)
(* order.events, asks the seat allocator for a seat for every paid order,  *)
(* and writes ticket, order status and outbox row in one transaction.  The *)
(* outbox is published by a second loop (TicketOutbox).                    *)
(*                                                                         *)
(* Workers are the members of one consumer group: the partition of the     *)
(* topic belongs to one of them at a time, yet one that lost it may still  *)
(* be busy with a message.                                                 *)
(***************************************************************************)
EXTENDS SeatAllocator, Sequences, FiniteSets

CONSTANTS
  Orders,
  Workers,
  Trip,               \* from_index and to_index each worker is configured with
  Nil,                \* no order, no seat
  MaxTopic,           \* bound on the messages in order.events
  MaxLives,           \* bound on the times the allocator is started
  Faults              \* what may go wrong

ASSUME WorkerAssumption ==
  /\ Nil \notin Orders \cup [seat: Int, trip: [from: Nat, to: Nat], life: Nat]
  /\ Trip \in [Workers -> [from: Nat, to: Nat]]
  /\ MaxTopic \in Nat /\ MaxLives \in Nat \ {0}
  /\ Faults \subseteq {"call", "tx"}

VARIABLES
  status,             \* orders.status
  topic,              \* order.events: one partition
  owner,              \* the worker that reads it
  next,               \* how many messages that worker has read
  committed,          \* the offset of the group
  work,               \* what each worker has yet to do with its message
  life,               \* which life of the allocator this is
  ticket,             \* tickets: the seat of the one row an order can have
  outbox              \* ticket_outbox: the orders of its rows

groupVars == <<topic, owner, next, committed>>
dbVars == <<status, ticket, outbox>>
seatVars == <<occupied, life>>
workerVars == <<groupVars, work, seatVars, dbVars>>

Idle == [at |-> "read", order |-> Nil, seat |-> Nil]

WorkerInit ==
  /\ status = [o \in Orders |-> "RESERVED"]
  /\ topic = <<>> /\ next = 0 /\ committed = 0
  /\ owner \in Workers
  /\ work = [w \in Workers |-> Idle]
  /\ occupied = NothingTaken /\ life = 1
  /\ ticket = [o \in Orders |-> Nil]
  /\ outbox = <<>>

Done(w) == work' = [work EXCEPT ![w] = Idle]

-----------------------------------------------------------------------------
(* The order service, the broker and the allocator, as the worker meets    *)
(* them.                                                                   *)

PayOrder(o) ==
  /\ status[o] = "RESERVED"
  /\ status' = [status EXCEPT ![o] = "PAID"]
  /\ UNCHANGED <<groupVars, work, seatVars, ticket, outbox>>

\* The order service publishes an event at least once, and not before the
\* transaction that wrote it.
OrderEvent(type, o) ==
  /\ Len(topic) < MaxTopic
  /\ type = "OrderPaid" => status[o] # "RESERVED"
  /\ topic' = Append(topic, [type |-> type, order |-> o])
  /\ UNCHANGED <<owner, next, committed, work, seatVars, dbVars>>

\* The reader commits what it handed out, once in a second.
FlushOffset ==
  /\ committed < next
  /\ committed' = next
  /\ UNCHANGED <<topic, owner, next, work, seatVars, dbVars>>

Assign(w) ==
  /\ owner' = w
  /\ next' = committed
  /\ UNCHANGED <<topic, committed>>

Rebalance(w) ==
  /\ w # owner
  /\ Assign(w)
  /\ UNCHANGED <<work, seatVars, dbVars>>

RestartWorker(w) ==
  /\ \E heir \in Workers : Assign(heir)
  /\ Done(w)
  /\ UNCHANGED <<seatVars, dbVars>>

\* The allocator forgets what it gave away.
RestartAllocator ==
  /\ life < MaxLives
  /\ life' = life + 1
  /\ occupied' = NothingTaken
  /\ UNCHANGED <<groupVars, work, dbVars>>

-----------------------------------------------------------------------------
(* Start and handleMessage.  Any error is logged and the message is gone.  *)

ReadMessage(w) ==
  /\ owner = w /\ work[w] = Idle
  /\ next < Len(topic)
  /\ next' = next + 1
  /\ LET msg == topic[next + 1] IN
       work' = IF msg.type = "OrderPaid"
               THEN [work EXCEPT ![w] = [at |-> "allocate", order |-> msg.order, seat |-> Nil]]
               ELSE work
  /\ UNCHANGED <<topic, owner, committed, seatVars, dbVars>>

\* The seat is taken before anything is known of the order.  A call that fails
\* may have taken one.
AllocateSeat(w) ==
  LET taken(s) == [seat |-> s, trip |-> Trip[w], life |-> life] IN
  /\ work[w].at = "allocate"
  /\ \/ \E s \in AllSeats :
          /\ Allocate(Trip[w], s)
          /\ work' = [work EXCEPT ![w].at = "check", ![w].seat = taken(s)]
     \/ NoSeatAvailable(Trip[w]) /\ Done(w)
     \/ /\ "call" \in Faults
        /\ UNCHANGED occupied \/ \E s \in AllSeats : Allocate(Trip[w], s)
        /\ Done(w)
  /\ UNCHANGED <<groupVars, life, dbVars>>

\* The transaction begins: an order that is not PAID is left alone.
CheckPaid(w) ==
  LET o == work[w].order IN
  /\ work[w].at = "check"
  /\ \/ status[o] = "PAID" /\ work' = [work EXCEPT ![w].at = "insert"]
     \/ (status[o] # "PAID" \/ "tx" \in Faults) /\ Done(w)
  /\ UNCHANGED <<groupVars, seatVars, dbVars>>

IssueTicket(o, seat) ==
  /\ ticket' = [ticket EXCEPT ![o] = seat]
  /\ status' = [status EXCEPT ![o] = IF @ = "PAID" THEN "TICKETED" ELSE @]
  /\ outbox' = Append(outbox, o)

\* Mutant: an order that has a ticket is announced once more.
InsertTicketAgain(w) ==
  /\ work[w].at = "insert"
  /\ IssueTicket(work[w].order, work[w].seat)
  /\ Done(w)
  /\ UNCHANGED <<groupVars, seatVars>>

\* It ends: the unique key on the order lets one ticket in.  A transaction that
\* reports an error may have been committed.
InsertTicket(w) ==
  LET o == work[w].order IN
  /\ work[w].at = "insert"
  /\ \/ ticket[o] = Nil /\ IssueTicket(o, work[w].seat)
     \/ (ticket[o] # Nil \/ "tx" \in Faults) /\ UNCHANGED dbVars
  /\ Done(w)
  /\ UNCHANGED <<groupVars, seatVars>>

-----------------------------------------------------------------------------
WorkerNext ==
  \/ \E o \in Orders : PayOrder(o)
  \/ \E o \in Orders, type \in {"OrderReserved", "OrderPaid"} : OrderEvent(type, o)
  \/ FlushOffset \/ RestartAllocator
  \/ \E w \in Workers :
       \/ Rebalance(w) \/ RestartWorker(w)
       \/ ReadMessage(w) \/ AllocateSeat(w) \/ CheckPaid(w) \/ InsertTicket(w)

WorkerSpec == WorkerInit /\ [][WorkerNext]_workerVars

-----------------------------------------------------------------------------
(* Properties                                                              *)

Places == [seat: AllSeats, trip: {Trip[w] : w \in Workers}, life: 1..MaxLives]

WorkerTypeOK ==
  /\ occupied \in [AllSeats -> SUBSET (0..(SegmentCount - 1))]
  /\ life \in 1..MaxLives
  /\ status \in [Orders -> {"RESERVED", "PAID", "TICKETED"}]
  /\ topic \in Seq([type: {"OrderReserved", "OrderPaid"}, order: Orders])
  /\ owner \in Workers
  /\ next \in 0..Len(topic) /\ committed \in 0..next
  /\ work \in [Workers -> [at: {"read", "allocate", "check", "insert"},
                           order: Orders \cup {Nil}, seat: Places \cup {Nil}]]
  /\ ticket \in [Orders -> Places \cup {Nil}]
  /\ outbox \in Seq(Orders)

\* An order is TICKETED exactly when it has a ticket, and then the outbox has
\* exactly one row for it, however often its payment is delivered.
TicketsMatchOrders ==
  /\ \A o \in Orders :
       /\ status[o] = "TICKETED" <=> ticket[o] # Nil
       /\ ticket[o] # Nil <=> \E i \in 1..Len(outbox) : outbox[i] = o
  /\ \A i, j \in 1..Len(outbox) : outbox[i] = outbox[j] => i = j

\* Two orders never travel on one seat over the same segment, as long as the
\* allocator was not started anew between them.
Clash(t, u) ==
  /\ t.seat = u.seat
  /\ t.life = u.life
  /\ BuildMask(t.trip) \cap BuildMask(u.trip) # {}

SeatsAreExclusive ==
  \A o, o2 \in Orders :
    (o # o2 /\ ticket[o] # Nil /\ ticket[o2] # Nil) => ~Clash(ticket[o], ticket[o2])

\* A ticket is not changed or taken back by a later delivery.
TicketsAreFinal ==
  [][\A o \in Orders : ticket[o] # Nil => ticket'[o] = ticket[o]]_workerVars

=============================================================================
