---------------------------- MODULE OrderService -----------------------------
(***************************************************************************)
(* The order service (internal/order/application/service.go): a request    *)
(* reads the order, calls the inventory service over HTTP, and then moves  *)
(* the order in one database transaction that is guarded by the status it  *)
(* read.  Requests for one order run side by side, so any step of one can  *)
(* fall between two steps of another.                                      *)
(*                                                                         *)
(* Every request names its hold, by partition and id; what it leaves out   *)
(* is the default partition and the order's own id (resolveHoldConfig).    *)
(* So nothing makes the reserve, the callback and the cancel of an order   *)
(* name one hold, nor two orders different ones.  A hold is of one seat.   *)
(***************************************************************************)
EXTENDS Integers, Sequences, FiniteSets

CONSTANTS
  Orders,
  Requests,         \* requests in progress at a time
  Txns,             \* provider_txn_id of payment callbacks
  Kinds,            \* which endpoints are called
  Holds,            \* what a request may name: a hold id in a partition
  PartitionOf,      \* its partition
  Seats,            \* capacity of a partition
  Nil,              \* no transaction, no order
  Faults,           \* what may go wrong
  MaxLate           \* bound: calls that were given up and are still to be run

ASSUME OrderAssumption ==
  /\ Kinds \subseteq {"reserve", "pay", "cancel"}
  /\ Seats \in Nat
  /\ MaxLate \in Nat
  /\ Nil \notin Txns
  /\ Orders \subseteq Holds
  /\ Nil \notin Orders
  /\ Faults \subseteq {"call", "commit", "crash", "expiry", "restart"}

VARIABLES
  status,           \* orders.status; "none": no such row
  payments,         \* rows of payments: a transaction pays for an order
  outbox,           \* outbox[o]: the event types of the order's rows, oldest first
  avail,            \* inventory: seats of a partition neither held nor sold
  held,             \* inventory: the holds that exist
  sold,             \* inventory: seats confirmed under a hold
  late,             \* calls the client gave up and the inventory has yet to run
  req,              \* what each request has yet to do
  owner,            \* history: the order whose request was first to name a hold
  troubled          \* history: orders a hold of which expired, was lost or was to be
                    \* cancelled, for which a call or the database failed, or whose
                    \* requests named two holds or the hold of another order

dbVars == <<status, payments, outbox>>
stockVars == <<avail, held, sold>>
callVars == <<stockVars, late, owner, troubled>>
orderVars == <<dbVars, callVars, req>>

NoReq == [at |-> "idle"]

Partitions == {PartitionOf[h] : h \in Holds}

OrderInit ==
  /\ status = [o \in Orders |-> "none"]
  /\ payments = {}
  /\ outbox = [o \in Orders |-> <<>>]
  /\ avail = [p \in Partitions |-> Seats]
  /\ held = {}
  /\ sold = [h \in Holds |-> 0]
  /\ late = {}
  /\ req = [r \in Requests |-> NoReq]
  /\ owner = [h \in Holds |-> Nil]
  /\ troubled = {}

Goto(r, step) == req' = [req EXCEPT ![r].at = step]

Answer(r) == req' = [req EXCEPT ![r] = NoReq]

Trouble(o) == troubled' = troubled \cup {o}

-----------------------------------------------------------------------------
(* The inventory service, as the order service sees it: the effect of a    *)
(* command, and the outcomes of a call.                                    *)

Take(h) == avail' = [avail EXCEPT ![PartitionOf[h]] = @ - 1]

\* Mutant: the check for available seats is gone.
GrantedUnchecked(h) ==
  /\ held' = held \cup {h}
  /\ IF h \in held THEN UNCHANGED avail ELSE Take(h)
  /\ UNCHANGED sold

Granted(h) ==
  /\ avail[PartitionOf[h]] >= 1
  /\ held' = held \cup {h}
  /\ IF h \in held THEN UNCHANGED avail ELSE Take(h)
  /\ UNCHANGED sold

Released(h) ==
  /\ h \in held
  /\ held' = held \ {h}
  /\ avail' = [avail EXCEPT ![PartitionOf[h]] = @ + 1]
  /\ UNCHANGED sold

Confirmed(h) ==
  /\ h \in held
  /\ held' = held \ {h}
  /\ sold' = [sold EXCEPT ![h] = @ + 1]
  /\ UNCHANGED avail

Unconfirmed(h) ==
  /\ sold[h] >= 1
  /\ h \notin held
  /\ sold' = [sold EXCEPT ![h] = @ - 1]
  /\ held' = held \cup {h}
  /\ UNCHANGED avail

Run(command, h) ==
  CASE command = "try-hold" -> Granted(h)
    [] command = "release-hold" -> Released(h)
    [] command = "confirm-hold" -> Confirmed(h)

\* The answer is 2xx.
CallOk(command, h) == Run(command, h) /\ UNCHANGED <<late, owner, troubled>>

\* The answer is 404, hold not found.
CallNotFound(h) == h \notin held /\ UNCHANGED callVars

\* release-hold and confirm-hold: a hold that is not found is taken for one that
\* was dealt with before.
CallEnds(command, h) == CallOk(command, h) \/ CallNotFound(h)

\* The client sees an error or its timeout; the command was run, will be run,
\* or will never be.
CallFails(command, o, h) ==
  /\ "call" \in Faults
  /\ Trouble(o)
  /\ \/ Run(command, h) /\ UNCHANGED late
     \/ /\ Cardinality(late) < MaxLate
        /\ late' = late \cup {<<command, h>>}
        /\ UNCHANGED stockVars
     \/ UNCHANGED <<stockVars, late>>
  /\ UNCHANGED owner

LateCall ==
  \E c \in late :
    /\ late' = late \ {c}
    /\ Run(c[1], c[2]) \/ UNCHANGED stockVars
    /\ UNCHANGED <<dbVars, req, owner, troubled>>

TroubleOwner(h) == troubled' = troubled \cup ({owner[h]} \ {Nil})

\* The TTL loop of the inventory service.
Expire(h) ==
  /\ "expiry" \in Faults
  /\ Released(h)
  /\ TroubleOwner(h)
  /\ UNCHANGED <<dbVars, late, req, owner>>

\* The inventory service is restarted before the record of a hold it has granted
\* or confirmed was written.
Forget(h) ==
  /\ "restart" \in Faults
  /\ Released(h) \/ Unconfirmed(h)
  /\ TroubleOwner(h)
  /\ UNCHANGED <<dbVars, late, req, owner>>

-----------------------------------------------------------------------------
(* The database.                                                           *)

\* Mutant: the update is not guarded by the status.
MoveUnguarded(o, from, to, event) ==
  /\ status' = [status EXCEPT ![o] = to]
  /\ outbox' = [outbox EXCEPT ![o] = Append(@, event)]

\* The guarded update of the status, with its outbox row (UpdateStatusTx).
Move(o, from, to, event) ==
  /\ status[o] = from
  /\ status' = [status EXCEPT ![o] = to]
  /\ outbox' = [outbox EXCEPT ![o] = Append(@, event)]

\* A transaction reports an error, though it may have been committed.
CommitFails(o, transaction) ==
  /\ "commit" \in Faults
  /\ Trouble(o)
  /\ transaction \/ UNCHANGED dbVars

\* An idempotency key leads to one order, whoever inserts it first.
CreateOrder(o) ==
  /\ Move(o, "none", "INIT", "OrderCreated")
  /\ UNCHANGED <<payments, callVars, req>>

\* The ticket worker's transaction (ticket/application/worker.go:107-139).
TicketOrder(o) ==
  /\ status[o] = "PAID"
  /\ status' = [status EXCEPT ![o] = "TICKETED"]
  /\ UNCHANGED <<payments, outbox, callVars, req>>

\* A request for order o is about to call the inventory service about hold h.
Names(o, h) == owner' = IF owner[h] = Nil THEN [owner EXCEPT ![h] = o] ELSE owner

\* Who is in trouble by that: it is the hold of another order, or the order has one.
Clash(o, h) ==
  IF owner[h] \in {Nil, o} /\ \A g \in Holds \ {h} : owner[g] # o
  THEN {} ELSE {o, owner[h]} \ {Nil}

\* The endpoint has read the order and goes on; until then nobody sees it.
Begin(r, step, o, h, txn) ==
  req' = [req EXCEPT ![r] = [at |-> step, order |-> o, hold |-> h, txn |-> txn,
                             seen |-> status[o]]]

-----------------------------------------------------------------------------
(* ReserveOrder                                                            *)

\* Only an order that is INIT is reserved; otherwise the request is answered.
ReserveRead(r, o, h) ==
  /\ "reserve" \in Kinds
  /\ req[r] = NoReq
  /\ status[o] = "INIT"
  /\ Begin(r, "hold", o, h, Nil)
  /\ Names(o, h)
  /\ troubled' = troubled \cup Clash(o, h)
  /\ UNCHANGED <<dbVars, stockVars, late>>

ReserveHold(r) ==
  LET h == req[r].hold IN
  /\ req[r].at = "hold"
  /\ \/ CallOk("try-hold", h) /\ Goto(r, "reserving")
     \/ avail[PartitionOf[h]] < 1 /\ UNCHANGED callVars /\ Answer(r)
     \/ CallFails("try-hold", req[r].order, h) /\ Answer(r)
  /\ UNCHANGED dbVars

\* Mutant: the outbox row is written outside the transaction.
ReserveUpdateSplit(r) ==
  LET o == req[r].order IN
  /\ req[r].at = "reserving"
  /\ \/ Move(o, "INIT", "RESERVED", "OrderReserved") /\ Answer(r)
     \/ status[o] # "INIT" /\ UNCHANGED <<status, outbox>> /\ Goto(r, "recheck")
     \/ /\ "commit" \in Faults
        /\ outbox' = [outbox EXCEPT ![o] = Append(@, "OrderReserved")]
        /\ UNCHANGED status
        /\ Goto(r, "compensate")
  /\ UNCHANGED <<payments, callVars>>

\* Any way out but the committed one leads to the compensation.
ReserveUpdate(r) ==
  LET o == req[r].order
      transaction == Move(o, "INIT", "RESERVED", "OrderReserved") /\ UNCHANGED payments
  IN
  /\ req[r].at = "reserving"
  /\ \/ transaction /\ UNCHANGED troubled /\ Answer(r)
     \/ status[o] # "INIT" /\ UNCHANGED <<dbVars, troubled>> /\ Goto(r, "recheck")
     \/ CommitFails(o, transaction) /\ Goto(r, "compensate")
  /\ UNCHANGED <<stockVars, late, owner>>

\* Mutant: the hold is released although another request reserved the order.
ReserveRecheckNot(r) ==
  /\ req[r].at = "recheck"
  /\ Goto(r, "compensate")
  /\ UNCHANGED <<dbVars, callVars>>

\* Another request may have reserved the order: then the hold is left alone.
ReserveRecheck(r) ==
  LET o == req[r].order IN
  /\ req[r].at = "recheck"
  /\ \/ status[o] = "RESERVED" /\ UNCHANGED troubled /\ Answer(r)
     \/ status[o] # "RESERVED" /\ UNCHANGED troubled /\ Goto(r, "compensate")
     \/ "commit" \in Faults /\ Trouble(o) /\ Goto(r, "compensate")
  /\ UNCHANGED <<dbVars, stockVars, late, owner>>

ReserveCompensate(r) ==
  /\ req[r].at = "compensate"
  /\ \/ CallEnds("release-hold", req[r].hold)
     \/ CallFails("release-hold", req[r].order, req[r].hold)
  /\ Answer(r)
  /\ UNCHANGED dbVars

-----------------------------------------------------------------------------
(* PaymentCallback                                                         *)

PayRead(r, o, h, txn) ==
  /\ "pay" \in Kinds
  /\ req[r] = NoReq
  /\ status[o] = "RESERVED"
  /\ Begin(r, "confirm", o, h, txn)
  /\ Names(o, h)
  /\ troubled' = troubled \cup Clash(o, h)
  /\ UNCHANGED <<dbVars, stockVars, late>>

PayConfirm(r) ==
  /\ req[r].at = "confirm"
  /\ \/ CallEnds("confirm-hold", req[r].hold) /\ Goto(r, "paying")
     \/ CallFails("confirm-hold", req[r].order, req[r].hold) /\ Answer(r)
  /\ UNCHANGED dbVars

\* Mutant: the payment is kept when the order was moved meanwhile.
PayRecordNoRollback(r) ==
  LET o == req[r].order IN
  /\ req[r].at = "paying"
  /\ \A p \in payments : p.txn # req[r].txn
  /\ payments' = payments \cup {[txn |-> req[r].txn, order |-> o]}
  /\ \/ Move(o, "RESERVED", "PAID", "OrderPaid")
     \/ status[o] # "RESERVED" /\ UNCHANGED <<status, outbox>>
  /\ Answer(r)
  /\ UNCHANGED callVars

\* The unique key on provider_txn_id stops a second payment by the same
\* transaction; a payment that finds the order moved is rolled back.
PayRecord(r) ==
  LET o == req[r].order
      transaction ==
        /\ \A p \in payments : p.txn # req[r].txn
        /\ payments' = payments \cup {[txn |-> req[r].txn, order |-> o]}
        /\ Move(o, "RESERVED", "PAID", "OrderPaid")
  IN
  /\ req[r].at = "paying"
  /\ \/ transaction /\ UNCHANGED troubled
     \/ /\ status[o] # "RESERVED" \/ \E p \in payments : p.txn = req[r].txn
        /\ UNCHANGED <<dbVars, troubled>>
     \/ CommitFails(o, transaction)
  /\ Answer(r)
  /\ UNCHANGED <<stockVars, late, owner>>

-----------------------------------------------------------------------------
(* CancelOrder                                                             *)

\* The hold of an order that was never reserved is not asked for.
CancelRead(r, o, h) ==
  /\ "cancel" \in Kinds
  /\ req[r] = NoReq
  /\ \/ /\ status[o] = "INIT"
        /\ Begin(r, "cancelling", o, h, Nil)
        /\ UNCHANGED <<owner, troubled>>
     \/ /\ status[o] = "RESERVED"
        /\ Begin(r, "release", o, h, Nil)
        /\ Names(o, h)
        /\ troubled' = troubled \cup {o} \cup Clash(o, h)
  /\ UNCHANGED <<dbVars, stockVars, late>>

CancelRelease(r) ==
  /\ req[r].at = "release"
  /\ \/ CallEnds("release-hold", req[r].hold) /\ Goto(r, "cancelling")
     \/ CallFails("release-hold", req[r].order, req[r].hold) /\ Answer(r)
  /\ UNCHANGED dbVars

CancelUpdate(r) ==
  LET o == req[r].order
      transaction == /\ Move(o, req[r].seen, "CANCELLED", "OrderCancelled")
                     /\ UNCHANGED payments
  IN
  /\ req[r].at = "cancelling"
  /\ \/ transaction /\ UNCHANGED troubled
     \/ status[o] # req[r].seen /\ UNCHANGED <<dbVars, troubled>>
     \/ CommitFails(o, transaction)
  /\ Answer(r)
  /\ UNCHANGED <<stockVars, late, owner>>

-----------------------------------------------------------------------------
\* The process dies: its requests end where they are.
Crash ==
  /\ "crash" \in Faults
  /\ req' = [r \in Requests |-> NoReq]
  /\ UNCHANGED <<dbVars, callVars>>

OrderNext ==
  \/ \E o \in Orders : CreateOrder(o) \/ TicketOrder(o)
  \/ \E h \in Holds : Expire(h) \/ Forget(h)
  \/ \E r \in Requests, o \in Orders, h \in Holds :
       \/ ReserveRead(r, o, h) \/ CancelRead(r, o, h)
       \/ \E txn \in Txns : PayRead(r, o, h, txn)
  \/ \E r \in Requests :
       \/ ReserveHold(r) \/ ReserveUpdate(r) \/ ReserveRecheck(r) \/ ReserveCompensate(r)
       \/ PayConfirm(r) \/ PayRecord(r)
       \/ CancelRelease(r) \/ CancelUpdate(r)
  \/ LateCall
  \/ Crash

OrderSpec == OrderInit /\ [][OrderNext]_orderVars

-----------------------------------------------------------------------------
(* Properties                                                              *)

Statuses == {"none", "INIT", "RESERVED", "PAID", "TICKETED", "CANCELLED"}

Steps ==
  {"hold", "reserving", "recheck", "compensate", "confirm", "paying", "release", "cancelling"}

OrderTypeOK ==
  /\ status \in [Orders -> Statuses]
  /\ payments \subseteq [txn: Txns, order: Orders]
  /\ outbox \in [Orders -> Seq({"OrderCreated", "OrderReserved", "OrderPaid", "OrderCancelled"})]
  /\ avail \in [Partitions -> 0..Seats]
  /\ held \subseteq Holds
  /\ sold \in [Holds -> 0..Seats]
  /\ late \subseteq {"try-hold", "release-hold", "confirm-hold"} \X Holds
  /\ \A r \in Requests :
       \/ req[r] = NoReq
       \/ req[r] \in [at: Steps, order: Orders, hold: Holds,
                    txn: Txns \cup {Nil}, seen: Statuses]
  /\ owner \in [Holds -> Orders \cup {Nil}]
  /\ troubled \subseteq Orders

\* Whatever interleaves, crashes or fails, the row of an order lives the life
\* the domain object describes (domain/order.go:45-75).
Lifecycle == INSTANCE OrderLifecycle

LifecycleSpec == Lifecycle!Spec

\* The outbox tells the story of the order: its events lead to its status, in
\* order, none twice and none missing.  Tickets have an outbox of their own.
Story(s) ==
  CASE s = "none" -> {<<>>}
    [] s = "INIT" -> {<<"OrderCreated">>}
    [] s = "RESERVED" -> {<<"OrderCreated", "OrderReserved">>}
    [] s \in {"PAID", "TICKETED"} -> {<<"OrderCreated", "OrderReserved", "OrderPaid">>}
    [] s = "CANCELLED" -> {<<"OrderCreated", "OrderCancelled">>,
                           <<"OrderCreated", "OrderReserved", "OrderCancelled">>}

OutboxTellsStatus == \A o \in Orders : outbox[o] \in Story(status[o])

\* An order is paid for by exactly one recorded payment, and only then counts
\* as paid; a transaction pays for one order.
PaymentsMatchOrders ==
  /\ \A o \in Orders :
       Cardinality({p \in payments : p.order = o}) =
         IF status[o] \in {"PAID", "TICKETED"} THEN 1 ELSE 0
  /\ \A p, p2 \in payments : p.txn = p2.txn => p = p2

HasSeat(o) == \E h \in Holds : owner[h] = o /\ sold[h] >= 1

\* src/README.md: paying confirms the deduction of the stock.  A paid order has
\* a seat that was sold under its hold.
PaidHasSeat ==
  \A o \in Orders : status[o] \in {"PAID", "TICKETED"} => HasSeat(o)

\* However reserves and callbacks interleave and wherever they die, that holds
\* of every order whose requests all named one hold and that no other order
\* named, if this hold neither expired nor was lost by a restart of the
\* inventory nor given up by a cancel, as long as no call and no transaction for
\* this order reported an error.
UntroubledPaidHasSeat ==
  \A o \in Orders \ troubled : status[o] \in {"PAID", "TICKETED"} => HasSeat(o)

=============================================================================
