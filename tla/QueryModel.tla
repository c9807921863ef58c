----------------------------- MODULE QueryModel ------------------------------
(***************************************************************************)
(* The query service (internal/query/application/service.go): two          *)
(* consumers turn the messages of the two topics into rows of              *)
(* query_order_view, a table of consumed events keeps a repeated message   *)
(* from counting twice, a cache in Redis serves the readers, and a start   *)
(* of the service copies the orders table first.                           *)
(***************************************************************************)
EXTENDS OrderEvents

CONSTANT Nil          \* no view

ASSUME QueryAssumption == Nil \notin [status: Statuses, seat: BOOLEAN]

VARIABLES
  view,               \* query_order_view: the status, and whether seat_no is known
  consumed,           \* consumed_events
  committed,          \* the offset of each consumer group
  consumer,           \* how many messages each consumer has fetched, and what is next
  rebuild,            \* the rows of orders a start has yet to copy
  cache,              \* query:order:<id>
  reading             \* what a reader took from the view and has yet to cache

viewVars == <<view, consumed>>
cacheVars == <<cache, reading>>
queryVars == <<eventVars, viewVars, committed, consumer, rebuild, cacheVars>>

FromCommitted == [t \in Streams |-> [at |-> "fetch", next |-> committed[t]]]

QueryInit ==
  /\ EventsInit
  /\ view = [o \in Orders |-> Nil]
  /\ consumed = {}
  /\ committed = [t \in Streams |-> 0]
  /\ consumer = FromCommitted
  /\ rebuild = {}
  /\ cache = [o \in Orders |-> Nil]
  /\ reading = [o \in Orders |-> Nil]

HasSeat(v) == v # Nil /\ v.seat

-----------------------------------------------------------------------------
(* RebuildColdStart.  The rows are read in one statement and written one   *)
(* by one, before consumers and readers start.                             *)

Started == rebuild = {}

RestartQuery ==
  /\ Fault("restart")
  /\ rebuild' = {[order |-> o, status |-> status[o]] : o \in {x \in Orders : status[x] # "none"}}
  /\ consumer' = FromCommitted
  /\ reading' = [o \in Orders |-> Nil]
  /\ UNCHANGED <<orderVars, failed, viewVars, committed, cache>>

\* Mutant: the row is replaced, seat and all.
CopyOrderWhole(row) ==
  /\ view' = [view EXCEPT ![row.order] = [status |-> row.status, seat |-> FALSE]]
  /\ rebuild' = rebuild \ {row}
  /\ UNCHANGED <<eventVars, consumed, committed, consumer, cacheVars>>

CopyOrder(row) ==
  /\ view' = [view EXCEPT ![row.order] = [status |-> row.status, seat |-> HasSeat(@)]]
  /\ rebuild' = rebuild \ {row}
  /\ UNCHANGED <<eventVars, consumed, committed, consumer, cacheVars>>

-----------------------------------------------------------------------------
(* consumeOnce                                                             *)

\* What an event makes of the row of its order: whatever status the row has, it
\* takes that of the event.
Updated(v, e) ==
  IF e.type = "TicketIssued"
  THEN [status |-> "TICKETED", seat |-> TRUE]
  ELSE [status |-> (CHOOSE s \in Steps : s.event = e.type).to, seat |-> HasSeat(v)]

\* Mutant: a row that exists is left as it is.
ApplyOnce(e) ==
  /\ e \notin consumed
  /\ consumed' = consumed \cup {e}
  /\ view' = [view EXCEPT ![e.order] = IF @ = Nil THEN Updated(@, e) ELSE @]

\* The transaction of handleOrderEvent and handleTicketEvent.
Apply(e) ==
  /\ e \notin consumed
  /\ consumed' = consumed \cup {e}
  /\ view' = [view EXCEPT ![e.order] = Updated(@, e)]

\* Mutant: the commit comes before the message is handled.
HandleAfterCommit(t) ==
  LET n == consumer[t].next + 1
      e == topic[t][n]
  IN
  /\ Started /\ consumer[t].at = "fetch" /\ n <= Len(topic[t])
  /\ \/ committed[t] < n /\ committed' = [committed EXCEPT ![t] = n] /\ UNCHANGED <<viewVars, consumer>>
     \/ /\ committed[t] >= n /\ Apply(e) /\ UNCHANGED committed
        /\ consumer' = [consumer EXCEPT ![t].at = "invalidate", ![t].next = n]
  /\ UNCHANGED <<eventVars, rebuild, cacheVars>>

\* A message is fetched and handled.  A repeated one changes nothing and is
\* committed.  After an error the consumer goes on with the next message.
Handle(t) ==
  LET n == consumer[t].next + 1
      e == topic[t][n]
      Leave(step) == consumer' = [consumer EXCEPT ![t].at = step, ![t].next = n]
  IN
  /\ Started /\ consumer[t].at = "fetch" /\ n <= Len(topic[t])
  /\ \/ Apply(e) /\ Leave("invalidate") /\ UNCHANGED <<failed, faults>>
     \/ e \in consumed /\ Leave("commit") /\ UNCHANGED <<viewVars, failed, faults>>
     \/ /\ Fails("handle", e)
        /\ Apply(e) \/ UNCHANGED viewVars
        /\ Leave("fetch")
  /\ UNCHANGED <<orderVars, committed, rebuild, cacheVars>>

Goto(t, step) == consumer' = [consumer EXCEPT ![t].at = step]

Invalidate(t) ==
  /\ consumer[t].at = "invalidate"
  /\ \/ cache' = [cache EXCEPT ![topic[t][consumer[t].next].order] = Nil]
        /\ UNCHANGED faults
     \/ Fault("cache") /\ UNCHANGED cache
  /\ Goto(t, "commit")
  /\ UNCHANGED <<orderVars, failed, viewVars, committed, rebuild, reading>>

\* Mutant: the offset after the next one.
CommitBeyond(t) ==
  /\ consumer[t].at = "commit"
  /\ committed' = [committed EXCEPT ![t] = consumer[t].next + 1]
  /\ Goto(t, "fetch")
  /\ UNCHANGED <<eventVars, viewVars, rebuild, cacheVars>>

\* The reader queues the offset and sends the highest one once in a second, so
\* a commit may be lost with the process, or to an error that is only logged.
Commit(t) ==
  /\ consumer[t].at = "commit"
  /\ \/ committed' = [committed EXCEPT ![t] = consumer[t].next] /\ UNCHANGED faults
     \/ Fault("commit") /\ UNCHANGED committed
  /\ Goto(t, "fetch")
  /\ UNCHANGED <<orderVars, failed, viewVars, rebuild, cacheVars>>

-----------------------------------------------------------------------------
(* GetOrderView: a reader that misses the cache takes the row and caches   *)
(* it in a second step.                                                    *)

ReadView(o) ==
  /\ Started
  /\ reading[o] = Nil /\ view[o] # Nil
  /\ \/ cache[o] = Nil /\ UNCHANGED faults
     \/ Fault("cache")
  /\ reading' = [reading EXCEPT ![o] = view[o]]
  /\ UNCHANGED <<orderVars, failed, viewVars, committed, consumer, rebuild, cache>>

SetOrderView(o) ==
  /\ reading[o] # Nil
  /\ \/ cache' = [cache EXCEPT ![o] = reading[o]] /\ UNCHANGED faults
     \/ Fault("cache") /\ UNCHANGED cache
  /\ reading' = [reading EXCEPT ![o] = Nil]
  /\ UNCHANGED <<orderVars, failed, viewVars, committed, consumer, rebuild>>

CacheExpires(o) ==
  /\ cache[o] # Nil
  /\ cache' = [cache EXCEPT ![o] = Nil]
  /\ UNCHANGED <<eventVars, viewVars, committed, consumer, rebuild, reading>>

-----------------------------------------------------------------------------
QueryNext ==
  \/ EventsNext /\ UNCHANGED <<viewVars, committed, consumer, rebuild, cacheVars>>
  \/ RestartQuery
  \/ \E row \in rebuild : CopyOrder(row)
  \/ \E t \in Streams : Handle(t) \/ Invalidate(t) \/ Commit(t)
  \/ \E o \in Orders : ReadView(o) \/ SetOrderView(o) \/ CacheExpires(o)

QuerySpec == QueryInit /\ [][QueryNext]_queryVars

-----------------------------------------------------------------------------
(* Properties                                                              *)

Views == [status: Statuses, seat: BOOLEAN]

QueryTypeOK ==
  /\ EventsTypeOK
  /\ view \in [Orders -> Views \cup {Nil}]
  /\ consumed \subseteq Events
  /\ committed \in [Streams -> Nat]
  /\ consumer \in [Streams -> [at: {"fetch", "invalidate", "commit"}, next: Nat]]
  /\ \A t \in Streams :
       committed[t] <= consumer[t].next /\ consumer[t].next <= Len(topic[t])
  /\ rebuild \subseteq [order: Orders, status: Statuses]
  /\ cache \in [Orders -> Views \cup {Nil}]
  /\ reading \in [Orders -> Views \cup {Nil}]

\* The statuses an order that has this one has been through.
Past(s) ==
  CASE s = "none" -> {}
    [] s = "INIT" -> {"INIT"}
    [] s = "RESERVED" -> {"INIT", "RESERVED"}
    [] s = "PAID" -> {"INIT", "RESERVED", "PAID"}
    [] s = "TICKETED" -> {"INIT", "RESERVED", "PAID", "TICKETED"}
    [] s = "CANCELLED" -> {"INIT", "RESERVED", "CANCELLED"}

TruthOf(o, v) ==
  v = Nil \/ /\ v.status \in Past(status[o])
             /\ v.seat => status[o] = "TICKETED"

\* What a reader is shown may be old, but it was true once: neither the view nor
\* the cache is ever ahead of the order, whatever fails, restarts or is repeated.
ViewIsNeverAhead ==
  \A o \in Orders : TruthOf(o, view[o]) /\ TruthOf(o, cache[o]) /\ TruthOf(o, reading[o])

\* A message before the committed offset was consumed, unless its handling
\* failed: the error passes it over with the next commit.
CommittedIsConsumed ==
  \A t \in Streams : \A i \in 1..committed[t] : topic[t][i] \in consumed \cup failed

\* docs/architecture/overview.md: the query consumer commits its offset only
\* after the database transaction has succeeded.
CommitFollowsTransaction ==
  \A t \in Streams : \A i \in 1..committed[t] : topic[t][i] \in consumed

\* When all that happened is published and handled, the view of an order none of
\* whose events failed on the way shows its status.  It shows PAID for TICKETED
\* when the ticket was handled first, for the topics are not read in step.
Settled(o) ==
  /\ Started
  /\ \A id \in 1..Len(outbox) : outbox[id].event.order = o => outbox[id].published
  /\ status[o] = "TICKETED" => InTopic("ticket.events", Event("TicketIssued", o))
  /\ \A t \in Streams : consumer[t].next = Len(topic[t])
  /\ \A e \in failed : e.order # o

ViewSettles ==
  \A o \in Orders : (Settled(o) /\ status[o] # "none") =>
    /\ view[o] # Nil
    /\ \/ view[o].status = status[o]
       \/ status[o] = "TICKETED" /\ view[o].status = "PAID"
    /\ view[o].seat <=> status[o] = "TICKETED"

\* A seat that is shown stays shown: no event and no restart takes it away.
SeatStaysKnown ==
  [][\A o \in Orders : HasSeat(view[o]) => HasSeat(view'[o])]_queryVars

=============================================================================
