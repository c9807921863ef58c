-------------------------- MODULE QueryModelProofs ---------------------------
(***************************************************************************)
(* That readers are never shown what has not happened, that a commit       *)
(* passes over nothing but what failed, that a seat stays shown, and that  *)
(* every view settles, for all sets of orders and all bounds.              *)
(*                                                                         *)
(* An order only moves on, so whatever was once true of it stays true      *)
(* (PastGrows).  The argument follows the truth from the outbox            *)
(* through the topics (NewsIsTrue) and from the copied rows to view and    *)
(* cache (ViewIsNeverAhead).  That views settle takes the order of the     *)
(* news as well (SettleInv, in the second half).                           *)
(***************************************************************************)
EXTENDS QueryModel, TLAPS, SequenceTheorems

\* What an event says has happened.
IsTrue(e) ==
  IF e.type = "TicketIssued"
  THEN status[e.order] = "TICKETED"
  ELSE \A s \in Steps : s.event = e.type => s.to \in Past(status[e.order])

NewsIsTrue ==
  /\ \A id \in DOMAIN outbox : IsTrue(outbox[id].event)
  /\ \A t \in Streams : \A i \in DOMAIN topic[t] : IsTrue(topic[t][i])
  /\ \A row \in rebuild : row.status \in Past(status[row.order])

\* A message a consumer has passed was consumed or failed.
PassedIsConsumed ==
  \A t \in Streams : \A i \in 1 .. consumer[t].next : topic[t][i] \in consumed \cup failed

QueryInv == QueryTypeOK /\ NewsIsTrue /\ ViewIsNeverAhead /\ PassedIsConsumed

USE EventsAssumption, QueryAssumption

Rows == [event : Events, published : BOOLEAN]

-----------------------------------------------------------------------------
(* Statuses and events                                                     *)

\* The steps of an order, one by one.
LEMMA StepCases ==
  ASSUME NEW s \in Steps
  PROVE  \/ s.from = "none" /\ s.to = "INIT" /\ s.event = "OrderCreated"
         \/ s.from = "INIT" /\ s.to = "RESERVED" /\ s.event = "OrderReserved"
         \/ s.from = "RESERVED" /\ s.to = "PAID" /\ s.event = "OrderPaid"
         \/ s.from \in {"INIT", "RESERVED"} /\ s.to = "CANCELLED" /\ s.event = "OrderCancelled"
BY DEF Steps

LEMMA PastGrows ==
  /\ \A s \in Steps : s.to \in Statuses /\ s.to \in Past(s.to) /\ Past(s.from) \subseteq Past(s.to)
  /\ Past("PAID") \subseteq Past("TICKETED") /\ "TICKETED" \in Past("TICKETED")
  /\ \A x \in Statuses \ {"none"} : x \in Past(x)
  /\ \A x \in Statuses : Past(x) \subseteq Statuses
<1>1. \A s \in Steps : s.to \in Statuses /\ s.to \in Past(s.to) /\ Past(s.from) \subseteq Past(s.to)
  BY StepCases DEF Past, Statuses
<1>2. /\ Past("PAID") \subseteq Past("TICKETED") /\ "TICKETED" \in Past("TICKETED")
      /\ \A x \in Statuses \ {"none"} : x \in Past(x)
      /\ \A x \in Statuses : Past(x) \subseteq Statuses
  BY DEF Past, Statuses
<1> QED BY <1>1, <1>2

\* An order moves on, or it stays.
StatusStep ==
  \A o \in Orders :
    /\ Past(status[o]) \subseteq Past(status'[o])
    /\ status[o] = "TICKETED" => status'[o] = "TICKETED"

LEMMA TruthStays ==
  ASSUME StatusStep
  PROVE  /\ \A e \in Events : IsTrue(e) => IsTrue(e)'
         /\ \A o \in Orders, v \in Views \cup {Nil} : TruthOf(o, v) => TruthOf(o, v)'
         /\ \A o \in Orders, s \in Statuses : s \in Past(status[o]) => s \in Past(status'[o])
BY DEF StatusStep, IsTrue, TruthOf, Events

LEMMA SameStatus ==
  ASSUME UNCHANGED status
  PROVE  StatusStep
BY DEF StatusStep

LEMMA NilIsNoView == Nil \notin Views
BY Zenon, QueryAssumption DEF Views

\* What an event makes of a row is true when the event and the row are.
LEMMA UpdateIsTrue ==
  ASSUME NEW e \in Events, NEW v \in Views \cup {Nil},
         IsTrue(e), TruthOf(e.order, v)
  PROVE  /\ Updated(v, e) \in Views
         /\ TruthOf(e.order, Updated(v, e))
         /\ HasSeat(v) => HasSeat(Updated(v, e))
<1>1. CASE e.type = "TicketIssued"
  <2>1. Updated(v, e) = [status |-> "TICKETED", seat |-> TRUE]
    BY <1>1 DEF Updated
  <2>2. status[e.order] = "TICKETED"
    BY <1>1 DEF IsTrue
  <2>3. Updated(v, e) \in Views /\ Updated(v, e).status = "TICKETED"
    BY <2>1 DEF Views, Statuses
  <2>4. Updated(v, e) # Nil /\ Updated(v, e).seat
    <3>1. Updated(v, e).seat
      BY <2>1
    <3> QED BY <2>3, <3>1, NilIsNoView
  <2> QED BY <2>2, <2>3, <2>4, PastGrows DEF TruthOf, HasSeat
<1>2. CASE e.type # "TicketIssued"
  <2> DEFINE s == CHOOSE x \in Steps : x.event = e.type
  <2>1. \E x \in Steps : x.event = e.type
    BY <1>2 DEF Events
  <2>2. s \in Steps /\ s.event = e.type
    BY <2>1
  <2>3. Updated(v, e) = [status |-> s.to, seat |-> HasSeat(v)]
    BY <1>2 DEF Updated
  <2> HIDE DEF s
  <2>4. s.to \in Statuses /\ s.to \in Past(status[e.order])
    BY <1>2, <2>2, PastGrows DEF IsTrue
  <2>5. HasSeat(v) \in BOOLEAN
    BY DEF HasSeat, Views
  <2>6. HasSeat(v) => status[e.order] = "TICKETED"
    BY DEF HasSeat, TruthOf
  <2>7. Updated(v, e) \in Views /\ Updated(v, e).status = s.to
    BY <2>3, <2>4, <2>5 DEF Views
  <2>8. Updated(v, e) # Nil /\ (Updated(v, e).seat <=> HasSeat(v))
    <3>1. Updated(v, e).seat = HasSeat(v)
      BY <2>3
    <3> QED BY <2>7, <3>1, NilIsNoView
  <2>9. TruthOf(e.order, Updated(v, e))
    BY <2>4, <2>6, <2>7, <2>8 DEF TruthOf
  <2>10. HasSeat(v) => HasSeat(Updated(v, e))
    BY <2>8 DEF HasSeat
  <2> QED BY <2>7, <2>9, <2>10
<1> QED BY <1>1, <1>2

-----------------------------------------------------------------------------
(* From the orders to the topics                                           *)

TopicGrows ==
  \A t \in Streams :
    /\ Len(topic[t]) <= Len(topic'[t])
    /\ \A i \in 1 .. Len(topic[t]) : topic'[t][i] = topic[t][i]

\* What a step of the order service or of the ticket worker does.
EventsStep ==
  /\ EventsTypeOK' /\ StatusStep /\ NewsIsTrue'
  /\ TopicGrows
  /\ failed \subseteq failed'

LEMMA TypesOfEvents ==
  ASSUME EventsTypeOK
  PROVE  /\ outbox \in Seq(Rows)
         /\ \A id \in DOMAIN outbox : outbox[id] \in Rows /\ outbox[id].event \in Events
         /\ DOMAIN outbox = 1 .. Len(outbox)
         /\ \A t \in Streams : topic[t] \in Seq(Events) /\ Len(topic[t]) \in Nat
                               /\ DOMAIN topic[t] = 1 .. Len(topic[t])
         /\ \A t \in Streams : \A i \in 1 .. Len(topic[t]) : topic[t][i] \in Events
<1>1. outbox \in Seq(Rows)
  BY DEF EventsTypeOK, Rows
<1>2. \A id \in DOMAIN outbox : outbox[id] \in Rows /\ outbox[id].event \in Events
  <2>1. \A id \in DOMAIN outbox : outbox[id] \in Rows
    BY <1>1
  <2>2. \A row \in Rows : row.event \in Events
    BY DEF Rows
  <2> QED BY <2>1, <2>2
<1>3. \A t \in Streams : topic[t] \in Seq(Events)
  BY DEF EventsTypeOK
<1> QED BY <1>1, <1>2, <1>3

LEMMA SameTopic ==
  ASSUME EventsTypeOK, UNCHANGED topic
  PROVE  TopicGrows
BY TypesOfEvents DEF TopicGrows

\* The faults are counted up to their bound.
LEMMA FaultTypes ==
  ASSUME EventsTypeOK, (\E kind : Fault(kind)) \/ UNCHANGED faults
  PROVE  faults' \in 0 .. MaxFaults
BY DEF EventsTypeOK, Fault

LEMMA AppendToTopic ==
  ASSUME EventsTypeOK, NEW t \in Streams, NEW e \in Events,
         topic' = [topic EXCEPT ![t] = Append(@, e)]
  PROVE  /\ topic' \in [Streams -> Seq(Events)]
         /\ TopicGrows
         /\ \A u \in Streams : \A i \in DOMAIN topic'[u] :
              (i \in DOMAIN topic[u] /\ topic'[u][i] = topic[u][i]) \/ topic'[u][i] = e
<1>1. topic \in [Streams -> Seq(Events)]
  BY DEF EventsTypeOK
<1>2. topic'[t] = Append(topic[t], e) /\ \A u \in Streams \ {t} : topic'[u] = topic[u]
  BY <1>1
<1>3. /\ Append(topic[t], e) \in Seq(Events)
      /\ Len(Append(topic[t], e)) = Len(topic[t]) + 1
      /\ \A i \in 1 .. Len(topic[t]) : Append(topic[t], e)[i] = topic[t][i]
      /\ Append(topic[t], e)[Len(topic[t]) + 1] = e
      /\ DOMAIN Append(topic[t], e) = 1 .. (Len(topic[t]) + 1)
  BY <1>1, AppendProperties
<1>4. topic' \in [Streams -> Seq(Events)]
  BY <1>1, <1>3
<1>5. TopicGrows
  BY <1>2, <1>3, TypesOfEvents DEF TopicGrows
<1>6. ASSUME NEW u \in Streams, NEW i \in DOMAIN topic'[u]
      PROVE  (i \in DOMAIN topic[u] /\ topic'[u][i] = topic[u][i]) \/ topic'[u][i] = e
  <2>1. CASE u = t
    BY <1>2, <1>3, <1>6, <2>1, TypesOfEvents
  <2>2. CASE u # t
    BY <1>2, <1>6, <2>2
  <2> QED BY <2>1, <2>2
<1> QED BY <1>4, <1>5, <1>6

\* The news of a step is true when the old news was and the new piece is.
LEMMA NewsStaysTrue ==
  ASSUME EventsTypeOK, QueryTypeOK, NewsIsTrue, StatusStep, UNCHANGED rebuild,
         \A id \in DOMAIN outbox' :
           \/ id \in DOMAIN outbox /\ outbox'[id].event = outbox[id].event
           \/ outbox'[id].event \in Events /\ IsTrue(outbox[id].event)',
         \A t \in Streams : \A i \in DOMAIN topic'[t] :
           \/ i \in DOMAIN topic[t] /\ topic'[t][i] = topic[t][i]
           \/ topic'[t][i] \in Events /\ IsTrue(topic[t][i])'
  PROVE  NewsIsTrue'
<1>1. \A id \in DOMAIN outbox' : IsTrue(outbox[id].event)'
  BY TruthStays, TypesOfEvents DEF NewsIsTrue
<1>2. \A t \in Streams : \A i \in DOMAIN topic'[t] : IsTrue(topic[t][i])'
  BY TruthStays, TypesOfEvents DEF NewsIsTrue
<1>3. \A row \in rebuild' : row.status \in Past(status[row.order])'
  BY TruthStays DEF NewsIsTrue, QueryTypeOK
<1> QED BY <1>1, <1>2, <1>3 DEF NewsIsTrue

LEMMA AdvanceKeeps ==
  ASSUME QueryInv, UNCHANGED rebuild, NEW o \in Orders, AdvanceOrder(o)
  PROVE  EventsStep
<1>1. PICK s \in Steps :
        /\ status[o] = s.from
        /\ status' = [status EXCEPT ![o] = s.to]
        /\ outbox' = Append(outbox, [event |-> Event(s.event, o), published |-> FALSE])
        /\ UNCHANGED <<sender, topic, failed, faults>>
  BY DEF AdvanceOrder
<1> DEFINE e == Event(s.event, o)
           row == [event |-> e, published |-> FALSE]
<1>2. QueryTypeOK /\ EventsTypeOK /\ NewsIsTrue /\ status \in [Orders -> Statuses]
  BY DEF QueryInv, QueryTypeOK, EventsTypeOK
<1>3. e \in Events /\ e.type = s.event /\ e.order = o /\ s.event # "TicketIssued"
  BY StepCases DEF Event, Events
<1>4. row \in Rows /\ row.event = e
  BY <1>3 DEF Rows
<1> HIDE DEF e, row
<1>5. /\ outbox' \in Seq(Rows) /\ DOMAIN outbox \subseteq DOMAIN outbox'
      /\ \A id \in DOMAIN outbox' :
           (id \in DOMAIN outbox /\ outbox'[id] = outbox[id]) \/ outbox'[id] = row
  <2>1. outbox' = Append(outbox, row) /\ outbox \in Seq(Rows)
    BY <1>1, <1>2, TypesOfEvents DEF row, e
  <2> QED BY <1>4, <2>1, AppendProperties
<1>6. status' \in [Orders -> Statuses] /\ StatusStep
  <2>1. s.from # "TICKETED"
    BY StepCases
  <2> QED BY <1>1, <1>2, <2>1, PastGrows DEF StatusStep
<1>7. IsTrue(e)'
  <2>1. status'[e.order] = s.to
    BY <1>1, <1>2, <1>3
  <2>2. \A x \in Steps : x.event = s.event => x.to = s.to
    BY StepCases
  <2> QED BY <1>3, <2>1, <2>2, PastGrows DEF IsTrue
<1>8. EventsTypeOK'
  BY <1>1, <1>2, <1>5, <1>6 DEF EventsTypeOK, Rows
<1>9. NewsIsTrue'
  <2>1. \A id \in DOMAIN outbox' :
          \/ id \in DOMAIN outbox /\ outbox'[id].event = outbox[id].event
          \/ outbox'[id].event \in Events /\ IsTrue(outbox[id].event)'
    BY <1>3, <1>4, <1>5, <1>7
  <2> QED BY <1>1, <1>2, <1>6, <2>1, NewsStaysTrue
<1> QED BY <1>1, <1>2, <1>6, <1>8, <1>9, SameTopic DEF EventsStep

LEMMA TicketKeeps ==
  ASSUME QueryInv, UNCHANGED rebuild, NEW o \in Orders, TicketOrder(o)
  PROVE  EventsStep
<1>1. QueryTypeOK /\ EventsTypeOK /\ NewsIsTrue /\ status \in [Orders -> Statuses]
  BY DEF QueryInv, QueryTypeOK, EventsTypeOK
<1>2. /\ status[o] = "PAID" /\ status' = [status EXCEPT ![o] = "TICKETED"]
      /\ UNCHANGED <<outbox, sender, topic, failed, faults>>
  BY DEF TicketOrder
<1>3. status' \in [Orders -> Statuses] /\ StatusStep
  BY <1>1, <1>2, PastGrows DEF StatusStep, Statuses
<1>4. EventsTypeOK'
  BY <1>1, <1>2, <1>3 DEF EventsTypeOK
<1>5. NewsIsTrue'
  BY <1>1, <1>2, <1>3, NewsStaysTrue
<1> QED BY <1>1, <1>2, <1>3, <1>4, <1>5, SameTopic DEF EventsStep

LEMMA AnnounceKeeps ==
  ASSUME QueryInv, UNCHANGED rebuild, NEW o \in Orders, AnnounceTicket(o)
  PROVE  EventsStep
<1> DEFINE e == Event("TicketIssued", o)
<1>1. QueryTypeOK /\ EventsTypeOK /\ NewsIsTrue
  BY DEF QueryInv, QueryTypeOK
<1>2. /\ status[o] = "TICKETED" /\ "ticket.events" \in Streams
      /\ topic' = [topic EXCEPT !["ticket.events"] = Append(@, e)]
      /\ UNCHANGED <<status, outbox, sender, failed, faults>>
  BY DEF AnnounceTicket, Streams
<1>3. e \in Events /\ IsTrue(e)'
  BY <1>2 DEF Event, Events, IsTrue
<1> HIDE DEF e
<1>4. /\ topic' \in [Streams -> Seq(Events)] /\ TopicGrows
      /\ \A u \in Streams : \A i \in DOMAIN topic'[u] :
           (i \in DOMAIN topic[u] /\ topic'[u][i] = topic[u][i]) \/ topic'[u][i] = e
  BY <1>1, <1>2, <1>3, AppendToTopic
<1>5. EventsTypeOK'
  BY <1>1, <1>2, <1>4 DEF EventsTypeOK
<1>6. NewsIsTrue'
  BY <1>1, <1>2, <1>3, <1>4, SameStatus, NewsStaysTrue
<1> QED BY <1>1, <1>2, <1>4, <1>5, <1>6, SameStatus DEF EventsStep

\* What the publisher does: it sends a row of the outbox, marks one, or neither.
LEMMA SenderKeeps ==
  ASSUME QueryInv, UNCHANGED rebuild,
         \/ ListPending \/ RestartOrderService
         \/ \E id \in DOMAIN outbox : Publish(id) \/ PublishFails(id) \/ MarkPublished(id)
  PROVE  EventsStep
<1>1. QueryTypeOK /\ EventsTypeOK /\ NewsIsTrue
  BY DEF QueryInv, QueryTypeOK
<1>2. /\ UNCHANGED status /\ StatusStep
  BY SameStatus DEF ListPending, RestartOrderService, Publish, PublishFails, MarkPublished
<1>3. /\ outbox' \in Seq(Rows) /\ DOMAIN outbox' = DOMAIN outbox
      /\ \A id \in DOMAIN outbox : outbox'[id].event = outbox[id].event
  <2>1. CASE UNCHANGED outbox
    BY <1>1, <2>1 DEF EventsTypeOK, Rows
  <2>2. ASSUME NEW id \in DOMAIN outbox,
               outbox' = [outbox EXCEPT ![id].published = TRUE]
        PROVE  /\ outbox' \in Seq(Rows) /\ DOMAIN outbox' = DOMAIN outbox
               /\ \A other \in DOMAIN outbox : outbox'[other].event = outbox[other].event
    <3>1. outbox \in Seq(Rows) /\ outbox[id] \in Rows
      BY <1>1, TypesOfEvents
    <3>2. /\ [outbox[id] EXCEPT !.published = TRUE] \in Rows
          /\ [outbox[id] EXCEPT !.published = TRUE].event = outbox[id].event
      BY <3>1 DEF Rows
    <3>3. outbox' = [outbox EXCEPT ![id] = [outbox[id] EXCEPT !.published = TRUE]]
      BY <2>2
    <3> QED BY <3>1, <3>2, <3>3, ExceptSeq
  <2> QED BY <2>1, <2>2
    DEF ListPending, RestartOrderService, Publish, PublishFails, MarkPublished
<1>4. /\ topic' \in [Streams -> Seq(Events)] /\ TopicGrows
      /\ \A t \in Streams : \A i \in DOMAIN topic'[t] :
           \/ i \in DOMAIN topic[t] /\ topic'[t][i] = topic[t][i]
           \/ topic'[t][i] \in Events /\ IsTrue(topic[t][i])'
  <2>1. CASE UNCHANGED topic
    BY <1>1, <2>1, SameTopic DEF EventsTypeOK
  <2>2. ASSUME NEW id \in DOMAIN outbox, ToTopic(outbox[id].event)
        PROVE  /\ topic' \in [Streams -> Seq(Events)] /\ TopicGrows
               /\ \A t \in Streams : \A i \in DOMAIN topic'[t] :
                    \/ i \in DOMAIN topic[t] /\ topic'[t][i] = topic[t][i]
                    \/ topic'[t][i] \in Events /\ IsTrue(topic[t][i])'
    <3>1. PICK e \in Events : e = outbox[id].event
      BY <1>1, TypesOfEvents
    <3>2. IsTrue(e)'
      BY <1>1, <1>2, <3>1, TruthStays DEF NewsIsTrue
    <3>3. "order.events" \in Streams /\ topic' = [topic EXCEPT !["order.events"] = Append(@, e)]
      BY <2>2, <3>1 DEF ToTopic, Streams
    <3>4. /\ topic' \in [Streams -> Seq(Events)] /\ TopicGrows
          /\ \A u \in Streams : \A i \in DOMAIN topic'[u] :
               (i \in DOMAIN topic[u] /\ topic'[u][i] = topic[u][i]) \/ topic'[u][i] = e
      BY <1>1, <3>3, AppendToTopic
    <3> QED BY <3>2, <3>4
  <2> QED BY <2>1, <2>2
    DEF ListPending, RestartOrderService, Publish, PublishFails, MarkPublished
<1>5. sender' \in [at : {"publish", "mark"}, batch : SUBSET DOMAIN outbox]
  <2>1. sender \in [at : {"publish", "mark"}, batch : SUBSET DOMAIN outbox]
    BY <1>1 DEF EventsTypeOK
  <2> QED BY <2>1
    DEF ListPending, RestartOrderService, Publish, PublishFails, MarkPublished, GoOn, NoBatch
<1>6. failed \subseteq failed' /\ failed' \subseteq Events /\ faults' \in 0 .. MaxFaults
  <2>1. failed \subseteq Events
    BY <1>1 DEF EventsTypeOK
  <2>2. (\E kind : Fault(kind)) \/ UNCHANGED faults
    BY DEF ListPending, RestartOrderService, Publish, PublishFails, MarkPublished, Fails
  <2>3. \/ UNCHANGED failed
        \/ \E id \in DOMAIN outbox : failed' = failed \cup {outbox[id].event}
    BY DEF ListPending, RestartOrderService, Publish, PublishFails, MarkPublished, Fails
  <2> QED BY <1>1, <2>1, <2>2, <2>3, FaultTypes, TypesOfEvents
<1>7. EventsTypeOK'
  BY <1>1, <1>2, <1>3, <1>4, <1>5, <1>6 DEF EventsTypeOK, Rows
<1>8. NewsIsTrue'
  BY <1>1, <1>2, <1>3, <1>4, NewsStaysTrue
<1> QED BY <1>2, <1>4, <1>6, <1>7, <1>8 DEF EventsStep

-----------------------------------------------------------------------------
(* The query service                                                       *)

\* The state of the query service has its types, and readers see the truth.
ReadersOK ==
  /\ view \in [Orders -> Views \cup {Nil}]
  /\ cache \in [Orders -> Views \cup {Nil}]
  /\ reading \in [Orders -> Views \cup {Nil}]
  /\ ViewIsNeverAhead

ConsumersOK ==
  /\ consumed \subseteq Events
  /\ committed \in [Streams -> Nat]
  /\ consumer \in [Streams -> [at : {"fetch", "invalidate", "commit"}, next : Nat]]
  /\ \A t \in Streams :
       committed[t] <= consumer[t].next /\ consumer[t].next <= Len(topic[t])
  /\ PassedIsConsumed

RebuildOK == rebuild \subseteq [order : Orders, status : Statuses]

LEMMA InvParts ==
  QueryInv <=> EventsTypeOK /\ NewsIsTrue /\ ReadersOK /\ ConsumersOK /\ RebuildOK
BY DEF QueryInv, QueryTypeOK, ReadersOK, ConsumersOK, RebuildOK

LEMMA PartsNext ==
  ASSUME EventsTypeOK', NewsIsTrue', ReadersOK', ConsumersOK', RebuildOK'
  PROVE  QueryInv'
BY DEF QueryInv, QueryTypeOK, ReadersOK, ConsumersOK, RebuildOK

LEMMA EventsKeep ==
  ASSUME QueryInv, EventsNext, UNCHANGED <<viewVars, committed, consumer, rebuild, cacheVars>>
  PROVE  QueryInv'
<1>1. EventsStep
  BY AdvanceKeeps, TicketKeeps, AnnounceKeeps, SenderKeeps DEF EventsNext
<1>2. EventsTypeOK /\ ReadersOK /\ ConsumersOK /\ RebuildOK
  BY InvParts
<1>3. ReadersOK'
  BY <1>1, <1>2, TruthStays DEF EventsStep, ReadersOK, ViewIsNeverAhead, viewVars, cacheVars
<1>4. ConsumersOK'
  <2>1. \A t \in Streams : Len(topic[t]) \in Nat /\ Len(topic'[t]) \in Nat
    BY <1>1, <1>2, TypesOfEvents DEF EventsStep, EventsTypeOK
  <2>2. \A t \in Streams :
          /\ consumer[t].next \in Nat /\ consumer[t].next <= Len(topic[t])
          /\ Len(topic[t]) <= Len(topic'[t])
          /\ \A i \in 1 .. consumer[t].next : topic'[t][i] = topic[t][i]
    BY <1>1, <1>2, <2>1 DEF EventsStep, TopicGrows, ConsumersOK
  <2>3. PassedIsConsumed'
    BY <1>1, <1>2, <2>2 DEF EventsStep, ConsumersOK, PassedIsConsumed, viewVars
  <2>4. \A t \in Streams :
          committed'[t] <= consumer'[t].next /\ consumer'[t].next <= Len(topic'[t])
    BY <1>2, <2>1, <2>2 DEF ConsumersOK
  <2> QED BY <1>2, <2>3, <2>4 DEF ConsumersOK, viewVars
<1>5. RebuildOK'
  BY <1>2 DEF RebuildOK
<1> QED BY <1>1, <1>3, <1>4, <1>5, PartsNext DEF EventsStep

\* The query service leaves orders, outbox and topics alone.
LEMMA OrdersAlone ==
  ASSUME QueryInv, UNCHANGED orderVars, failed' \subseteq Events,
         (\E kind : Fault(kind)) \/ UNCHANGED faults,
         \A row \in rebuild' : row.status \in Past(status[row.order])
  PROVE  EventsTypeOK' /\ NewsIsTrue'
<1>1. EventsTypeOK /\ NewsIsTrue
  BY InvParts
<1>2. EventsTypeOK'
  BY <1>1, FaultTypes DEF EventsTypeOK, orderVars
<1>3. NewsIsTrue'
  BY <1>1 DEF NewsIsTrue, orderVars, IsTrue
<1> QED BY <1>2, <1>3

LEMMA RestartKeeps == ASSUME QueryInv, RestartQuery PROVE QueryInv'
<1>1. EventsTypeOK /\ NewsIsTrue /\ ReadersOK /\ ConsumersOK /\ RebuildOK
  BY InvParts
<1>2. /\ Fault("restart") /\ UNCHANGED <<orderVars, failed, viewVars, committed, cache>>
      /\ rebuild' = {[order |-> o, status |-> status[o]] :
                       o \in {x \in Orders : status[x] # "none"}}
      /\ consumer' = [t \in Streams |-> [at |-> "fetch", next |-> committed[t]]]
      /\ reading' = [o \in Orders |-> Nil]
  BY DEF RestartQuery, FromCommitted
<1>3. status \in [Orders -> Statuses]
  BY <1>1 DEF EventsTypeOK
<1>4. RebuildOK' /\ \A row \in rebuild' : row.status \in Past(status[row.order])
  BY <1>2, <1>3, PastGrows DEF RebuildOK
<1>5. EventsTypeOK' /\ NewsIsTrue'
  BY <1>1, <1>2, <1>4, OrdersAlone DEF EventsTypeOK
<1>6. ReadersOK'
  BY <1>1, <1>2 DEF ReadersOK, ViewIsNeverAhead, TruthOf, viewVars, orderVars
<1>7. ConsumersOK'
  <2>1. \A t \in Streams :
          /\ committed[t] \in Nat /\ consumer[t].next \in Nat /\ Len(topic[t]) \in Nat
          /\ committed[t] <= consumer[t].next /\ consumer[t].next <= Len(topic[t])
          /\ consumer'[t].next = committed[t]
    BY <1>1, <1>2, TypesOfEvents DEF ConsumersOK
  <2>2. PassedIsConsumed'
    BY <1>1, <1>2, <2>1 DEF ConsumersOK, PassedIsConsumed, viewVars, orderVars
  <2>3. consumer' \in [Streams -> [at : {"fetch", "invalidate", "commit"}, next : Nat]]
    BY <1>2, <2>1
  <2> QED BY <1>1, <1>2, <2>1, <2>2, <2>3 DEF ConsumersOK, viewVars, orderVars
<1> QED BY <1>4, <1>5, <1>6, <1>7, PartsNext

LEMMA CopyKeeps == ASSUME QueryInv, NEW row \in rebuild, CopyOrder(row) PROVE QueryInv'
<1> DEFINE v == [status |-> row.status, seat |-> HasSeat(view[row.order])]
<1>1. EventsTypeOK /\ NewsIsTrue /\ ReadersOK /\ ConsumersOK /\ RebuildOK
  BY InvParts
<1>2. /\ view' = [view EXCEPT ![row.order] = v] /\ rebuild' = rebuild \ {row}
      /\ UNCHANGED <<eventVars, consumed, committed, consumer, cacheVars>>
  BY DEF CopyOrder
<1>3. row.order \in Orders /\ row.status \in Statuses /\ row.status \in Past(status[row.order])
  BY <1>1 DEF RebuildOK, NewsIsTrue
<1>4. v \in Views /\ TruthOf(row.order, v)
  <2>1. HasSeat(view[row.order]) \in BOOLEAN
    BY <1>1, <1>3 DEF HasSeat, ReadersOK, Views
  <2>2. HasSeat(view[row.order]) => status[row.order] = "TICKETED"
    BY <1>1, <1>3 DEF HasSeat, ReadersOK, ViewIsNeverAhead, TruthOf
  <2> QED BY <1>3, <2>1, <2>2 DEF Views, TruthOf
<1> HIDE DEF v
<1>5. EventsTypeOK' /\ NewsIsTrue'
  BY <1>1, <1>2, OrdersAlone DEF EventsTypeOK, eventVars, NewsIsTrue
<1>6. ReadersOK'
  BY <1>1, <1>2, <1>3, <1>4 DEF ReadersOK, ViewIsNeverAhead, TruthOf, cacheVars, eventVars, orderVars
<1>7. ConsumersOK' /\ RebuildOK'
  BY <1>1, <1>2 DEF ConsumersOK, PassedIsConsumed, RebuildOK, eventVars, orderVars
<1> QED BY <1>5, <1>6, <1>7, PartsNext

\* Readers and their cache: every value comes from the view, or is none.
LEMMA ReadersKeep ==
  ASSUME QueryInv, NEW o \in Orders, ReadView(o) \/ SetOrderView(o) \/ CacheExpires(o)
  PROVE  QueryInv'
<1>1. EventsTypeOK /\ NewsIsTrue /\ ReadersOK /\ ConsumersOK /\ RebuildOK
  BY InvParts
<1>2. /\ UNCHANGED <<orderVars, failed, viewVars, committed, consumer, rebuild>>
      /\ (\E kind : Fault(kind)) \/ UNCHANGED faults
  BY DEF ReadView, SetOrderView, CacheExpires, eventVars
<1>3. /\ cache' \in {cache, [cache EXCEPT ![o] = reading[o]], [cache EXCEPT ![o] = Nil]}
      /\ reading' \in {reading, [reading EXCEPT ![o] = view[o]], [reading EXCEPT ![o] = Nil]}
  BY DEF ReadView, SetOrderView, CacheExpires, cacheVars
<1>4. EventsTypeOK' /\ NewsIsTrue'
  BY <1>1, <1>2, OrdersAlone DEF EventsTypeOK, NewsIsTrue
<1>5. TruthOf(o, Nil)
  BY DEF TruthOf
<1>6. /\ cache' \in [Orders -> Views \cup {Nil}] /\ \A x \in Orders : TruthOf(x, cache'[x])
      /\ reading' \in [Orders -> Views \cup {Nil}] /\ \A x \in Orders : TruthOf(x, reading'[x])
  BY <1>1, <1>3, <1>5 DEF ReadersOK, ViewIsNeverAhead
<1>7. ReadersOK'
  BY <1>1, <1>2, <1>6 DEF ReadersOK, ViewIsNeverAhead, TruthOf, orderVars, viewVars
<1>8. ConsumersOK' /\ RebuildOK'
  BY <1>1, <1>2 DEF ConsumersOK, PassedIsConsumed, RebuildOK, viewVars, orderVars
<1> QED BY <1>4, <1>7, <1>8, PartsNext

\* One consumer moves, to the next message or to another step with the same.
ConsumerMoves(t, n) ==
  \E step \in {"fetch", "invalidate", "commit"} :
    consumer' = [consumer EXCEPT ![t] = [at |-> step, next |-> n]]

LEMMA ConsumerFields ==
  ASSUME QueryInv, NEW t \in Streams, NEW n \in Nat, NEW step
  PROVE  /\ [consumer EXCEPT ![t].at = step, ![t].next = n]
              = [consumer EXCEPT ![t] = [at |-> step, next |-> n]]
         /\ [consumer EXCEPT ![t].at = step]
              = [consumer EXCEPT ![t] = [at |-> step, next |-> consumer[t].next]]
<1>1. /\ consumer[t] \in [at : {"fetch", "invalidate", "commit"}, next : Nat]
      /\ consumer \in [Streams -> [at : {"fetch", "invalidate", "commit"}, next : Nat]]
  BY InvParts DEF ConsumersOK
<1>2. [[consumer[t] EXCEPT !.at = step] EXCEPT !.next = n] = [at |-> step, next |-> n]
  <2>1. [consumer[t] EXCEPT !.at = step] = [at |-> step, next |-> consumer[t].next]
    BY <1>1
  <2>2. \A x : [[at |-> step, next |-> x] EXCEPT !.next = n] = [at |-> step, next |-> n]
    OBVIOUS
  <2> QED BY <2>1, <2>2
<1>3. [consumer[t] EXCEPT !.at = step] = [at |-> step, next |-> consumer[t].next]
  BY <1>1
<1> QED BY <1>1, <1>2, <1>3

LEMMA MovesKeep ==
  ASSUME QueryInv, NEW t \in Streams, NEW n \in Nat, ConsumerMoves(t, n),
         UNCHANGED orderVars, committed' \in [Streams -> Nat],
         n <= Len(topic[t]), consumer[t].next <= n,
         \A u \in Streams : committed'[u] = committed[u] \/ (u = t /\ committed'[u] = n),
         consumed \subseteq consumed', consumed' \subseteq Events, failed \subseteq failed',
         \A i \in 1 .. n : i <= consumer[t].next \/ topic[t][i] \in consumed' \cup failed'
  PROVE  ConsumersOK'
<1>1. EventsTypeOK /\ ConsumersOK
  BY InvParts
<1>2. PICK step \in {"fetch", "invalidate", "commit"} :
        consumer' = [consumer EXCEPT ![t] = [at |-> step, next |-> n]]
  BY DEF ConsumerMoves
<1>3. /\ consumer' \in [Streams -> [at : {"fetch", "invalidate", "commit"}, next : Nat]]
      /\ consumer'[t].next = n
      /\ \A u \in Streams \ {t} : consumer'[u] = consumer[u]
  BY <1>1, <1>2 DEF ConsumersOK
<1>4. \A u \in Streams : committed[u] \in Nat /\ consumer[u].next \in Nat /\ Len(topic[u]) \in Nat
  BY <1>1, TypesOfEvents DEF ConsumersOK
<1>5. \A u \in Streams :
        committed'[u] <= consumer'[u].next /\ consumer'[u].next <= Len(topic'[u])
  <2> SUFFICES ASSUME NEW u \in Streams
               PROVE  committed'[u] <= consumer'[u].next /\ consumer'[u].next <= Len(topic[u])
    BY DEF orderVars
  <2>1. CASE u = t
    BY <1>1, <1>3, <1>4, <2>1 DEF ConsumersOK
  <2>2. CASE u # t
    BY <1>1, <1>3, <1>4, <2>2 DEF ConsumersOK
  <2> QED BY <2>1, <2>2
<1>6. PassedIsConsumed'
  <2> SUFFICES ASSUME NEW u \in Streams, NEW i \in 1 .. consumer'[u].next
               PROVE  topic[u][i] \in consumed' \cup failed'
    BY DEF PassedIsConsumed, orderVars
  <2>1. CASE u = t
    BY <1>1, <1>3, <1>4, <2>1 DEF ConsumersOK, PassedIsConsumed
  <2>2. CASE u # t
    BY <1>1, <1>3, <2>2 DEF ConsumersOK, PassedIsConsumed
  <2> QED BY <2>1, <2>2
<1> QED BY <1>3, <1>5, <1>6 DEF ConsumersOK

\* The transaction of a handler: the view takes what the event says.
LEMMA ApplyKeeps ==
  ASSUME QueryInv, NEW e \in Events, IsTrue(e), UNCHANGED <<orderVars, cacheVars>>,
         Apply(e) \/ UNCHANGED viewVars
  PROVE  /\ ReadersOK' /\ consumed \subseteq consumed' /\ consumed' \subseteq Events
         /\ \A o \in Orders : HasSeat(view[o]) => HasSeat(view'[o])
<1>1. ReadersOK /\ ConsumersOK
  BY InvParts
<1>2. CASE UNCHANGED viewVars
  BY <1>1, <1>2 DEF ReadersOK, ConsumersOK, ViewIsNeverAhead, TruthOf, viewVars, cacheVars, orderVars
<1>3. CASE Apply(e)
  <2> DEFINE v == Updated(view[e.order], e)
  <2>1. e.order \in Orders
    BY DEF Events
  <2>2. view' = [view EXCEPT ![e.order] = v] /\ consumed' = consumed \cup {e}
    BY <1>3 DEF Apply
  <2>3. v \in Views /\ TruthOf(e.order, v) /\ (HasSeat(view[e.order]) => HasSeat(v))
    BY <1>1, <2>1, UpdateIsTrue DEF ReadersOK, ViewIsNeverAhead
  <2> HIDE DEF v
  <2>4. ReadersOK'
    BY <1>1, <2>1, <2>2, <2>3 DEF ReadersOK, ViewIsNeverAhead, TruthOf, cacheVars, orderVars
  <2> QED BY <1>1, <2>1, <2>2, <2>3, <2>4 DEF ReadersOK, ConsumersOK
<1> QED BY <1>2, <1>3

LEMMA HandleKeeps ==
  ASSUME QueryInv, NEW t \in Streams, Handle(t)
  PROVE  QueryInv' /\ \A o \in Orders : HasSeat(view[o]) => HasSeat(view'[o])
<1> DEFINE n == consumer[t].next + 1
           e == topic[t][n]
<1>1. EventsTypeOK /\ NewsIsTrue /\ ReadersOK /\ ConsumersOK /\ RebuildOK
  BY InvParts
<1>2. /\ n \in Nat /\ n <= Len(topic[t]) /\ n >= 1 /\ consumer[t].next \in Nat
      /\ consumer[t].next = n - 1
      /\ UNCHANGED <<orderVars, committed, rebuild, cacheVars>>
  BY <1>1 DEF Handle, ConsumersOK
<1>3. e \in Events /\ IsTrue(e)
  BY <1>1, <1>2, TypesOfEvents DEF NewsIsTrue
<1>4. PICK step \in {"fetch", "invalidate", "commit"} :
        consumer' = [consumer EXCEPT ![t].at = step, ![t].next = n]
  BY DEF Handle
<1>5. /\ Apply(e) \/ UNCHANGED viewVars
      /\ e \in consumed' \cup failed'
      /\ failed \subseteq failed' /\ failed' \subseteq failed \cup {e}
      /\ (\E kind : Fault(kind)) \/ UNCHANGED faults
  <2>1. CASE Apply(e) /\ UNCHANGED <<failed, faults>>
    BY <2>1 DEF Apply
  <2>2. CASE e \in consumed /\ UNCHANGED <<viewVars, failed, faults>>
    BY <2>2 DEF viewVars
  <2>3. CASE Fails("handle", e) /\ (Apply(e) \/ UNCHANGED viewVars)
    BY <2>3 DEF Fails
  <2> QED BY <2>1, <2>2, <2>3 DEF Handle
<1> HIDE DEF e, n
<1>6. /\ ReadersOK' /\ consumed \subseteq consumed' /\ consumed' \subseteq Events
      /\ \A o \in Orders : HasSeat(view[o]) => HasSeat(view'[o])
  BY <1>2, <1>3, <1>5, ApplyKeeps
<1>7. ConsumerMoves(t, n)
  <2>1. [consumer EXCEPT ![t].at = step, ![t].next = n]
          = [consumer EXCEPT ![t] = [at |-> step, next |-> n]]
    BY <1>2, ConsumerFields
  <2>2. consumer' = [consumer EXCEPT ![t] = [at |-> step, next |-> n]]
    BY <1>4, <2>1 DEF n
  <2> QED BY <2>2 DEF ConsumerMoves
<1>8. \A i \in 1 .. n : i <= consumer[t].next \/ topic[t][i] \in consumed' \cup failed'
  BY <1>2, <1>5 DEF e
<1>9. ConsumersOK'
  <2>1. committed' \in [Streams -> Nat] /\ consumer[t].next <= n /\ UNCHANGED <<orderVars, committed>>
    BY <1>1, <1>2 DEF ConsumersOK
  <2> QED BY <1>2, <1>5, <1>6, <1>7, <1>8, <2>1, MovesKeep
<1>10. EventsTypeOK' /\ NewsIsTrue'
  BY <1>1, <1>2, <1>3, <1>5, OrdersAlone DEF EventsTypeOK, NewsIsTrue, orderVars
<1>11. RebuildOK'
  BY <1>1, <1>2 DEF RebuildOK
<1> QED BY <1>6, <1>9, <1>10, <1>11, PartsNext

LEMMA CommitKeeps ==
  ASSUME QueryInv, NEW t \in Streams, Invalidate(t) \/ Commit(t)
  PROVE  QueryInv'
<1>1. EventsTypeOK /\ NewsIsTrue /\ ReadersOK /\ ConsumersOK /\ RebuildOK
  BY InvParts
<1> DEFINE n == consumer[t].next
<1>2. /\ n \in Nat /\ n <= Len(topic[t])
      /\ UNCHANGED <<orderVars, failed, viewVars, rebuild, reading>>
      /\ (\E kind : Fault(kind)) \/ UNCHANGED faults
  BY <1>1 DEF Invalidate, Commit, ConsumersOK, cacheVars
<1>3. /\ committed' \in {committed, [committed EXCEPT ![t] = n]}
      /\ UNCHANGED cache \/ cache' = [cache EXCEPT ![topic[t][n].order] = Nil]
      /\ \E step \in {"fetch", "invalidate", "commit"} : consumer' = [consumer EXCEPT ![t].at = step]
  BY DEF Invalidate, Commit, Goto, cacheVars
<1>4. ConsumerMoves(t, n)
  <2>1. PICK step \in {"fetch", "invalidate", "commit"} : consumer' = [consumer EXCEPT ![t].at = step]
    BY <1>3
  <2>2. [consumer EXCEPT ![t].at = step] = [consumer EXCEPT ![t] = [at |-> step, next |-> n]]
    BY <1>2, ConsumerFields
  <2>3. consumer' = [consumer EXCEPT ![t] = [at |-> step, next |-> n]]
    BY <2>1, <2>2
  <2> QED BY <2>3 DEF ConsumerMoves
<1> HIDE DEF n
<1>5. /\ committed' \in [Streams -> Nat]
      /\ \A u \in Streams : committed'[u] = committed[u] \/ (u = t /\ committed'[u] = n)
  BY <1>1, <1>2, <1>3 DEF ConsumersOK
<1>6. ConsumersOK'
  BY <1>1, <1>2, <1>4, <1>5, MovesKeep DEF ConsumersOK, viewVars, n
<1>7. ReadersOK'
  <2>1. /\ cache' \in [Orders -> Views \cup {Nil}]
        /\ \A o \in Orders : cache'[o] \in {cache[o], Nil}
    BY <1>1, <1>3 DEF ReadersOK
  <2> QED BY <1>1, <1>2, <2>1 DEF ReadersOK, ViewIsNeverAhead, TruthOf, viewVars, orderVars
<1>8. EventsTypeOK' /\ NewsIsTrue'
  BY <1>1, <1>2, OrdersAlone DEF EventsTypeOK, NewsIsTrue, orderVars
<1>9. RebuildOK'
  BY <1>1, <1>2 DEF RebuildOK
<1> QED BY <1>6, <1>7, <1>8, <1>9, PartsNext

-----------------------------------------------------------------------------
(* The theorems                                                            *)

LEMMA InitInv == QueryInit => QueryInv
<1> SUFFICES ASSUME QueryInit PROVE QueryInv
  OBVIOUS
<1>1. EventsTypeOK
  BY DEF QueryInit, EventsInit, EventsTypeOK, NoBatch, Statuses
<1>2. NewsIsTrue /\ RebuildOK
  BY DEF QueryInit, EventsInit, NewsIsTrue, RebuildOK
<1>3. ReadersOK
  BY DEF QueryInit, ReadersOK, ViewIsNeverAhead, TruthOf
<1>4. ConsumersOK
  <2>1. \A t \in Streams : topic[t] = <<>> /\ committed[t] = 0 /\ consumer[t] = [at |-> "fetch", next |-> 0]
    BY DEF QueryInit, EventsInit, FromCommitted
  <2> QED BY <2>1 DEF QueryInit, FromCommitted, ConsumersOK, PassedIsConsumed
<1> QED BY <1>1, <1>2, <1>3, <1>4, InvParts

LEMMA NextKeepsInv == QueryInv /\ [QueryNext]_queryVars => QueryInv'
<1> SUFFICES ASSUME QueryInv, [QueryNext]_queryVars PROVE QueryInv'
  OBVIOUS
<1>1. CASE QueryNext
  BY <1>1, EventsKeep, RestartKeeps, CopyKeeps, HandleKeeps, CommitKeeps, ReadersKeep DEF QueryNext
<1>2. CASE UNCHANGED queryVars
  <2>1. EventsTypeOK' /\ NewsIsTrue'
    BY <1>2 DEF QueryInv, QueryTypeOK, EventsTypeOK, NewsIsTrue, IsTrue, queryVars, eventVars, orderVars
  <2>2. ReadersOK' /\ ConsumersOK' /\ RebuildOK'
    BY <1>2, InvParts DEF ReadersOK, ConsumersOK, RebuildOK, ViewIsNeverAhead, TruthOf,
       PassedIsConsumed, queryVars, eventVars, orderVars, viewVars, cacheVars
  <2> QED BY <2>1, <2>2, PartsNext
<1> QED BY <1>1, <1>2

(***************************************************************************)
(* The inductive invariant, for all sets of orders, any bounds and faults. *)
(***************************************************************************)
THEOREM QueryInvariant == QuerySpec => []QueryInv
<1> QED BY InitInv, NextKeepsInv, PTL DEF QuerySpec

(***************************************************************************)
(* Orders, outbox, topics and the state of the query service have their    *)
(* types, and no offset is beyond the next or the last message.            *)
(***************************************************************************)
THEOREM QueryTypes == QuerySpec => []QueryTypeOK
<1> QED BY QueryInvariant, PTL DEF QueryInv

(***************************************************************************)
(* Neither view nor cache nor a reader is ever ahead of the order, whatever*)
(* is repeated, lost, expired or copied anew (handleOrderEvent,            *)
(* RebuildFromOrders, GetOrderView).                                       *)
(***************************************************************************)
THEOREM ViewsAreTrue == QuerySpec => []ViewIsNeverAhead
<1> QED BY QueryInvariant, PTL DEF QueryInv

(***************************************************************************)
(* A consumer group's offset passes over no message but those that were    *)
(* consumed or whose handling failed (consumeOnce).                        *)
(***************************************************************************)
THEOREM CommitsAreConsumed == QuerySpec => []CommittedIsConsumed
<1>1. QueryInv => CommittedIsConsumed
  <2> SUFFICES ASSUME QueryInv, NEW t \in Streams, NEW i \in 1 .. committed[t]
               PROVE  topic[t][i] \in consumed \cup failed
    BY DEF CommittedIsConsumed
  <2>1. committed[t] \in Nat /\ consumer[t].next \in Nat /\ committed[t] <= consumer[t].next
    BY InvParts DEF ConsumersOK
  <2> QED BY <2>1 DEF QueryInv, PassedIsConsumed
<1> QED BY <1>1, QueryInvariant, PTL

(***************************************************************************)
(* No event, repetition or restart takes the seat of an order out of its   *)
(* row: the updates of the read model keep seat_no.                        *)
(***************************************************************************)
THEOREM SeatsStayKnown == QuerySpec => SeatStaysKnown
<1>1. QueryInv /\ [QueryNext]_queryVars =>
        [\A o \in Orders : HasSeat(view[o]) => HasSeat(view'[o])]_queryVars
  <2> SUFFICES ASSUME QueryInv, QueryNext, NEW o \in Orders, HasSeat(view[o])
               PROVE  HasSeat(view'[o])
    OBVIOUS
  <2>1. CASE \E row \in rebuild : CopyOrder(row)
    <3>1. PICK row \in rebuild : CopyOrder(row)
      BY <2>1
    <3>2. view \in [Orders -> Views \cup {Nil}] /\ row \in [order : Orders, status : Statuses]
      BY InvParts DEF ReadersOK, RebuildOK
    <3> DEFINE v == [status |-> row.status, seat |-> HasSeat(view[row.order])]
    <3>3. view' = [view EXCEPT ![row.order] = v]
      BY <3>1 DEF CopyOrder
    <3>4. HasSeat(view[row.order]) => HasSeat(v)
      <4>1. HasSeat(view[row.order]) \in BOOLEAN
        BY <3>2 DEF HasSeat, Views
      <4>2. v \in Views /\ v.seat = HasSeat(view[row.order])
        BY <3>2, <4>1 DEF Views
      <4> HIDE DEF v
      <4> QED BY <4>2, NilIsNoView DEF HasSeat
    <3> HIDE DEF v
    <3> QED BY <3>2, <3>3, <3>4
  <2>2. CASE \E t \in Streams : Handle(t)
    BY <2>2, HandleKeeps
  <2>3. CASE UNCHANGED view
    BY <2>3
  <2> QED BY <2>1, <2>2, <2>3
    DEF QueryNext, RestartQuery, Invalidate, Commit, ReadView, SetOrderView, CacheExpires, viewVars
<1> QED BY <1>1, QueryInvariant, PTL DEF QuerySpec, SeatStaysKnown

-----------------------------------------------------------------------------
(* What is left when all has been handled.  Along the way of an order's     *)
(* news, from the outbox to the view, nothing is passed over: rows are sent *)
(* in their order, messages are handled in theirs, so that the last news a  *)
(* view has taken is the latest of all it has taken.  Of an order that met  *)
(* no failure, that is.                                                     *)

Ev(id) == outbox[id].event

Log == topic["order.events"]

Sent == {Log[p] : p \in DOMAIN Log}

\* The orders one of whose events failed on the way.
Troubled == {e.order : e \in failed}

\* The news is no news to an order that has this status.
Tells(e, s) == \A st \in Steps : st.event = e.type => st.to \in Past(s)

Later(i, j) == i < j /\ Ev(i).order = Ev(j).order

RowsInOrder ==
  \A i, j \in DOMAIN outbox : Later(i, j) =>
    /\ Ev(i) # Ev(j)
    /\ \A s \in Steps : s.event = Ev(j).type => Tells(Ev(i), s.to)

StatusIsTold ==
  \A o \in Orders : status[o] # "none" =>
    \E id \in DOMAIN outbox :
      /\ Ev(id).order = o
      /\ \E s \in Steps :
           /\ s.event = Ev(id).type
           /\ s.to = IF status[o] = "TICKETED" THEN "PAID" ELSE status[o]

TopicsFromRows ==
  /\ \A id \in DOMAIN outbox : Ev(id).type # "TicketIssued"
  /\ \A e \in Sent : \E id \in DOMAIN outbox : e = Ev(id)
  /\ \A p \in DOMAIN topic["ticket.events"] : topic["ticket.events"][p].type = "TicketIssued"

SentInOrder ==
  \A i, j \in DOMAIN outbox : Later(i, j) /\ Ev(i).order \notin Troubled =>
    \A p \in DOMAIN Log : Log[p] = Ev(j) => \E q \in DOMAIN Log : q < p /\ Log[q] = Ev(i)

\* The loop of the publisher.
PublishedIsSent == \A id \in DOMAIN outbox : outbox[id].published => Ev(id) \in Sent

BatchInOrder ==
  \A j \in sender.batch, i \in DOMAIN outbox \ sender.batch :
    i < j /\ Ev(i).order \notin Troubled => Ev(i) \in Sent

MarkIsSent == sender.at = "mark" => \A id \in sender.batch : IsCurrent(id) => Ev(id) \in Sent

OutboxOK == RowsInOrder /\ StatusIsTold /\ TopicsFromRows /\ SentInOrder

SenderOK == PublishedIsSent /\ BatchInOrder /\ MarkIsSent

\* The consumers and the copies of a start.
ConsumedFromRows ==
  \A e \in consumed : e.type = "TicketIssued" \/ \E id \in DOMAIN outbox : e = Ev(id)

ConsumedInOrder ==
  \A i, j \in DOMAIN outbox :
    Later(i, j) /\ Ev(i).order \notin Troubled /\ Ev(j) \in consumed => Ev(i) \in consumed

ViewTells ==
  \A e \in consumed : e.type # "TicketIssued" /\ e.order \notin Troubled =>
    view[e.order] # Nil /\ Tells(e, view[e.order].status)

CopiesTell ==
  \A row \in rebuild, e \in consumed :
    e.type # "TicketIssued" /\ e.order = row.order => Tells(e, row.status)

SeatsOfTickets == \A e \in consumed : e.type = "TicketIssued" => HasSeat(view[e.order])

ViewOK ==
  ConsumedFromRows /\ ConsumedInOrder /\ ViewTells /\ CopiesTell /\ SeatsOfTickets

SettleInv == OutboxOK /\ SenderOK /\ ViewOK

LEMMA StepsLeadOn ==
  /\ \A s \in Steps : s.to \notin Past(s.from) /\ s.to \in Past(s.to) /\ s.event # "TicketIssued"
                      /\ s.from # "TICKETED" /\ s.to \notin {"none", "TICKETED"}
  /\ \A s, s2 \in Steps : s.event = s2.event => s.to = s2.to
<1>1. \A s \in Steps : s.to \notin Past(s.from) /\ s.to \in Past(s.to) /\ s.event # "TicketIssued"
                      /\ s.from # "TICKETED" /\ s.to \notin {"none", "TICKETED"}
  BY StepCases DEF Past
<1>2. \A s, s2 \in Steps : s.event = s2.event => s.to = s2.to
  BY StepCases
<1> QED BY <1>1, <1>2

\* Of an outbox in order, an event is the one of one row only.
LEMMA RowsDiffer ==
  ASSUME EventsTypeOK, RowsInOrder, NEW i \in DOMAIN outbox, NEW j \in DOMAIN outbox,
         Ev(i) = Ev(j)
  PROVE  i = j
<1>1. i \in Nat /\ j \in Nat
  BY TypesOfEvents
<1> QED BY <1>1 DEF RowsInOrder, Later

\* The rows stay, whatever is marked or added.
RowsStay ==
  /\ DOMAIN outbox \subseteq DOMAIN outbox'
  /\ \A id \in DOMAIN outbox : outbox'[id].event = outbox[id].event

-----------------------------------------------------------------------------
(* The outbox and its publisher                                            *)

\* An order has moved on, and a row tells of it.
LEMMA AdvanceInOrder ==
  ASSUME QueryInv, OutboxOK, SenderOK, NEW o \in Orders, AdvanceOrder(o)
  PROVE  OutboxOK' /\ SenderOK' /\ RowsStay /\ UNCHANGED <<topic, failed>>
<1>1. PICK s \in Steps :
        /\ status[o] = s.from
        /\ status' = [status EXCEPT ![o] = s.to]
        /\ outbox' = Append(outbox, [event |-> Event(s.event, o), published |-> FALSE])
        /\ UNCHANGED <<sender, topic, failed, faults>>
  BY DEF AdvanceOrder
<1> DEFINE e == Event(s.event, o)
           row == [event |-> e, published |-> FALSE]
<1>0. PICK n : n = Len(outbox)
  OBVIOUS
<1>2. EventsTypeOK /\ NewsIsTrue /\ status \in [Orders -> Statuses]
  BY DEF QueryInv, QueryTypeOK, EventsTypeOK
<1>3. e \in Events /\ e.type = s.event /\ e.order = o /\ e.type # "TicketIssued"
  BY StepCases DEF Event, Events
<1>4. row \in Rows /\ row.event = e /\ ~row.published
  BY <1>3 DEF Rows
<1>5. status'[o] = s.to /\ \A x \in Orders \ {o} : status'[x] = status[x]
  BY <1>1, <1>2
<1>6. n \in Nat /\ DOMAIN outbox = 1 .. n /\ outbox \in Seq(Rows)
  BY <1>2, <1>0, TypesOfEvents
<1> HIDE DEF e, row
<1>7. /\ DOMAIN outbox' = 1 .. n + 1 /\ outbox'[n + 1] = row
      /\ \A i \in 1 .. n : outbox'[i] = outbox[i]
  <2>1. outbox' = Append(outbox, row)
    BY <1>1 DEF row, e
  <2> QED BY <1>4, <1>6, <1>0, <2>1, AppendProperties
<1>8. /\ RowsStay /\ Ev(n + 1)' = e /\ \A i \in 1 .. n : Ev(i)' = Ev(i)
      /\ n + 1 \in DOMAIN outbox' /\ 1 .. n \subseteq DOMAIN outbox'
  BY <1>4, <1>6, <1>7 DEF RowsStay, Ev
<1>9. Sent' = Sent /\ Log' = Log /\ Troubled' = Troubled /\ sender' = sender
      /\ topic' = topic /\ failed' = failed
  BY <1>1 DEF Sent, Log, Troubled
<1>10. RowsInOrder'
  <2> SUFFICES ASSUME NEW i \in DOMAIN outbox', NEW j \in DOMAIN outbox', Later(i, j)'
               PROVE  /\ Ev(i)' # Ev(j)'
                      /\ \A s2 \in Steps : s2.event = Ev(j)'.type => Tells(Ev(i)', s2.to)
    BY DEF RowsInOrder, Tells
  <2>1. i \in 1 .. n /\ i < j /\ Ev(i)' = Ev(i) /\ Ev(i).order = Ev(j)'.order
    BY <1>6, <1>7, <1>8 DEF Later
  <2>2. CASE j \in 1 .. n
    BY <1>6, <1>8, <2>1, <2>2 DEF OutboxOK, RowsInOrder, Later
  <2>3. CASE j = n + 1
    <3>1. Ev(j)' = e /\ Ev(i).order = o
      BY <1>3, <1>8, <2>1, <2>3
    <3>2. IsTrue(Ev(i)) /\ Ev(i).type # "TicketIssued"
      BY <1>2, <1>6, <2>1 DEF NewsIsTrue, Ev, OutboxOK, TopicsFromRows
    <3>3. Tells(Ev(i), s.from)
      BY <1>1, <3>1, <3>2 DEF IsTrue, Tells
    <3>4. Ev(i) # e
      BY <1>3, <3>3, StepsLeadOn DEF Tells
    <3>5. \A s2 \in Steps : s2.event = e.type => Tells(Ev(i), s2.to)
      BY <1>3, <3>3, StepsLeadOn, PastGrows DEF Tells
    <3> QED BY <2>1, <3>1, <3>4, <3>5
  <2> QED BY <1>6, <1>7, <2>2, <2>3
<1>11. StatusIsTold'
  <2> SUFFICES ASSUME NEW x \in Orders, status'[x] # "none"
               PROVE  \E id \in DOMAIN outbox' :
                        /\ Ev(id)'.order = x
                        /\ \E s2 \in Steps :
                             /\ s2.event = Ev(id)'.type
                             /\ s2.to = IF status'[x] = "TICKETED" THEN "PAID" ELSE status'[x]
    BY DEF StatusIsTold
  <2>1. CASE x = o
    <3>1. s.event = Ev(n + 1)'.type /\ Ev(n + 1)'.order = x
          /\ s.to = IF status'[x] = "TICKETED" THEN "PAID" ELSE status'[x]
      BY <1>3, <1>5, <1>8, <2>1, StepsLeadOn
    <3> QED BY <1>8, <3>1
  <2>2. CASE x # o
    <3>1. status'[x] = status[x]
      BY <1>5, <2>2
    <3>2. PICK id \in DOMAIN outbox :
            /\ Ev(id).order = x
            /\ \E s2 \in Steps :
                 /\ s2.event = Ev(id).type
                 /\ s2.to = IF status[x] = "TICKETED" THEN "PAID" ELSE status[x]
      BY <3>1 DEF OutboxOK, StatusIsTold
    <3>3. id \in DOMAIN outbox' /\ Ev(id)' = Ev(id)
      BY <1>6, <1>8, <3>2
    <3> QED BY <3>1, <3>2, <3>3
  <2> QED BY <2>1, <2>2
<1>12. TopicsFromRows'
  <2>1. \A id \in DOMAIN outbox' : Ev(id)'.type # "TicketIssued"
    <3> SUFFICES ASSUME NEW id \in DOMAIN outbox' PROVE Ev(id)'.type # "TicketIssued"
      OBVIOUS
    <3>1. (id \in DOMAIN outbox /\ Ev(id)' = Ev(id)) \/ Ev(id)' = e
      BY <1>6, <1>7, <1>8
    <3> QED BY <1>3, <3>1 DEF OutboxOK, TopicsFromRows
  <2>2. \A x \in Sent' : \E id \in DOMAIN outbox' : x = Ev(id)'
    <3> SUFFICES ASSUME NEW x \in Sent PROVE \E id \in DOMAIN outbox' : x = Ev(id)'
      BY <1>9
    <3>1. PICK id \in DOMAIN outbox : x = Ev(id)
      BY DEF OutboxOK, TopicsFromRows
    <3> QED BY <1>6, <1>8, <3>1
  <2> QED BY <1>9, <2>1, <2>2 DEF OutboxOK, TopicsFromRows
<1>13. SentInOrder'
  <2> SUFFICES ASSUME NEW i \in DOMAIN outbox', NEW j \in DOMAIN outbox', Later(i, j)',
                      Ev(i)'.order \notin Troubled, NEW p \in DOMAIN Log, Log[p] = Ev(j)'
               PROVE  \E q \in DOMAIN Log : q < p /\ Log[q] = Ev(i)'
    BY <1>9 DEF SentInOrder
  <2>1. PICK k \in DOMAIN outbox : Ev(j)' = Ev(k)
    BY DEF OutboxOK, TopicsFromRows, Sent
  <2>2. k \in DOMAIN outbox' /\ Ev(k)' = Ev(j)'
    BY <1>6, <1>8, <2>1
  <2>3. k = j
    BY <1>6, <1>7, <1>10, <2>2 DEF RowsInOrder, Later
  <2>4. i \in DOMAIN outbox /\ j \in DOMAIN outbox /\ Later(i, j) /\ Ev(i)' = Ev(i)
    <3>1. i < j /\ Ev(i)'.order = Ev(j)'.order
      BY DEF Later
    <3>2. i \in 1 .. n /\ j \in 1 .. n
      BY <1>6, <1>7, <2>1, <2>3, <3>1
    <3> QED BY <1>6, <1>8, <3>1, <3>2 DEF Later
  <2> QED BY <1>8, <1>6, <2>4 DEF OutboxOK, SentInOrder
<1>14. PublishedIsSent'
  <2> SUFFICES ASSUME NEW id \in DOMAIN outbox', outbox'[id].published PROVE Ev(id)' \in Sent
    BY <1>9 DEF PublishedIsSent
  <2>1. id \in 1 .. n /\ outbox'[id] = outbox[id]
    BY <1>4, <1>6, <1>7
  <2> QED BY <1>6, <1>8, <2>1 DEF SenderOK, PublishedIsSent
<1>15. sender.batch \subseteq 1 .. n
  BY <1>2, <1>6 DEF EventsTypeOK
<1>16. BatchInOrder'
  <2> SUFFICES ASSUME NEW j \in sender.batch, NEW i \in DOMAIN outbox', i \notin sender.batch,
                      i < j, Ev(i)'.order \notin Troubled
               PROVE  Ev(i)' \in Sent
    BY <1>9 DEF BatchInOrder
  <2>1. i \in 1 .. n /\ j \in 1 .. n
    BY <1>6, <1>7, <1>15
  <2> QED BY <1>6, <1>8, <2>1 DEF SenderOK, BatchInOrder
<1>17. MarkIsSent'
  <2>1. \A id \in sender.batch : IsCurrent(id)' <=> IsCurrent(id)
    BY <1>9 DEF IsCurrent
  <2>2. \A id \in sender.batch : Ev(id)' = Ev(id)
    BY <1>8, <1>15
  <2> QED BY <1>9, <2>1, <2>2 DEF SenderOK, MarkIsSent
<1> QED BY <1>1, <1>8, <1>10, <1>11, <1>12, <1>13, <1>14, <1>16, <1>17 DEF OutboxOK, SenderOK

\* Steps that add no row.
SameRows == RowsStay /\ DOMAIN outbox' = DOMAIN outbox

LEMMA RowsAlone ==
  ASSUME OutboxOK, SameRows
  PROVE  /\ RowsInOrder'
         /\ \A i \in DOMAIN outbox : Ev(i)' = Ev(i)
         /\ UNCHANGED status => StatusIsTold'
<1>1. \A i \in DOMAIN outbox : Ev(i)' = Ev(i)
  BY DEF SameRows, RowsStay, Ev
<1>2. DOMAIN outbox' = DOMAIN outbox
  BY DEF SameRows
<1>3. \A i, j \in DOMAIN outbox : Later(i, j)' <=> Later(i, j)
  BY <1>1 DEF Later
<1>4. RowsInOrder'
  BY <1>1, <1>2, <1>3 DEF OutboxOK, RowsInOrder, Tells
<1>5. ASSUME UNCHANGED status PROVE StatusIsTold'
  BY <1>1, <1>2, <1>5 DEF OutboxOK, StatusIsTold
<1> QED BY <1>1, <1>4, <1>5

\* Steps that leave order.events alone.
LEMMA LogAlone ==
  ASSUME OutboxOK, SameRows, Log' = Log, Troubled \subseteq Troubled',
         \A p \in DOMAIN topic'["ticket.events"] : topic'["ticket.events"][p].type = "TicketIssued"
  PROVE  TopicsFromRows' /\ SentInOrder' /\ Sent' = Sent
<1>1. DOMAIN outbox' = DOMAIN outbox /\ \A i \in DOMAIN outbox : Ev(i)' = Ev(i)
  BY RowsAlone DEF SameRows
<1>2. \A i, j \in DOMAIN outbox : Later(i, j)' <=> Later(i, j)
  BY <1>1 DEF Later
<1>3. Sent' = Sent
  BY DEF Sent
<1>4. TopicsFromRows'
  BY <1>1, <1>3 DEF OutboxOK, TopicsFromRows
<1>5. SentInOrder'
  BY <1>1, <1>2 DEF OutboxOK, SentInOrder
<1> QED BY <1>3, <1>4, <1>5

\* The row the batch has come to is sent: all rows before it were.
LEMMA LogAppends ==
  ASSUME EventsTypeOK, OutboxOK, SenderOK, SameRows, Troubled \subseteq Troubled',
         NEW id \in DOMAIN outbox, IsCurrent(id), ToTopic(Ev(id))
  PROVE  TopicsFromRows' /\ SentInOrder' /\ Sent' = Sent \cup {Ev(id)}
<1>1. DOMAIN outbox' = DOMAIN outbox /\ \A i \in DOMAIN outbox : Ev(i)' = Ev(i)
  BY RowsAlone DEF SameRows
<1>2. \A i, j \in DOMAIN outbox : Later(i, j)' <=> Later(i, j)
  BY <1>1 DEF Later
<1>3. PICK e : e = Ev(id)
  OBVIOUS
<1>4. PICK n : n = Len(Log)
  OBVIOUS
<1>5. /\ e \in Events /\ Log \in Seq(Events) /\ n \in Nat /\ DOMAIN Log = 1 .. n
      /\ topic \in [Streams -> Seq(Events)] /\ DOMAIN outbox \subseteq Nat
  BY <1>3, <1>4, TypesOfEvents DEF EventsTypeOK, Ev, Log, Streams
<1>6. Log' = Append(Log, e) /\ topic'["ticket.events"] = topic["ticket.events"]
  BY <1>3, <1>5 DEF ToTopic, Log, Streams
<1>7. /\ DOMAIN Log' = 1 .. n + 1 /\ Log'[n + 1] = e
      /\ \A p \in 1 .. n : Log'[p] = Log[p]
  BY <1>4, <1>5, <1>6, AppendProperties
<1>8. Sent' = Sent \cup {e}
  <2>1. \A p \in DOMAIN Log' : Log'[p] \in Sent \cup {e}
    BY <1>5, <1>7 DEF Sent
  <2>2. e \in Sent'
    BY <1>5, <1>7 DEF Sent
  <2>3. \A x \in Sent : x \in Sent'
    BY <1>5, <1>7 DEF Sent
  <2>4. \A x \in Sent' : x \in Sent \cup {e}
    BY <2>1 DEF Sent
  <2> QED BY <2>2, <2>3, <2>4
<1>9. TopicsFromRows'
  BY <1>1, <1>3, <1>6, <1>8 DEF OutboxOK, TopicsFromRows
<1>10. SentInOrder'
  <2> SUFFICES ASSUME NEW i \in DOMAIN outbox, NEW j \in DOMAIN outbox, Later(i, j),
                      Ev(i).order \notin Troubled, NEW p \in 1 .. n + 1, Log'[p] = Ev(j)
               PROVE  \E q \in 1 .. n + 1 : q < p /\ Log'[q] = Ev(i)
    BY <1>1, <1>2, <1>7 DEF SentInOrder
  <2>1. CASE p \in 1 .. n
    <3>1. PICK q \in 1 .. n : q < p /\ Log[q] = Ev(i)
      BY <1>5, <1>7, <2>1 DEF OutboxOK, SentInOrder
    <3> QED BY <1>5, <1>7, <3>1
  <2>2. CASE p = n + 1
    <3>1. j = id
      BY <1>3, <1>7, <2>2, RowsDiffer DEF OutboxOK
    <3>2. i < id /\ i \notin sender.batch /\ id \in sender.batch
      <4>1. i < j /\ i \in Nat /\ id \in Nat
        BY <1>5 DEF Later
      <4> QED BY <3>1, <4>1 DEF IsCurrent
    <3>3. Ev(i) \in Sent
      BY <3>2 DEF SenderOK, BatchInOrder
    <3>4. PICK q \in 1 .. n : Log[q] = Ev(i)
      BY <1>5, <3>3 DEF Sent
    <3> QED BY <1>5, <1>7, <2>2, <3>4
  <2> QED BY <1>5, <2>1, <2>2
<1> QED BY <1>3, <1>8, <1>9, <1>10

\* What the ticket worker does, and a restart of the publisher or a new batch.
LEMMA OthersInOrder ==
  ASSUME QueryInv, OutboxOK, SenderOK,
         \/ \E o \in Orders : TicketOrder(o) \/ AnnounceTicket(o)
         \/ ListPending \/ RestartOrderService
  PROVE  OutboxOK' /\ SenderOK' /\ SameRows /\ UNCHANGED failed
<1>1. EventsTypeOK
  BY DEF QueryInv, QueryTypeOK
<1>2. UNCHANGED <<outbox, failed>> /\ SameRows
  BY DEF TicketOrder, AnnounceTicket, ListPending, RestartOrderService, SameRows, RowsStay
<1>3. Log' = Log /\ Troubled' = Troubled
  <2>1. CASE \E o \in Orders : AnnounceTicket(o)
    BY <1>1, <1>2, <2>1 DEF AnnounceTicket, EventsTypeOK, Streams, Log, Troubled
  <2>2. CASE UNCHANGED topic
    BY <1>2, <2>2 DEF Log, Troubled
  <2> QED BY <2>1, <2>2 DEF TicketOrder, ListPending, RestartOrderService
<1>4. \A p \in DOMAIN topic'["ticket.events"] : topic'["ticket.events"][p].type = "TicketIssued"
  <2>1. CASE \E o \in Orders : AnnounceTicket(o)
    <3>1. PICK o \in Orders : AnnounceTicket(o)
      BY <2>1
    <3>2. PICK e : e = Event("TicketIssued", o)
      OBVIOUS
    <3>3. e \in Events /\ e.type = "TicketIssued" /\ "ticket.events" \in Streams
      BY <3>2 DEF Event, Events, Streams
    <3>4. topic' = [topic EXCEPT !["ticket.events"] = Append(@, e)]
      BY <3>1, <3>2 DEF AnnounceTicket
    <3>5. \A i \in DOMAIN topic'["ticket.events"] :
            (i \in DOMAIN topic["ticket.events"]
              /\ topic'["ticket.events"][i] = topic["ticket.events"][i])
            \/ topic'["ticket.events"][i] = e
      BY <1>1, <3>3, <3>4, AppendToTopic
    <3> QED BY <3>3, <3>5 DEF OutboxOK, TopicsFromRows
  <2>2. CASE UNCHANGED topic
    BY <2>2 DEF OutboxOK, TopicsFromRows
  <2> QED BY <2>1, <2>2 DEF TicketOrder, ListPending, RestartOrderService
<1>5. RowsInOrder' /\ TopicsFromRows' /\ SentInOrder' /\ Sent' = Sent
      /\ \A i \in DOMAIN outbox : Ev(i)' = Ev(i)
  BY <1>2, <1>3, <1>4, RowsAlone, LogAlone
<1>6. StatusIsTold'
  <2>1. CASE UNCHANGED status
    BY <1>2, <2>1, RowsAlone
  <2>2. CASE \E o \in Orders : TicketOrder(o)
    <3>1. PICK o \in Orders : status[o] = "PAID" /\ status' = [status EXCEPT ![o] = "TICKETED"]
      BY <2>2 DEF TicketOrder
    <3>2. \A x \in Orders :
            /\ status'[x] # "none" => status[x] # "none"
            /\ (IF status'[x] = "TICKETED" THEN "PAID" ELSE status'[x])
                 = (IF status[x] = "TICKETED" THEN "PAID" ELSE status[x])
      BY <1>1, <3>1 DEF EventsTypeOK
    <3> QED BY <1>2, <1>5, <3>2 DEF OutboxOK, StatusIsTold
  <2> QED BY <2>1, <2>2 DEF AnnounceTicket, ListPending, RestartOrderService
<1>7. PublishedIsSent'
  BY <1>2, <1>5 DEF SenderOK, PublishedIsSent
<1>8. BatchInOrder' /\ MarkIsSent'
  <2>1. CASE UNCHANGED sender
    <3>1. \A id \in sender.batch : IsCurrent(id)' <=> IsCurrent(id)
      BY <2>1 DEF IsCurrent
    <3>2. sender.batch \subseteq DOMAIN outbox
      BY <1>1 DEF EventsTypeOK
    <3> QED BY <1>2, <1>3, <1>5, <2>1, <3>1, <3>2 DEF SenderOK, BatchInOrder, MarkIsSent
  <2>2. CASE RestartOrderService
    BY <2>2 DEF RestartOrderService, NoBatch, BatchInOrder, MarkIsSent
  <2>3. CASE ListPending
    <3>1. /\ sender'.batch = {id \in DOMAIN outbox : ~outbox[id].published}
          /\ sender'.at = "publish"
      BY <2>3 DEF ListPending, NoBatch
    <3>2. \A i \in DOMAIN outbox \ sender'.batch : Ev(i) \in Sent
      BY <3>1 DEF SenderOK, PublishedIsSent
    <3>3. BatchInOrder'
      BY <1>2, <1>3, <1>5, <3>2 DEF BatchInOrder
    <3> QED BY <3>1, <3>3 DEF MarkIsSent
  <2> QED BY <2>1, <2>2, <2>3 DEF TicketOrder, AnnounceTicket
<1> QED BY <1>2, <1>5, <1>6, <1>7, <1>8 DEF OutboxOK, SenderOK

\* A row is sent, or not, and marked, or not.
LEMMA SenderInOrder ==
  ASSUME QueryInv, OutboxOK, SenderOK, NEW id \in DOMAIN outbox,
         Publish(id) \/ PublishFails(id) \/ MarkPublished(id)
  PROVE  OutboxOK' /\ SenderOK' /\ SameRows /\ failed \subseteq failed'
<1>1. EventsTypeOK
  BY DEF QueryInv, QueryTypeOK
<1>2. outbox \in Seq(Rows) /\ DOMAIN outbox \subseteq Nat /\ sender.batch \subseteq DOMAIN outbox
  BY <1>1, TypesOfEvents DEF EventsTypeOK
<1>3. IsCurrent(id) /\ id \in sender.batch /\ UNCHANGED status
  BY DEF Publish, PublishFails, MarkPublished, IsCurrent
<1>4. failed \subseteq failed' /\ Troubled \subseteq Troubled'
  BY DEF Publish, PublishFails, MarkPublished, Fails, Troubled
<1>5. /\ SameRows
      /\ \A i \in DOMAIN outbox :
           outbox'[i].published => outbox[i].published \/ (MarkPublished(id) /\ i = id)
  <2>1. CASE UNCHANGED outbox
    BY <2>1 DEF SameRows, RowsStay
  <2>2. CASE MarkPublished(id) /\ outbox' = [outbox EXCEPT ![id].published = TRUE]
    <3>1. outbox' = [outbox EXCEPT ![id] = [outbox[id] EXCEPT !.published = TRUE]]
      BY <2>2
    <3>2. [outbox[id] EXCEPT !.published = TRUE].event = outbox[id].event
      <4>1. outbox[id] \in Rows
        BY <1>2
      <4> QED BY <4>1 DEF Rows
    <3>3. DOMAIN outbox' = DOMAIN outbox /\ \A i \in DOMAIN outbox \ {id} : outbox'[i] = outbox[i]
      BY <3>1
    <3>4. outbox'[id].event = outbox[id].event
      BY <3>1, <3>2
    <3> QED BY <2>2, <3>3, <3>4 DEF SameRows, RowsStay
  <2> QED BY <2>1, <2>2 DEF Publish, PublishFails, MarkPublished
<1>6. RowsInOrder' /\ StatusIsTold' /\ \A i \in DOMAIN outbox : Ev(i)' = Ev(i)
  BY <1>3, <1>5, RowsAlone
<1>7. TopicsFromRows' /\ SentInOrder' /\ Sent \subseteq Sent' /\ (Publish(id) => Ev(id) \in Sent')
  <2>1. CASE UNCHANGED topic /\ ~Publish(id)
    <3>1. Log' = Log
            /\ \A p \in DOMAIN topic'["ticket.events"] :
                 topic'["ticket.events"][p].type = "TicketIssued"
      BY <2>1 DEF Log, OutboxOK, TopicsFromRows
    <3> QED BY <1>4, <1>5, <2>1, <3>1, LogAlone
  <2>2. CASE ToTopic(Ev(id))
    BY <1>1, <1>3, <1>4, <1>5, <2>2, LogAppends
  <2> QED BY <2>1, <2>2 DEF Publish, PublishFails, MarkPublished, Ev
<1>8. DOMAIN outbox' = DOMAIN outbox
  BY <1>5 DEF SameRows
<1>9. MarkPublished(id) => Ev(id) \in Sent
  BY <1>3 DEF MarkPublished, SenderOK, MarkIsSent
<1>10. PublishedIsSent'
  BY <1>5, <1>6, <1>7, <1>8, <1>9 DEF SenderOK, PublishedIsSent
<1>11. MarkIsSent'
  <2>1. CASE Publish(id)
    <3>1. sender'.batch = sender.batch
      BY <1>1, <2>1 DEF Publish, EventsTypeOK
    <3>2. \A x \in sender'.batch : IsCurrent(x)' => x = id
      BY <1>2, <1>3, <3>1 DEF IsCurrent
    <3> QED BY <1>6, <1>7, <2>1, <3>2 DEF MarkIsSent
  <2>2. CASE ~Publish(id)
    BY <2>2 DEF PublishFails, MarkPublished, GoOn, MarkIsSent
  <2> QED BY <2>1, <2>2
<1>12. BatchInOrder'
  <2> SUFFICES ASSUME NEW j \in sender'.batch, NEW i \in DOMAIN outbox, i \notin sender'.batch,
                      i < j, Ev(i).order \notin Troubled'
               PROVE  Ev(i) \in Sent'
    BY <1>6, <1>8 DEF BatchInOrder
  <2>1. j \in sender.batch /\ (i \notin sender.batch \/ (i = id /\ ~Publish(id)))
    <3>1. CASE Publish(id)
      BY <1>1, <3>1 DEF Publish, EventsTypeOK
    <3>2. CASE ~Publish(id)
      BY <3>2 DEF PublishFails, MarkPublished, GoOn
    <3> QED BY <3>1, <3>2
  <2>2. CASE i \notin sender.batch
    BY <1>4, <1>7, <2>1, <2>2 DEF SenderOK, BatchInOrder
  <2>3. CASE i = id /\ MarkPublished(id)
    BY <1>7, <1>9, <2>3
  <2>4. CASE i = id /\ PublishFails(id)
    BY <2>4 DEF PublishFails, Fails, Troubled, Ev
  <2> QED BY <2>1, <2>2, <2>3, <2>4
<1> QED BY <1>4, <1>5, <1>6, <1>7, <1>10, <1>11, <1>12 DEF OutboxOK, SenderOK

\* The query service leaves the outbox and its publisher alone.
LEMMA OutboxAlone ==
  ASSUME OutboxOK, SenderOK, UNCHANGED orderVars, failed \subseteq failed'
  PROVE  OutboxOK' /\ SenderOK' /\ SameRows
<1>1. /\ SameRows /\ Log' = Log /\ Troubled \subseteq Troubled'
      /\ UNCHANGED <<status, outbox, sender, topic>>
  BY DEF orderVars, SameRows, RowsStay, Log, Troubled
<1>2. \A p \in DOMAIN topic'["ticket.events"] : topic'["ticket.events"][p].type = "TicketIssued"
  BY <1>1 DEF OutboxOK, TopicsFromRows
<1>3. /\ RowsInOrder' /\ TopicsFromRows' /\ SentInOrder' /\ Sent' = Sent /\ StatusIsTold'
      /\ \A i \in DOMAIN outbox : Ev(i)' = Ev(i)
  BY <1>1, <1>2, RowsAlone, LogAlone
<1>4. PublishedIsSent'
  BY <1>1, <1>3 DEF SenderOK, PublishedIsSent
<1>5. BatchInOrder'
  BY <1>1, <1>3 DEF SenderOK, BatchInOrder
<1>6. MarkIsSent'
  BY <1>1 DEF SenderOK, MarkIsSent, IsCurrent, Sent, Log, Ev
<1> QED BY <1>1, <1>3, <1>4, <1>5, <1>6 DEF OutboxOK, SenderOK

LEMMA EventsInOrder ==
  ASSUME QueryInv, OutboxOK, SenderOK, EventsNext
  PROVE  OutboxOK' /\ SenderOK' /\ RowsStay /\ failed \subseteq failed'
<1>1. CASE \E o \in Orders : AdvanceOrder(o)
  BY <1>1, AdvanceInOrder
<1>2. CASE \/ \E o \in Orders : TicketOrder(o) \/ AnnounceTicket(o)
           \/ ListPending \/ RestartOrderService
  BY <1>2, OthersInOrder DEF SameRows
<1>3. CASE \E id \in DOMAIN outbox : Publish(id) \/ PublishFails(id) \/ MarkPublished(id)
  BY <1>3, SenderInOrder DEF SameRows
<1> QED BY <1>1, <1>2, <1>3 DEF EventsNext

-----------------------------------------------------------------------------
(* The view                                                                *)

\* A step that consumes nothing, and only copies or plans to copy what tells of
\* all that was consumed.
LEMMA ViewAlone ==
  ASSUME EventsTypeOK, EventsTypeOK', ViewOK, OutboxOK', RowsStay, failed \subseteq failed',
         UNCHANGED consumed, ViewTells', CopiesTell', SeatsOfTickets'
  PROVE  ViewOK'
<1>1. Troubled \subseteq Troubled'
  BY DEF Troubled
<1>2. /\ DOMAIN outbox \subseteq DOMAIN outbox'
      /\ \A i \in DOMAIN outbox : Ev(i)' = Ev(i)
  BY DEF RowsStay, Ev
<1>3. ConsumedFromRows'
  BY <1>2 DEF ViewOK, ConsumedFromRows
<1>4. ConsumedInOrder'
  <2> SUFFICES ASSUME NEW i \in DOMAIN outbox', NEW j \in DOMAIN outbox', Later(i, j)',
                      Ev(i)'.order \notin Troubled', Ev(j)' \in consumed
               PROVE  Ev(i)' \in consumed
    BY DEF ConsumedInOrder
  <2>1. Ev(j)'.type # "TicketIssued"
    BY DEF OutboxOK, TopicsFromRows
  <2>2. PICK k \in DOMAIN outbox : Ev(j)' = Ev(k)
    BY <2>1 DEF ViewOK, ConsumedFromRows
  <2>3. /\ DOMAIN outbox = 1 .. Len(outbox) /\ Len(outbox) \in Nat
        /\ DOMAIN outbox' \subseteq Nat \ {0}
    <3>1. DOMAIN outbox = 1 .. Len(outbox) /\ Len(outbox) \in Nat
      BY TypesOfEvents
    <3>2. outbox' \in Seq(Rows)
      BY DEF EventsTypeOK, Rows
    <3> QED BY <3>1, <3>2
  <2>4. k = j
    <3>1. k \in DOMAIN outbox' /\ Ev(k)' = Ev(j)'
      BY <1>2, <2>2
    <3> QED BY <2>3, <3>1 DEF OutboxOK, RowsInOrder, Later
  <2>5. i < j /\ Ev(i)'.order = Ev(j)'.order
    BY DEF Later
  <2>6. i \in DOMAIN outbox
    BY <2>2, <2>3, <2>4, <2>5
  <2>7. Ev(i)' = Ev(i) /\ Ev(j)' = Ev(j) /\ j \in DOMAIN outbox
    BY <1>2, <2>2, <2>4, <2>6
  <2>8. Later(i, j)
    BY <2>5, <2>7 DEF Later
  <2> QED BY <1>1, <2>6, <2>7, <2>8 DEF ViewOK, ConsumedInOrder
<1> QED BY <1>3, <1>4 DEF ViewOK

\* As long as the view stays, an order in trouble is one less to tell of.
LEMMA ViewTellsStill ==
  ASSUME ViewOK, failed \subseteq failed', UNCHANGED <<consumed, view>>
  PROVE  ViewTells' /\ SeatsOfTickets' /\ (UNCHANGED rebuild => CopiesTell')
<1>1. Troubled \subseteq Troubled'
  BY DEF Troubled
<1>2. ViewTells'
  BY <1>1 DEF ViewOK, ViewTells, Tells
<1>3. SeatsOfTickets'
  BY DEF ViewOK, SeatsOfTickets
<1>4. UNCHANGED rebuild => CopiesTell'
  BY DEF ViewOK, CopiesTell, Tells
<1> QED BY <1>2, <1>3, <1>4

\* What was consumed has happened.
LEMMA ConsumedIsTrue ==
  ASSUME QueryInv, OutboxOK, ViewOK, NEW e \in consumed, e.type # "TicketIssued"
  PROVE  Tells(e, status[e.order])
<1>1. PICK id \in DOMAIN outbox : e = Ev(id)
  BY DEF ViewOK, ConsumedFromRows
<1>2. IsTrue(e)
  BY <1>1 DEF QueryInv, NewsIsTrue, Ev
<1> QED BY <1>2 DEF IsTrue, Tells

\* A start plans to copy what tells of all that was consumed.
LEMMA RestartTells ==
  ASSUME QueryInv, OutboxOK, SenderOK, ViewOK, RestartQuery
  PROVE  OutboxOK' /\ SenderOK' /\ ViewOK'
<1>1. UNCHANGED <<orderVars, failed, view, consumed>>
  BY DEF RestartQuery, viewVars
<1>2. OutboxOK' /\ SenderOK' /\ SameRows
  BY <1>1, OutboxAlone
<1>3. ViewTells' /\ SeatsOfTickets'
  BY <1>1, ViewTellsStill
<1>4. CopiesTell'
  <2> SUFFICES ASSUME NEW row \in rebuild', NEW e \in consumed, e.type # "TicketIssued",
                      e.order = row.order
               PROVE  Tells(e, row.status)
    BY <1>1 DEF CopiesTell, Tells
  <2>1. row.status = status[row.order]
    BY DEF RestartQuery
  <2> QED BY <2>1, ConsumedIsTrue
<1>5. EventsTypeOK /\ EventsTypeOK'
  BY RestartKeeps DEF QueryInv, QueryTypeOK
<1> QED BY <1>1, <1>2, <1>3, <1>4, <1>5, ViewAlone DEF SameRows

\* A row that is copied keeps the seat and tells of all that was consumed.
LEMMA CopyTells ==
  ASSUME QueryInv, OutboxOK, SenderOK, ViewOK, NEW row \in rebuild, CopyOrder(row)
  PROVE  /\ OutboxOK' /\ SenderOK' /\ ViewOK'
         /\ \A o \in Orders : HasSeat(view[o]) => HasSeat(view'[o])
<1>1. UNCHANGED <<orderVars, failed, consumed>> /\ rebuild' = rebuild \ {row}
  BY DEF CopyOrder, eventVars
<1>2. OutboxOK' /\ SenderOK' /\ SameRows /\ Troubled' = Troubled
  BY <1>1, OutboxAlone DEF Troubled
<1>3. view \in [Orders -> Views \cup {Nil}] /\ row \in [order : Orders, status : Statuses]
  BY InvParts DEF ReadersOK, RebuildOK
<1> DEFINE v == [status |-> row.status, seat |-> HasSeat(view[row.order])]
<1>4. view' = [view EXCEPT ![row.order] = v]
  BY DEF CopyOrder
<1>5. v # Nil /\ v.status = row.status /\ (HasSeat(v) <=> HasSeat(view[row.order]))
  <2>1. HasSeat(view[row.order]) \in BOOLEAN
    BY <1>3 DEF HasSeat, Views
  <2>2. v \in Views /\ v.seat = HasSeat(view[row.order]) /\ v.status = row.status
    BY <1>3, <2>1 DEF Views
  <2> HIDE DEF v
  <2> QED BY <2>2, NilIsNoView DEF HasSeat
<1> HIDE DEF v
<1>6. view'[row.order] = v /\ \A o \in Orders \ {row.order} : view'[o] = view[o]
  BY <1>3, <1>4
<1>7. \A o \in Orders : HasSeat(view[o]) => HasSeat(view'[o])
  BY <1>5, <1>6
<1>8. consumed \subseteq Events
  BY InvParts DEF ConsumersOK
<1>9. ViewTells'
  <2> SUFFICES ASSUME NEW e \in consumed, e.type # "TicketIssued", e.order \notin Troubled
               PROVE  view'[e.order] # Nil /\ Tells(e, view'[e.order].status)
    BY <1>1, <1>2 DEF ViewTells, Tells
  <2>1. e.order \in Orders
    BY <1>8 DEF Events
  <2>2. CASE e.order = row.order
    BY <1>5, <1>6, <2>2 DEF ViewOK, CopiesTell
  <2>3. CASE e.order # row.order
    BY <1>6, <2>1, <2>3 DEF ViewOK, ViewTells
  <2> QED BY <2>2, <2>3
<1>10. CopiesTell'
  BY <1>1 DEF ViewOK, CopiesTell, Tells
<1>11. SeatsOfTickets'
  <2>1. \A e \in consumed : e.order \in Orders
    BY <1>8 DEF Events
  <2> QED BY <1>1, <1>7, <2>1 DEF ViewOK, SeatsOfTickets
<1>12. EventsTypeOK /\ EventsTypeOK'
  BY CopyKeeps DEF QueryInv, QueryTypeOK
<1> QED BY <1>1, <1>2, <1>7, <1>9, <1>10, <1>11, <1>12, ViewAlone DEF SameRows

\* What an event makes of a row tells of the event.
LEMMA UpdateTells ==
  ASSUME NEW e \in Events, NEW v
  PROVE  /\ e.type = "TicketIssued" =>
              Updated(v, e).status = "TICKETED" /\ Updated(v, e).seat
         /\ e.type # "TicketIssued" =>
              \E s \in Steps : s.event = e.type /\ Updated(v, e).status = s.to
<1>1. CASE e.type = "TicketIssued"
  BY <1>1 DEF Updated
<1>2. CASE e.type # "TicketIssued"
  <2> DEFINE s == CHOOSE x \in Steps : x.event = e.type
  <2>1. \E x \in Steps : x.event = e.type
    BY <1>2 DEF Events
  <2>2. s \in Steps /\ s.event = e.type
    BY <2>1
  <2>3. Updated(v, e).status = s.to
    BY <1>2 DEF Updated
  <2> HIDE DEF s
  <2> QED BY <1>2, <2>2, <2>3
<1> QED BY <1>1, <1>2

\* A message that is handled is the next in the order of its order's rows: all
\* before it were consumed, none after it was.
LEMMA HandleTells ==
  ASSUME QueryInv, OutboxOK, SenderOK, ViewOK, NEW t \in Streams, Handle(t)
  PROVE  OutboxOK' /\ SenderOK' /\ ViewOK'
<1>1. PICK n : n = consumer[t].next + 1
  OBVIOUS
<1>2. PICK e : e = topic[t][n]
  OBVIOUS
<1>3. EventsTypeOK /\ NewsIsTrue /\ ReadersOK /\ ConsumersOK
  BY InvParts
<1>4. /\ n \in 1 .. Len(topic[t]) /\ n - 1 = consumer[t].next /\ rebuild = {}
      /\ UNCHANGED <<orderVars, rebuild>>
      /\ Len(topic[t]) \in Nat /\ DOMAIN topic[t] = 1 .. Len(topic[t])
  BY <1>1, <1>3, TypesOfEvents DEF Handle, Started, ConsumersOK
<1>5. e \in Events /\ IsTrue(e) /\ consumed \subseteq Events
  BY <1>2, <1>3, <1>4, TypesOfEvents DEF NewsIsTrue, ConsumersOK
<1>6. /\ Apply(e) \/ UNCHANGED viewVars
      /\ failed \subseteq failed'
  BY <1>1, <1>2 DEF Handle, Fails
<1>7. OutboxOK' /\ SenderOK' /\ SameRows /\ Troubled \subseteq Troubled'
  BY <1>4, <1>6, OutboxAlone DEF Troubled
<1>8. CASE UNCHANGED viewVars
  <2>1. ViewTells' /\ SeatsOfTickets' /\ CopiesTell'
    BY <1>4, <1>6, <1>8, ViewTellsStill DEF viewVars
  <2>2. EventsTypeOK'
    BY HandleKeeps DEF QueryInv, QueryTypeOK
  <2> QED BY <1>3, <1>6, <1>7, <1>8, <2>1, <2>2, ViewAlone DEF SameRows, viewVars
<1>9. CASE Apply(e)
  <2>1. e \notin consumed /\ consumed' = consumed \cup {e} /\ e.order \in Orders
    BY <1>5, <1>9 DEF Apply, Events
  <2>2. PICK v : v = Updated(view[e.order], e)
    OBVIOUS
  <2>3. view'[e.order] = v /\ \A o \in Orders \ {e.order} : view'[o] = view[o]
    BY <1>3, <1>9, <2>1, <2>2 DEF Apply, ReadersOK
  <2>4. v \in Views /\ v # Nil
    BY <1>3, <1>5, <2>1, <2>2, UpdateIsTrue, NilIsNoView DEF ReadersOK, ViewIsNeverAhead
  <2>5. DOMAIN outbox' = DOMAIN outbox /\ \A i \in DOMAIN outbox : Ev(i)' = Ev(i)
    BY <1>7, RowsAlone DEF SameRows
  <2>6. \A i, j \in DOMAIN outbox : Later(i, j)' <=> Later(i, j)
    BY <2>5 DEF Later
  <2>7. e.type # "TicketIssued" =>
          /\ \E id \in DOMAIN outbox : e = Ev(id)
          /\ t = "order.events"
    <3>1. CASE t = "ticket.events"
      BY <1>2, <1>4, <3>1 DEF OutboxOK, TopicsFromRows
    <3>2. CASE t = "order.events"
      BY <1>2, <1>4, <3>2 DEF OutboxOK, TopicsFromRows, Sent, Log
    <3> QED BY <3>1, <3>2 DEF Streams
  <2>8. ConsumedFromRows'
    BY <2>1, <2>5, <2>7 DEF ViewOK, ConsumedFromRows
  <2>9. ConsumedInOrder'
    <3> SUFFICES ASSUME NEW i \in DOMAIN outbox, NEW j \in DOMAIN outbox, Later(i, j),
                        Ev(i).order \notin Troubled', Ev(j) \in consumed'
                 PROVE  Ev(i) \in consumed'
      BY <2>5, <2>6 DEF ConsumedInOrder
    <3>1. CASE Ev(j) \in consumed
      BY <1>7, <2>1, <3>1 DEF ViewOK, ConsumedInOrder
    <3>2. CASE Ev(j) = e
      <4>1. t = "order.events"
        BY <2>7, <3>2 DEF OutboxOK, TopicsFromRows
      <4>2. PICK q \in DOMAIN Log : q < n /\ Log[q] = Ev(i)
        BY <1>2, <1>4, <1>7, <3>2, <4>1 DEF OutboxOK, SentInOrder, Log
      <4>3. q \in 1 .. consumer[t].next
        BY <1>4, <4>1, <4>2 DEF Log
      <4>4. Ev(i) \in consumed \cup failed
        BY <1>3, <4>1, <4>2, <4>3 DEF ConsumersOK, PassedIsConsumed, Log
      <4> QED BY <1>7, <2>1, <4>4 DEF Troubled
    <3> QED BY <2>1, <3>1, <3>2
  <2>10. ViewTells'
    <3> SUFFICES ASSUME NEW x \in consumed', x.type # "TicketIssued", x.order \notin Troubled'
                 PROVE  view'[x.order] # Nil /\ Tells(x, view'[x.order].status)
      BY DEF ViewTells, Tells
    <3>1. CASE x.order # e.order
      <4>1. x \in consumed /\ x.order \in Orders
        BY <1>5, <2>1, <3>1 DEF Events
      <4> QED BY <1>7, <2>3, <3>1, <4>1 DEF ViewOK, ViewTells
    <3>2. CASE x.order = e.order /\ e.type = "TicketIssued"
      <4>1. x \in consumed
        BY <2>1, <3>2
      <4>2. Tells(x, "TICKETED")
        BY <1>5, <3>2, <4>1, ConsumedIsTrue DEF IsTrue
      <4> QED BY <1>5, <2>2, <2>3, <2>4, <3>2, <4>2, UpdateTells
    <3>3. CASE x.order = e.order /\ e.type # "TicketIssued"
      <4>1. PICK s \in Steps : s.event = e.type /\ v.status = s.to
        BY <1>5, <2>2, <3>3, UpdateTells
      <4>2. CASE x = e
        BY <2>3, <2>4, <4>1, <4>2, StepsLeadOn DEF Tells
      <4>3. CASE x \in consumed
        <5>1. PICK k \in DOMAIN outbox : e = Ev(k)
          BY <2>7, <3>3
        <5>2. PICK m \in DOMAIN outbox : x = Ev(m)
          BY <4>3 DEF ViewOK, ConsumedFromRows
        <5>3. m # k /\ ~Later(k, m)
          BY <1>7, <2>1, <3>3, <4>3, <5>1, <5>2 DEF ViewOK, ConsumedInOrder
        <5>4. Later(m, k)
          <6>1. m \in Nat /\ k \in Nat
            BY <1>3, TypesOfEvents
          <6> QED BY <3>3, <5>1, <5>2, <5>3, <6>1 DEF Later
        <5>5. Tells(x, s.to)
          BY <4>1, <5>1, <5>2, <5>4 DEF OutboxOK, RowsInOrder
        <5> QED BY <2>3, <2>4, <3>3, <4>1, <5>5
      <4> QED BY <2>1, <4>2, <4>3
    <3> QED BY <3>1, <3>2, <3>3
  <2>11. CopiesTell'
    BY <1>4 DEF CopiesTell
  <2>12. SeatsOfTickets'
    <3> SUFFICES ASSUME NEW x \in consumed', x.type = "TicketIssued"
                 PROVE  HasSeat(view'[x.order])
      BY DEF SeatsOfTickets
    <3>1. CASE x = e
      BY <1>5, <2>2, <2>3, <2>4, <3>1, UpdateTells DEF HasSeat
    <3>2. CASE x \in consumed
      <4>1. x.order \in Orders
        BY <1>5, <3>2 DEF Events
      <4> QED BY <3>2, <4>1, HandleKeeps DEF ViewOK, SeatsOfTickets
    <3> QED BY <2>1, <3>1, <3>2
  <2> QED BY <1>7, <2>8, <2>9, <2>10, <2>11, <2>12 DEF ViewOK
<1> QED BY <1>6, <1>7, <1>8, <1>9

LEMMA SettleNext ==
  ASSUME QueryInv, SettleInv, [QueryNext]_queryVars
  PROVE  SettleInv'
<1>1. EventsTypeOK /\ EventsTypeOK'
  BY NextKeepsInv DEF QueryInv, QueryTypeOK
<1>2. CASE EventsNext /\ UNCHANGED <<viewVars, committed, consumer, rebuild, cacheVars>>
  <2>1. OutboxOK' /\ SenderOK' /\ RowsStay /\ failed \subseteq failed'
    BY <1>2, EventsInOrder DEF SettleInv
  <2>2. UNCHANGED <<consumed, view, rebuild>>
    BY <1>2 DEF viewVars
  <2>3. ViewTells' /\ SeatsOfTickets' /\ CopiesTell'
    BY <2>1, <2>2, ViewTellsStill DEF SettleInv
  <2> QED BY <1>1, <2>1, <2>2, <2>3, ViewAlone DEF SettleInv
<1>3. CASE RestartQuery
  BY <1>3, RestartTells DEF SettleInv
<1>4. CASE \E row \in rebuild : CopyOrder(row)
  BY <1>4, CopyTells DEF SettleInv
<1>5. CASE \E t \in Streams : Handle(t)
  BY <1>5, HandleTells DEF SettleInv
<1>6. CASE UNCHANGED <<orderVars, failed, viewVars, rebuild>>
  <2>1. OutboxOK' /\ SenderOK' /\ SameRows
    BY <1>6, OutboxAlone DEF SettleInv
  <2>2. UNCHANGED <<consumed, view>>
    BY <1>6 DEF viewVars
  <2>3. ViewTells' /\ SeatsOfTickets' /\ CopiesTell'
    BY <1>6, <2>2, ViewTellsStill DEF SettleInv
  <2> QED BY <1>1, <1>6, <2>1, <2>2, <2>3, ViewAlone DEF SettleInv, SameRows
<1>7. \/ \E t \in Streams : Invalidate(t) \/ Commit(t)
      \/ \E o \in Orders : ReadView(o) \/ SetOrderView(o) \/ CacheExpires(o)
      \/ UNCHANGED queryVars
      => UNCHANGED <<orderVars, failed, viewVars, rebuild>>
  BY DEF Invalidate, Commit, ReadView, SetOrderView, CacheExpires, eventVars, queryVars
<1> QED BY <1>2, <1>3, <1>4, <1>5, <1>6, <1>7 DEF QueryNext

LEMMA SettleInit == QueryInit => SettleInv
<1> SUFFICES ASSUME QueryInit PROVE SettleInv
  OBVIOUS
<1>1. /\ outbox = <<>> /\ Log = <<>> /\ topic["ticket.events"] = <<>> /\ sender = NoBatch
      /\ consumed = {} /\ rebuild = {} /\ status = [o \in Orders |-> "none"]
  BY DEF QueryInit, EventsInit, Log, Streams
<1>2. DOMAIN outbox = {} /\ DOMAIN Log = {} /\ DOMAIN topic["ticket.events"] = {} /\ Sent = {}
  BY <1>1 DEF Sent
<1>3. OutboxOK
  BY <1>1, <1>2 DEF OutboxOK, RowsInOrder, StatusIsTold, TopicsFromRows, SentInOrder
<1>4. SenderOK
  BY <1>1, <1>2 DEF SenderOK, PublishedIsSent, BatchInOrder, MarkIsSent, NoBatch
<1>5. ViewOK
  BY <1>1, <1>2 DEF ViewOK, ConsumedFromRows, ConsumedInOrder, ViewTells, CopiesTell, SeatsOfTickets
<1> QED BY <1>3, <1>4, <1>5 DEF SettleInv

\* When the news is all consumed, the view has the status that the last of it told.
LEMMA LastNewsShows ==
  ASSUME QueryInv, SettleInv, NEW o \in Orders, Settled(o), status[o] # "none"
  PROVE  /\ view[o] # Nil
         /\ view[o].status = status[o] \/ (status[o] = "TICKETED" /\ view[o].status = "PAID")
<1>1. EventsTypeOK /\ ReadersOK /\ ConsumersOK /\ status[o] \in Statuses
  BY InvParts DEF EventsTypeOK
<1>2. PICK id \in DOMAIN outbox, s \in Steps :
        /\ Ev(id).order = o /\ s.event = Ev(id).type
        /\ s.to = IF status[o] = "TICKETED" THEN "PAID" ELSE status[o]
  BY DEF SettleInv, OutboxOK, StatusIsTold
<1>3. o \notin Troubled
  BY DEF Settled, Troubled
<1>4. Ev(id) \in Sent
  <2>1. id \in 1 .. Len(outbox)
    BY <1>1, <1>2, TypesOfEvents
  <2> QED BY <1>2, <2>1 DEF Settled, SettleInv, SenderOK, PublishedIsSent, Ev
<1>5. Ev(id) \in consumed
  <2>1. PICK p \in DOMAIN Log : Log[p] = Ev(id)
    BY <1>4 DEF Sent
  <2>2. p \in 1 .. consumer["order.events"].next
    BY <1>1, TypesOfEvents DEF Settled, Streams, Log
  <2>3. Ev(id) \in consumed \cup failed
    BY <1>1, <2>1, <2>2 DEF ConsumersOK, PassedIsConsumed, Streams, Log
  <2> QED BY <1>2, <1>3, <2>3 DEF Troubled
<1>6. view[o] # Nil /\ s.to \in Past(view[o].status)
  <2>1. Ev(id).type # "TicketIssued"
    BY <1>2, StepsLeadOn
  <2>2. view[o] # Nil /\ Tells(Ev(id), view[o].status)
    BY <1>2, <1>3, <1>5, <2>1 DEF SettleInv, ViewOK, ViewTells
  <2> QED BY <1>2, <2>2 DEF Tells
<1>7. view[o].status \in Past(status[o])
  BY <1>1, <1>6 DEF ReadersOK, ViewIsNeverAhead, TruthOf
<1>8. \A x \in Statuses : \A y \in Past(x) :
        (IF x = "TICKETED" THEN "PAID" ELSE x) \in Past(y) =>
          y = x \/ (x = "TICKETED" /\ y = "PAID")
  BY DEF Past, Statuses
<1> QED BY <1>1, <1>2, <1>6, <1>7, <1>8

(***************************************************************************)
(* Once all that happened is published and handled, a view shows the status*)
(* of its order, and the seat if there is one: repeated messages, marks and*)
(* commits that were lost, restarts of either service and copies of the    *)
(* orders table leave no view behind for good (consumeOnce, handleOrder-   *)
(* Event, RebuildColdStart, StartOutboxPublisher).                         *)
(***************************************************************************)
THEOREM ViewsSettle == QuerySpec => []ViewSettles
<1>1. QueryInv /\ SettleInv => ViewSettles
  <2> SUFFICES ASSUME QueryInv, SettleInv, NEW o \in Orders, Settled(o), status[o] # "none"
               PROVE  /\ view[o] # Nil
                      /\ \/ view[o].status = status[o]
                         \/ status[o] = "TICKETED" /\ view[o].status = "PAID"
                      /\ view[o].seat <=> status[o] = "TICKETED"
    BY DEF ViewSettles
  <2>1. /\ view[o] # Nil
        /\ view[o].status = status[o] \/ (status[o] = "TICKETED" /\ view[o].status = "PAID")
    BY LastNewsShows
  <2>2. ASSUME status[o] = "TICKETED" PROVE HasSeat(view[o])
    <3> DEFINE e == Event("TicketIssued", o)
    <3>1. e.type = "TicketIssued" /\ e.order = o
      BY DEF Event
    <3>2. PICK i \in 1 .. Len(topic["ticket.events"]) : topic["ticket.events"][i] = e
      BY <2>2 DEF Settled, InTopic
    <3> HIDE DEF e
    <3>3. e \in consumed \cup failed
      BY <3>2 DEF Settled, QueryInv, PassedIsConsumed, Streams
    <3>4. e \in consumed
      BY <3>1, <3>3 DEF Settled
    <3> QED BY <3>1, <3>4 DEF SettleInv, ViewOK, SeatsOfTickets
  <2>3. view[o].seat => status[o] = "TICKETED"
    BY <2>1 DEF QueryInv, ViewIsNeverAhead, TruthOf
  <2> QED BY <2>1, <2>2, <2>3 DEF HasSeat
<1>2. QueryInv /\ SettleInv /\ [QueryNext]_queryVars => SettleInv'
  BY SettleNext
<1> QED BY <1>1, <1>2, SettleInit, QueryInvariant, PTL DEF QuerySpec

=============================================================================
