------------------------- MODULE TicketWorkerProofs --------------------------
(***************************************************************************)
(* That the ticket worker gives an order at most one ticket and no seat    *)
(* twice, for all sets of orders and workers, all trips, every number of   *)
(* seats and segments, and any number of messages and of lives of the      *)
(* allocator.                                                              *)
(*                                                                         *)
(* The invariant follows a seat from the allocator into a worker's hand    *)
(* and on to a ticket.  What is in hand or on a ticket of this life is     *)
(* marked in the allocator (Marked), so a seat that fits is new to all of  *)
(* them (Apart), and the step from hand to ticket only moves it.           *)
(***************************************************************************)
EXTENDS TicketWorker, TLAPS

\* What a worker has in hand fits the place its work has come to.
InHand ==
  \A w \in Workers :
    /\ work[w].at # "read" => work[w].order \in Orders
    /\ work[w].at \in {"check", "insert"} => work[w].seat # Nil
    /\ work[w].at = "insert" => status[work[w].order] \in {"PAID", "TICKETED"}

\* A place is of this life, and then taken in the allocator, or of an earlier one.
Marked(p) ==
  /\ p.life <= life
  /\ p.life = life => BuildMask(p.trip) \subseteq occupied[p.seat]

AllMarked ==
  /\ \A w \in Workers : work[w].seat # Nil => Marked(work[w].seat)
  /\ \A o \in Orders : ticket[o] # Nil => Marked(ticket[o])

HandsApart ==
  \A w, w2 \in Workers :
    (w # w2 /\ work[w].seat # Nil /\ work[w2].seat # Nil)
      => ~Clash(work[w].seat, work[w2].seat)

HandsApartFromTickets ==
  \A w \in Workers, o \in Orders :
    (work[w].seat # Nil /\ ticket[o] # Nil) => ~Clash(work[w].seat, ticket[o])

Apart == HandsApart /\ HandsApartFromTickets /\ SeatsAreExclusive

SafeTickets == WorkerTypeOK /\ InHand /\ TicketsMatchOrders /\ AllMarked /\ Apart

USE WorkerAssumption, AllocatorAssumption

-----------------------------------------------------------------------------
(* Helpers                                                                 *)

\* A place on a train is a seat, a trip and a life, ...
LEMMA PlacesAreTyped == Places \subseteq [seat: Int, trip: [from: Nat, to: Nat], life: Nat]
<1> SUFFICES ASSUME NEW p \in Places
             PROVE  p \in [seat: Int, trip: [from: Nat, to: Nat], life: Nat]
  OBVIOUS
<1>1. p.trip \in [from: Nat, to: Nat]
  BY DEF Places, WorkerAssumption
<1>2. p.seat \in Int /\ p.life \in Nat
  BY DEF Places, WorkerAssumption, AllocatorAssumption, AllSeats
<1> QED BY <1>1, <1>2 DEF Places

\* ... so that no place is mistaken for none.
LEMMA NilIsNoPlace == Nil \notin Places /\ Nil \notin Orders
BY PlacesAreTyped DEF WorkerAssumption

\* A clash is mutual.
LEMMA ClashIsMutual ==
  ASSUME NEW p, NEW q, Clash(p, q)
  PROVE  Clash(q, p)
BY DEF Clash

\* A trip that is allocated takes segments that exist.
LEMMA MaskIsTyped ==
  ASSUME NEW w \in Workers, IsTrip(Trip[w])
  PROVE  BuildMask(Trip[w]) \subseteq 0..(SegmentCount - 1)
<1>1. Trip[w].from \in Nat /\ Trip[w].to \in Nat
  BY DEF WorkerAssumption
<1> QED BY <1>1 DEF IsTrip, BuildMask, AllocatorAssumption

\* What one allocation does to the allocator.
LEMMA AllocateTakes ==
  ASSUME WorkerTypeOK, NEW w \in Workers, NEW s \in AllSeats, Allocate(Trip[w], s)
  PROVE  /\ occupied' \in [AllSeats -> SUBSET (0..(SegmentCount - 1))]
         /\ \A t \in AllSeats : occupied[t] \subseteq occupied'[t]
         /\ BuildMask(Trip[w]) \subseteq occupied'[s]
         /\ occupied[s] \cap BuildMask(Trip[w]) = {}
<1>1. BuildMask(Trip[w]) \subseteq 0..(SegmentCount - 1)
  BY MaskIsTyped DEF Allocate
<1>2. occupied \in [AllSeats -> SUBSET (0..(SegmentCount - 1))]
  BY DEF WorkerTypeOK
<1>3. occupied' = [occupied EXCEPT ![s] = @ \cup BuildMask(Trip[w])]
  BY DEF Allocate
<1>4. occupied[s] \cap BuildMask(Trip[w]) = {}
  BY DEF Allocate, Compatible
<1> QED BY <1>1, <1>2, <1>3, <1>4

\* A step that takes no seat in hand and issues no ticket keeps seats apart.
LEMMA NothingNew ==
  ASSUME AllMarked, Apart, WorkerTypeOK,
         ticket' = ticket, life' = life,
         \A s \in AllSeats : occupied[s] \subseteq occupied'[s],
         \A w \in Workers : work'[w].seat \in {work[w].seat, Nil}
  PROVE  AllMarked' /\ Apart'
<1>1. AllMarked'
  <2>1. ASSUME NEW p \in Places, Marked(p)
        PROVE  Marked(p)'
    <3>1. p.seat \in AllSeats
      BY DEF Places
    <3> QED BY <2>1, <3>1 DEF Marked
  <2>2. ASSUME NEW w \in Workers, work'[w].seat # Nil
        PROVE  Marked(work[w].seat)' /\ work'[w].seat = work[w].seat
    <3>1. work'[w].seat = work[w].seat
      BY <2>2
    <3>2. work[w].seat \in Places
      BY <3>1, <2>2 DEF WorkerTypeOK
    <3>3. Marked(work[w].seat)
      BY <3>1, <2>2 DEF AllMarked
    <3>4. (life' = life) /\ work[w].seat.seat \in AllSeats
      BY <3>2 DEF Places
    <3> QED BY <3>1, <3>3, <3>4 DEF Marked
  <2>3. ASSUME NEW o \in Orders, ticket'[o] # Nil
        PROVE  Marked(ticket[o])'
    <3>1. ticket[o] \in Places
      BY <2>3 DEF WorkerTypeOK
    <3>2. Marked(ticket[o])
      BY <2>3 DEF AllMarked
    <3>3. ticket[o].seat \in AllSeats
      BY <3>1 DEF Places
    <3> QED BY <3>2, <3>3 DEF Marked
  <2> QED BY <2>2, <2>3 DEF AllMarked, Marked
<1>2. HandsApart'
  BY DEF Apart, HandsApart, Clash
<1>3. HandsApartFromTickets'
  BY DEF Apart, HandsApartFromTickets, Clash
<1>4. SeatsAreExclusive'
  BY DEF Apart, SeatsAreExclusive, Clash
<1> QED BY <1>1, <1>2, <1>3, <1>4 DEF Apart

-----------------------------------------------------------------------------
(* The steps that touch seats or tickets, one lemma each                   *)

\* A worker ends or goes on with its message and no order changes.
LEMMA QuietStep ==
  ASSUME SafeTickets, UNCHANGED <<ticket, outbox, status>>, WorkerTypeOK', InHand',
         life' = life,
         \A s \in AllSeats : occupied[s] \subseteq occupied'[s],
         \A w \in Workers : work'[w].seat \in {work[w].seat, Nil}
  PROVE  SafeTickets'
<1>1. TicketsMatchOrders'
  BY DEF SafeTickets, TicketsMatchOrders
<1> QED BY <1>1, NothingNew DEF SafeTickets

\* A message that is read puts an order in hand, and no seat yet.
LEMMA ReadMessageSafe ==
  ASSUME SafeTickets, NEW w \in Workers, ReadMessage(w)
  PROVE  SafeTickets'
<1> DEFINE msg == topic[next + 1]
<1> USE DEF ReadMessage
<1>1. msg \in [type: {"OrderReserved", "OrderPaid"}, order: Orders]
  <2>1. next + 1 \in 1..Len(topic)
    BY DEF SafeTickets, WorkerTypeOK
  <2> DEFINE Message == [type: {"OrderReserved", "OrderPaid"}, order: Orders]
  <2>2. topic \in Seq(Message)
    BY DEF SafeTickets, WorkerTypeOK
  <2> HIDE DEF Message
  <2>3. topic[next + 1] \in Message
    BY <2>1, <2>2
  <2> QED BY <2>3 DEF Message
<1>2. \/ work' = work
      \/ work' = [work EXCEPT ![w] = [at |-> "allocate", order |-> msg.order, seat |-> Nil]]
  OBVIOUS
<1>3. WorkerTypeOK'
  <2>1. next' \in 0..Len(topic') /\ committed' \in 0..next'
    BY DEF SafeTickets, WorkerTypeOK, seatVars, dbVars
  <2>2. work' \in [Workers -> [at: {"read", "allocate", "check", "insert"},
                           order: Orders \cup {Nil}, seat: Places \cup {Nil}]]
    BY <1>1, <1>2 DEF SafeTickets, WorkerTypeOK
  <2> QED BY <2>1, <2>2 DEF SafeTickets, WorkerTypeOK, seatVars, dbVars
<1>4. InHand'
  BY <1>1, <1>2 DEF SafeTickets, WorkerTypeOK, InHand, dbVars
<1>5. \A v \in Workers : work'[v].seat \in {work[v].seat, Nil}
  BY <1>2 DEF SafeTickets, WorkerTypeOK
<1> QED BY <1>3, <1>4, <1>5, QuietStep DEF seatVars, dbVars

\* A seat is taken and comes into the hand of the worker.
LEMMA SeatTaken ==
  ASSUME SafeTickets, NEW w \in Workers, NEW s \in AllSeats, work[w].at = "allocate",
         Allocate(Trip[w], s),
         work' = [work EXCEPT ![w].at = "check",
                              ![w].seat = [seat |-> s, trip |-> Trip[w], life |-> life]],
         UNCHANGED <<groupVars, life, dbVars>>
  PROVE  SafeTickets'
<1> DEFINE place == [seat |-> s, trip |-> Trip[w], life |-> life]
<1>1. place \in Places /\ place # Nil
  <2>1. place \in Places
    BY DEF SafeTickets, WorkerTypeOK, Places
  <2> QED BY <2>1, NilIsNoPlace
<1>2. /\ occupied' \in [AllSeats -> SUBSET (0..(SegmentCount - 1))]
      /\ \A t \in AllSeats : occupied[t] \subseteq occupied'[t]
      /\ BuildMask(Trip[w]) \subseteq occupied'[s]
      /\ occupied[s] \cap BuildMask(Trip[w]) = {}
  BY AllocateTakes DEF SafeTickets
<1>3. work'[w].seat = place /\ \A v \in Workers : v # w => work'[v] = work[v]
  BY DEF SafeTickets, WorkerTypeOK
<1>4. WorkerTypeOK'
  <2>1. work' \in [Workers -> [at: {"read", "allocate", "check", "insert"},
                           order: Orders \cup {Nil}, seat: Places \cup {Nil}]]
    <3>1. work[w] \in [at: {"read", "allocate", "check", "insert"},
                       order: Orders \cup {Nil}, seat: Places \cup {Nil}]
      BY DEF SafeTickets, WorkerTypeOK
    <3> DEFINE now == [work[w] EXCEPT !.at = "check", !.seat = place]
    <3>2. now \in [at: {"read", "allocate", "check", "insert"},
                   order: Orders \cup {Nil}, seat: Places \cup {Nil}]
      <4> HIDE DEF place
      <4> QED BY <1>1, <3>1
    <3>3. work' = [work EXCEPT ![w] = now]
      BY DEF SafeTickets, WorkerTypeOK
    <3> HIDE DEF now
    <3> QED BY <3>2, <3>3 DEF SafeTickets, WorkerTypeOK
  <2> QED BY <1>2, <2>1 DEF SafeTickets, WorkerTypeOK, groupVars, dbVars
<1>5. InHand'
  BY <1>1, <1>3 DEF SafeTickets, WorkerTypeOK, InHand, dbVars
<1>6. TicketsMatchOrders'
  BY DEF SafeTickets, TicketsMatchOrders, dbVars
<1>7. AllMarked'
  <2>1. Marked(place)'
    BY <1>2 DEF Marked, SafeTickets, WorkerTypeOK
  <2>2. ASSUME NEW p \in Places, Marked(p)
        PROVE  Marked(p)'
    <3>1. p.seat \in AllSeats
      BY DEF Places
    <3> QED BY <2>2, <3>1, <1>2 DEF Marked
  <2>3. ASSUME NEW v \in Workers, work'[v].seat # Nil
        PROVE  Marked(work[v].seat)'
    <3>1. CASE v = w
      BY <3>1, <1>3, <2>1 DEF Marked
    <3>2. CASE v # w
      <4>1. work[v].seat \in Places /\ Marked(work[v].seat) /\ work'[v] = work[v]
        BY <2>3, <3>2, <1>3 DEF SafeTickets, WorkerTypeOK, AllMarked
      <4> QED BY <4>1, <2>2 DEF Marked
    <3> QED BY <3>1, <3>2
  <2>4. ASSUME NEW o \in Orders, ticket'[o] # Nil
        PROVE  Marked(ticket[o])'
    <3>1. ticket[o] \in Places /\ Marked(ticket[o]) /\ ticket' = ticket
      BY <2>4 DEF SafeTickets, WorkerTypeOK, AllMarked, dbVars
    <3> QED BY <3>1, <2>2 DEF Marked
  <2> QED BY <2>1, <2>3, <2>4, <1>3 DEF AllMarked, Marked, dbVars
<1>8. ASSUME NEW p \in Places, Marked(p)
      PROVE  ~Clash(place, p) /\ ~Clash(p, place)
  BY <1>8, <1>2 DEF Marked, Clash
<1>9. Apart'
  <2>1. HandsApart'
    <3> SUFFICES ASSUME NEW v \in Workers, NEW v2 \in Workers,
                        v # v2, work'[v].seat # Nil, work'[v2].seat # Nil
                 PROVE  ~Clash(work'[v].seat, work'[v2].seat)
      BY DEF HandsApart, Clash
    <3>1. CASE v # w /\ v2 # w
      BY <3>1, <1>3 DEF SafeTickets, Apart, HandsApart
    <3>2. CASE v = w
      <4>1. work[v2].seat \in Places /\ Marked(work[v2].seat) /\ work'[v2] = work[v2]
        BY <3>2, <1>3 DEF SafeTickets, WorkerTypeOK, AllMarked
      <4> QED BY <4>1, <3>2, <1>3, <1>8
    <3>3. CASE v2 = w
      <4>1. work[v].seat \in Places /\ Marked(work[v].seat) /\ work'[v] = work[v]
        BY <3>3, <1>3 DEF SafeTickets, WorkerTypeOK, AllMarked
      <4> QED BY <4>1, <3>3, <1>3, <1>8
    <3> QED BY <3>1, <3>2, <3>3
  <2>2. HandsApartFromTickets'
    <3> SUFFICES ASSUME NEW v \in Workers, NEW o \in Orders,
                        work'[v].seat # Nil, ticket[o] # Nil
                 PROVE  ~Clash(work'[v].seat, ticket[o])
      BY DEF HandsApartFromTickets, Clash, dbVars
    <3>1. ticket[o] \in Places /\ Marked(ticket[o])
      BY DEF SafeTickets, WorkerTypeOK, AllMarked
    <3>2. CASE v = w
      BY <3>1, <3>2, <1>3, <1>8
    <3>3. CASE v # w
      BY <3>3, <1>3 DEF SafeTickets, Apart, HandsApartFromTickets
    <3> QED BY <3>2, <3>3
  <2>3. SeatsAreExclusive'
    BY DEF SafeTickets, Apart, SeatsAreExclusive, Clash, dbVars
  <2> QED BY <2>1, <2>2, <2>3 DEF Apart
<1> QED BY <1>4, <1>5, <1>6, <1>7, <1>9 DEF SafeTickets

\* A worker that is done has nothing in hand.
LEMMA DoneIsIdle ==
  ASSUME WorkerTypeOK, NEW w \in Workers, Done(w)
  PROVE  /\ work' \in [Workers -> [at: {"read", "allocate", "check", "insert"},
                                   order: Orders \cup {Nil}, seat: Places \cup {Nil}]]
         /\ work'[w] = Idle
         /\ \A v \in Workers : v # w => work'[v] = work[v]
         /\ \A v \in Workers : work'[v].seat \in {work[v].seat, Nil}
BY DEF Done, Idle, WorkerTypeOK

\* A seat comes into the hand of the worker, or is lost with a failed call.
LEMMA AllocateSeatSafe ==
  ASSUME SafeTickets, NEW w \in Workers, AllocateSeat(w)
  PROVE  SafeTickets'
<1>1. CASE \E s \in AllSeats :
             /\ Allocate(Trip[w], s)
             /\ work' = [work EXCEPT ![w].at = "check",
                            ![w].seat = [seat |-> s, trip |-> Trip[w], life |-> life]]
  BY <1>1, SeatTaken DEF AllocateSeat
<1>2. CASE /\ Done(w)
           /\ UNCHANGED occupied \/ \E s \in AllSeats : Allocate(Trip[w], s)
  <2>1. /\ occupied' \in [AllSeats -> SUBSET (0..(SegmentCount - 1))]
        /\ \A s \in AllSeats : occupied[s] \subseteq occupied'[s]
    BY <1>2, AllocateTakes DEF SafeTickets, WorkerTypeOK
  <2>2. WorkerTypeOK'
    BY <1>2, <2>1, DoneIsIdle DEF AllocateSeat, SafeTickets, WorkerTypeOK, groupVars, dbVars
  <2>3. InHand'
    BY <1>2, DoneIsIdle DEF AllocateSeat, SafeTickets, InHand, Idle, dbVars
  <2> QED BY <1>2, <2>1, <2>2, <2>3, DoneIsIdle, QuietStep DEF AllocateSeat, SafeTickets, dbVars
<1> QED BY <1>1, <1>2 DEF AllocateSeat, NoSeatAvailable

\* Only an order that is paid for goes on to the insert.
LEMMA CheckPaidSafe ==
  ASSUME SafeTickets, NEW w \in Workers, CheckPaid(w)
  PROVE  SafeTickets'
<1>1. CASE status[work[w].order] = "PAID" /\ work' = [work EXCEPT ![w].at = "insert"]
  <2>1. WorkerTypeOK'
    <3>1. work' \in [Workers -> [at: {"read", "allocate", "check", "insert"},
                             order: Orders \cup {Nil}, seat: Places \cup {Nil}]]
      <4> DEFINE now == [work[w] EXCEPT !.at = "insert"]
      <4>1. work[w] \in [at: {"read", "allocate", "check", "insert"},
                         order: Orders \cup {Nil}, seat: Places \cup {Nil}]
        BY DEF SafeTickets, WorkerTypeOK
      <4>2. now \in [at: {"read", "allocate", "check", "insert"},
                     order: Orders \cup {Nil}, seat: Places \cup {Nil}]
        BY <4>1
      <4>3. work' = [work EXCEPT ![w] = now]
        BY <1>1
      <4> HIDE DEF now
      <4> QED BY <4>2, <4>3 DEF SafeTickets, WorkerTypeOK
    <3> QED BY <3>1 DEF CheckPaid, SafeTickets, WorkerTypeOK, groupVars, seatVars, dbVars
  <2>2. InHand'
    BY <1>1 DEF CheckPaid, SafeTickets, WorkerTypeOK, InHand, dbVars
  <2>3. \A v \in Workers : work'[v].seat \in {work[v].seat, Nil}
    BY <1>1 DEF SafeTickets, WorkerTypeOK
  <2> QED BY <2>1, <2>2, <2>3, QuietStep DEF CheckPaid, seatVars, dbVars
<1>2. CASE Done(w)
  <2>1. WorkerTypeOK'
    BY <1>2, DoneIsIdle DEF CheckPaid, SafeTickets, WorkerTypeOK, groupVars, seatVars, dbVars
  <2>2. InHand'
    BY <1>2, DoneIsIdle DEF CheckPaid, SafeTickets, InHand, Idle, dbVars
  <2> QED BY <1>2, <2>1, <2>2, DoneIsIdle, QuietStep DEF CheckPaid, SafeTickets, seatVars, dbVars
<1> QED BY <1>1, <1>2 DEF CheckPaid

\* The seat in hand becomes the ticket of the order.
LEMMA TicketIssued ==
  ASSUME SafeTickets, NEW w \in Workers, NEW o \in Orders, o = work[w].order,
         work[w].at = "insert", ticket[o] = Nil,
         IssueTicket(o, work[w].seat), Done(w), UNCHANGED <<groupVars, seatVars>>
  PROVE  SafeTickets'
<1> DEFINE place == work[w].seat
<1>1. place \in Places /\ place # Nil
  BY DEF SafeTickets, InHand, WorkerTypeOK
<1>2. ticket' = [ticket EXCEPT ![o] = place] /\ ticket \in [Orders -> Places \cup {Nil}]
  BY DEF IssueTicket, SafeTickets, WorkerTypeOK
<1>3. status[o] = "PAID"
  BY DEF SafeTickets, InHand, TicketsMatchOrders
<1>4. status' = [status EXCEPT ![o] = "TICKETED"]
  BY <1>3 DEF IssueTicket, SafeTickets, WorkerTypeOK
<1>5. outbox \in Seq(Orders) /\ outbox' = Append(outbox, o)
  BY DEF IssueTicket, SafeTickets, WorkerTypeOK
<1>6. /\ Len(outbox') = Len(outbox) + 1
      /\ \A i \in 1..Len(outbox) : outbox'[i] = outbox[i]
      /\ outbox'[Len(outbox) + 1] = o
  BY <1>5
<1> HIDE DEF place
<1>7. WorkerTypeOK'
  <2>1. status' \in [Orders -> {"RESERVED", "PAID", "TICKETED"}]
    BY <1>4 DEF SafeTickets, WorkerTypeOK
  <2>2. ticket' \in [Orders -> Places \cup {Nil}]
    BY <1>1, <1>2
  <2>3. outbox' \in Seq(Orders)
    BY <1>5
  <2> QED BY <2>1, <2>2, <2>3, DoneIsIdle DEF SafeTickets, WorkerTypeOK, groupVars, seatVars
<1>8. InHand'
  <2>1. \A v \in Workers : v = w => work'[v].at = "read"
    BY DoneIsIdle DEF SafeTickets, Idle
  <2>2. \A v \in Workers : v # w => work'[v] = work[v]
    BY DoneIsIdle DEF SafeTickets
  <2>3. \A o2 \in Orders : status'[o2] = IF o2 = o THEN "TICKETED" ELSE status[o2]
    BY <1>4 DEF SafeTickets, WorkerTypeOK
  <2> QED BY <2>1, <2>2, <2>3 DEF SafeTickets, InHand
<1>9. TicketsMatchOrders'
  <2>1. ASSUME NEW o2 \in Orders
        PROVE  status'[o2] = "TICKETED" <=> ticket'[o2] # Nil
    BY <1>1, <1>2, <1>4 DEF SafeTickets, WorkerTypeOK, TicketsMatchOrders
  <2>2. ASSUME NEW o2 \in Orders
        PROVE  ticket'[o2] # Nil <=> \E i \in 1..Len(outbox') : outbox'[i] = o2
    <3>1. CASE o2 = o
      <4>1. Len(outbox) + 1 \in 1..Len(outbox')
        BY <1>5, <1>6
      <4> QED BY <3>1, <4>1, <1>1, <1>2, <1>6
    <3>2. CASE o2 # o
      <4>1. ticket'[o2] = ticket[o2]
        BY <3>2, <1>2
      <4>2. ticket[o2] # Nil <=> \E i \in 1..Len(outbox) : outbox[i] = o2
        BY DEF SafeTickets, TicketsMatchOrders
      <4>3. (\E i \in 1..Len(outbox) : outbox[i] = o2)
              <=> \E i \in 1..Len(outbox') : outbox'[i] = o2
        BY <3>2, <1>5, <1>6
      <4> QED BY <4>1, <4>2, <4>3
    <3> QED BY <3>1, <3>2
  <2>3. ASSUME NEW i \in 1..Len(outbox'), NEW j \in 1..Len(outbox'), outbox'[i] = outbox'[j]
        PROVE  i = j
    <3>1. \A k \in 1..Len(outbox) : outbox[k] # o
      BY DEF SafeTickets, TicketsMatchOrders
    <3>2. \A k, l \in 1..Len(outbox) : outbox[k] = outbox[l] => k = l
      BY DEF SafeTickets, TicketsMatchOrders
    <3> QED BY <2>3, <3>1, <3>2, <1>5, <1>6
  <2> QED BY <2>1, <2>2, <2>3 DEF TicketsMatchOrders
<1>10. AllMarked'
  <2>1. ASSUME NEW v \in Workers, work'[v].seat # Nil
        PROVE  Marked(work[v].seat) /\ work'[v] = work[v]
    BY <2>1, DoneIsIdle DEF SafeTickets, AllMarked, Idle
  <2>2. Marked(place)
    BY <1>1 DEF SafeTickets, AllMarked, place
  <2>3. ASSUME NEW o2 \in Orders, ticket'[o2] # Nil
        PROVE  Marked(ticket'[o2])
    BY <2>2, <2>3, <1>2 DEF SafeTickets, AllMarked
  <2> QED BY <2>1, <2>3 DEF AllMarked, Marked, seatVars
<1>11. Apart'
  <2>1. ASSUME NEW v \in Workers, work'[v].seat # Nil
        PROVE  v # w /\ work'[v] = work[v]
    BY <2>1, DoneIsIdle DEF SafeTickets, Idle
  <2>2. HandsApart'
    BY <2>1 DEF SafeTickets, Apart, HandsApart, Clash
  <2>3. ASSUME NEW v \in Workers, work'[v].seat # Nil
        PROVE  ~Clash(work[v].seat, place)
    BY <2>1, <2>3, <1>1 DEF SafeTickets, Apart, HandsApart, place
  <2>4. HandsApartFromTickets'
    <3> SUFFICES ASSUME NEW v \in Workers, NEW o2 \in Orders,
                        work'[v].seat # Nil, ticket'[o2] # Nil
                 PROVE  ~Clash(work'[v].seat, ticket'[o2])
      BY DEF HandsApartFromTickets, Clash
    <3>1. CASE o2 = o
      BY <3>1, <2>1, <2>3, <1>2
    <3>2. CASE o2 # o
      BY <3>2, <2>1, <1>2 DEF SafeTickets, Apart, HandsApartFromTickets
    <3> QED BY <3>1, <3>2
  <2>5. ASSUME NEW o2 \in Orders, ticket[o2] # Nil
        PROVE  ~Clash(place, ticket[o2]) /\ ~Clash(ticket[o2], place)
    <3>1. ~Clash(place, ticket[o2])
      BY <2>5, <1>1 DEF SafeTickets, Apart, HandsApartFromTickets, place
    <3> QED BY <3>1, ClashIsMutual
  <2>6. SeatsAreExclusive'
    <3> SUFFICES ASSUME NEW o1 \in Orders, NEW o2 \in Orders, o1 # o2,
                        ticket'[o1] # Nil, ticket'[o2] # Nil
                 PROVE  ~Clash(ticket'[o1], ticket'[o2])
      BY DEF SeatsAreExclusive, Clash
    <3>1. CASE o1 = o
      BY <3>1, <2>5, <1>2
    <3>2. CASE o2 = o
      BY <3>2, <2>5, <1>2
    <3>3. CASE o1 # o /\ o2 # o
      BY <3>3, <1>2 DEF SafeTickets, Apart, SeatsAreExclusive
    <3> QED BY <3>1, <3>2, <3>3
  <2> QED BY <2>2, <2>4, <2>6 DEF Apart
<1> QED BY <1>7, <1>8, <1>9, <1>10, <1>11 DEF SafeTickets

\* The insert issues the ticket or leaves the tables alone.
LEMMA InsertTicketSafe ==
  ASSUME SafeTickets, NEW w \in Workers, InsertTicket(w)
  PROVE  SafeTickets'
<1>1. work[w].order \in Orders
  BY DEF InsertTicket, SafeTickets, InHand
<1>2. CASE ticket[work[w].order] = Nil /\ IssueTicket(work[w].order, work[w].seat)
  BY <1>1, <1>2, TicketIssued DEF InsertTicket
<1>3. CASE UNCHANGED dbVars
  <2>1. WorkerTypeOK'
    BY <1>3, DoneIsIdle DEF InsertTicket, SafeTickets, WorkerTypeOK, groupVars, seatVars, dbVars
  <2>2. InHand'
    BY <1>3, DoneIsIdle DEF InsertTicket, SafeTickets, InHand, Idle, dbVars
  <2> QED BY <1>3, <2>1, <2>2, DoneIsIdle, QuietStep DEF InsertTicket, SafeTickets, seatVars, dbVars
<1> QED BY <1>2, <1>3 DEF InsertTicket

-----------------------------------------------------------------------------
(* The steps of the others                                                 *)

\* Payment is for an order without a ticket.
LEMMA PayOrderSafe ==
  ASSUME SafeTickets, NEW o \in Orders, PayOrder(o)
  PROVE  SafeTickets'
<1>1. status' = [status EXCEPT ![o] = "PAID"] /\ status[o] = "RESERVED"
  BY DEF PayOrder
<1>2. WorkerTypeOK'
  BY DEF PayOrder, SafeTickets, WorkerTypeOK, groupVars, seatVars
<1>3. InHand'
  BY <1>1 DEF PayOrder, SafeTickets, WorkerTypeOK, InHand
<1>4. TicketsMatchOrders'
  BY <1>1 DEF PayOrder, SafeTickets, WorkerTypeOK, TicketsMatchOrders
<1>5. AllMarked' /\ Apart'
  BY NothingNew DEF PayOrder, SafeTickets, seatVars
<1> QED BY <1>2, <1>3, <1>4, <1>5 DEF SafeTickets

\* Events come in any number and order; none of them is believed.
LEMMA OrderEventSafe ==
  ASSUME SafeTickets, NEW o \in Orders, NEW type \in {"OrderReserved", "OrderPaid"},
         OrderEvent(type, o)
  PROVE  SafeTickets'
<1> DEFINE Message == [type: {"OrderReserved", "OrderPaid"}, order: Orders]
           msg == [type |-> type, order |-> o]
<1>1. msg \in Message /\ topic \in Seq(Message) /\ topic' = Append(topic, msg)
  BY DEF OrderEvent, SafeTickets, WorkerTypeOK
<1>2. topic' \in Seq(Message) /\ Len(topic') = Len(topic) + 1
  <2> HIDE DEF Message, msg
  <2> QED BY <1>1
<1>3. next' \in 0..Len(topic') /\ committed' \in 0..next'
  BY <1>1, <1>2 DEF OrderEvent, SafeTickets, WorkerTypeOK
<1>4. WorkerTypeOK'
  BY <1>2, <1>3 DEF OrderEvent, SafeTickets, WorkerTypeOK, seatVars, dbVars
<1>5. InHand'
  BY DEF OrderEvent, SafeTickets, InHand, dbVars
<1> QED BY <1>4, <1>5, QuietStep DEF OrderEvent, seatVars, dbVars

\* Offsets decide what is read again, not what it does.
LEMMA FlushOffsetSafe ==
  ASSUME SafeTickets, FlushOffset
  PROVE  SafeTickets'
<1>1. WorkerTypeOK'
  BY DEF FlushOffset, SafeTickets, WorkerTypeOK, seatVars, dbVars
<1>2. InHand'
  BY DEF FlushOffset, SafeTickets, InHand, dbVars
<1> QED BY <1>1, <1>2, QuietStep DEF FlushOffset, seatVars, dbVars

\* The group gives the partition to another worker, and reading goes back to
\* the committed offset.
LEMMA AssignIsTyped ==
  ASSUME WorkerTypeOK, NEW w \in Workers, Assign(w)
  PROVE  /\ topic' = topic /\ owner' \in Workers
         /\ next' \in 0..Len(topic') /\ committed' \in 0..next'
BY DEF Assign, WorkerTypeOK

\* The worker that lost the partition goes on with what it has in hand.
LEMMA RebalanceSafe ==
  ASSUME SafeTickets, NEW w \in Workers, Rebalance(w)
  PROVE  SafeTickets'
<1>1. WorkerTypeOK'
  BY AssignIsTyped DEF Rebalance, SafeTickets, WorkerTypeOK, seatVars, dbVars
<1>2. InHand'
  BY DEF Rebalance, SafeTickets, InHand, dbVars
<1> QED BY <1>1, <1>2, QuietStep DEF Rebalance, seatVars, dbVars

\* A worker that is started anew lets go of its seat, which stays marked.
LEMMA RestartWorkerSafe ==
  ASSUME SafeTickets, NEW w \in Workers, RestartWorker(w)
  PROVE  SafeTickets'
<1>1. PICK heir \in Workers : Assign(heir)
  BY DEF RestartWorker
<1>2. WorkerTypeOK'
  BY <1>1, AssignIsTyped, DoneIsIdle DEF RestartWorker, SafeTickets, WorkerTypeOK, seatVars, dbVars
<1>3. InHand'
  <2>1. work'[w].at = "read" /\ \A v \in Workers : v # w => work'[v] = work[v]
    BY DoneIsIdle DEF RestartWorker, SafeTickets, Idle
  <2>2. status' = status
    BY DEF RestartWorker, dbVars
  <2> QED BY <2>1, <2>2 DEF SafeTickets, InHand
<1> QED BY <1>2, <1>3, DoneIsIdle, QuietStep DEF RestartWorker, SafeTickets, seatVars, dbVars

\* Every place is of an earlier life then, so none needs to be marked.
LEMMA RestartAllocatorSafe ==
  ASSUME SafeTickets, RestartAllocator
  PROVE  SafeTickets'
<1>1. WorkerTypeOK'
  <2>1. occupied' \in [AllSeats -> SUBSET (0..(SegmentCount - 1))]
    BY DEF RestartAllocator, NothingTaken
  <2>2. life' \in 1..MaxLives
    BY DEF RestartAllocator, SafeTickets, WorkerTypeOK, WorkerAssumption
  <2> QED BY <2>1, <2>2 DEF RestartAllocator, SafeTickets, WorkerTypeOK, groupVars, dbVars
<1>2. InHand'
  BY DEF RestartAllocator, SafeTickets, InHand, dbVars
<1>3. TicketsMatchOrders'
  BY DEF RestartAllocator, SafeTickets, TicketsMatchOrders, dbVars
<1>4. AllMarked'
  <2>1. ASSUME NEW p \in Places, Marked(p)
        PROVE  p.life <= life' /\ p.life # life'
    BY <2>1 DEF Marked, RestartAllocator, SafeTickets, WorkerTypeOK, Places
  <2>2. ASSUME NEW v \in Workers, work[v].seat # Nil
        PROVE  work[v].seat.life <= life' /\ work[v].seat.life # life'
    BY <2>1, <2>2 DEF SafeTickets, AllMarked, WorkerTypeOK
  <2>3. ASSUME NEW o \in Orders, ticket[o] # Nil
        PROVE  ticket[o].life <= life' /\ ticket[o].life # life'
    BY <2>1, <2>3 DEF SafeTickets, AllMarked, WorkerTypeOK
  <2> QED BY <2>2, <2>3 DEF AllMarked, Marked, RestartAllocator, dbVars
<1>5. Apart'
  BY DEF RestartAllocator, SafeTickets, Apart, HandsApart, HandsApartFromTickets,
         SeatsAreExclusive, Clash, dbVars
<1> QED BY <1>1, <1>2, <1>3, <1>4, <1>5 DEF SafeTickets

-----------------------------------------------------------------------------
(* The invariant                                                           *)

\* Nothing is in hand and no ticket is issued at first.
LEMMA SafeAtFirst == WorkerInit => SafeTickets
<1> SUFFICES ASSUME WorkerInit
             PROVE  SafeTickets
  OBVIOUS
<1>1. WorkerTypeOK
  BY DEF WorkerInit, WorkerTypeOK, Idle, NothingTaken, WorkerAssumption
<1>2. InHand /\ TicketsMatchOrders /\ AllMarked /\ Apart
  BY DEF WorkerInit, InHand, TicketsMatchOrders, AllMarked, Apart, HandsApart,
         HandsApartFromTickets, SeatsAreExclusive, Idle
<1> QED BY <1>1, <1>2 DEF SafeTickets

\* Every step keeps the invariant.
LEMMA SafeStep == SafeTickets /\ [WorkerNext]_workerVars => SafeTickets'
<1> SUFFICES ASSUME SafeTickets, [WorkerNext]_workerVars
             PROVE  SafeTickets'
  OBVIOUS
<1>1. CASE \E o \in Orders : PayOrder(o)
  BY <1>1, PayOrderSafe
<1>2. CASE \E o \in Orders, type \in {"OrderReserved", "OrderPaid"} : OrderEvent(type, o)
  BY <1>2, OrderEventSafe
<1>3. CASE FlushOffset
  BY <1>3, FlushOffsetSafe
<1>4. CASE RestartAllocator
  BY <1>4, RestartAllocatorSafe
<1>5. ASSUME NEW w \in Workers,
             \/ Rebalance(w) \/ RestartWorker(w)
             \/ ReadMessage(w) \/ AllocateSeat(w) \/ CheckPaid(w) \/ InsertTicket(w)
      PROVE  SafeTickets'
  BY <1>5, RebalanceSafe, RestartWorkerSafe, ReadMessageSafe, AllocateSeatSafe,
     CheckPaidSafe, InsertTicketSafe
<1>6. CASE UNCHANGED workerVars
  <2>1. WorkerTypeOK'
    BY <1>6 DEF SafeTickets, WorkerTypeOK, workerVars, groupVars, dbVars, seatVars
  <2>2. InHand'
    BY <1>6 DEF SafeTickets, InHand, workerVars, dbVars
  <2> QED BY <1>6, <2>1, <2>2, QuietStep DEF workerVars, dbVars, seatVars
<1> QED BY <1>1, <1>2, <1>3, <1>4, <1>5, <1>6 DEF WorkerNext

\* The invariant always holds.
THEOREM TicketsStaySafe == WorkerSpec => []SafeTickets
BY SafeAtFirst, SafeStep, PTL DEF WorkerSpec

\* What workers, allocator and database hold always has its type; in particular
\* a worker never has an order or a seat that does not exist in hand.
THEOREM WorkerTypeCorrect == WorkerSpec => []WorkerTypeOK
<1>1. SafeTickets => WorkerTypeOK
  BY DEF SafeTickets
<1> QED BY <1>1, TicketsStaySafe, PTL

\* However often a payment is delivered and wherever a worker stops, an order
\* is TICKETED exactly when it has a ticket, and has one row in the outbox then.
THEOREM TicketsMatch == WorkerSpec => []TicketsMatchOrders
<1>1. SafeTickets => TicketsMatchOrders
  BY DEF SafeTickets
<1> QED BY <1>1, TicketsStaySafe, PTL

\* Two orders are never given the same seat over the same segment in one life
\* of the allocator.
THEOREM SeatsExclusive == WorkerSpec => []SeatsAreExclusive
<1>1. SafeTickets => SeatsAreExclusive
  BY DEF SafeTickets, Apart
<1> QED BY <1>1, TicketsStaySafe, PTL

\* No step takes a ticket back or changes it, a second delivery of the payment
\* to another worker included.
THEOREM TicketsFinal == WorkerSpec => TicketsAreFinal
<1>1. ASSUME SafeTickets, [WorkerNext]_workerVars
      PROVE  [\A o \in Orders : ticket[o] # Nil => ticket'[o] = ticket[o]]_workerVars
  <2> SUFFICES ASSUME NEW o \in Orders, ticket[o] # Nil
               PROVE  ticket'[o] = ticket[o]
    OBVIOUS
  <2>1. ASSUME NEW w \in Workers, InsertTicket(w)
        PROVE  ticket'[o] = ticket[o]
    <3>1. CASE ticket[work[w].order] = Nil /\ IssueTicket(work[w].order, work[w].seat)
      <4>1. ticket' = [ticket EXCEPT ![work[w].order] = work[w].seat] /\ work[w].order # o
        BY <3>1 DEF IssueTicket
      <4> QED BY <4>1, <1>1 DEF SafeTickets, WorkerTypeOK
    <3>2. CASE UNCHANGED dbVars
      BY <3>2 DEF dbVars
    <3> QED BY <2>1, <3>1, <3>2 DEF InsertTicket
  <2>2. CASE ticket' = ticket
    BY <2>2
  <2>3. \/ \E w \in Workers : InsertTicket(w)
        \/ ticket' = ticket
    BY <1>1 DEF WorkerNext, PayOrder, OrderEvent, FlushOffset, RestartAllocator, Rebalance,
               RestartWorker, ReadMessage, AllocateSeat, CheckPaid, workerVars, dbVars
  <2> QED BY <2>1, <2>2, <2>3
<1> QED BY <1>1, TicketsStaySafe, PTL DEF WorkerSpec, TicketsAreFinal

=============================================================================
