------------------------- MODULE OrderServiceProofs --------------------------
(***************************************************************************)
(* That the row of an order, its outbox rows, its payments and its seat    *)
(* agree whatever interleaves, fails or dies, for all sets of orders,      *)
(* requests and transactions, and any number of seats.                     *)
(*                                                                         *)
(* Two things are told apart.  What a transaction does to the database is  *)
(* the same whoever runs it (DbStep), and keeps row, outbox and payments   *)
(* in step (RowsAgree).  That a paid order has its seat is about what the  *)
(* requests that run side by side may still do to its hold: ReqOK says it  *)
(* for one request, WorldStep is what a step of another one may change,    *)
(* and ReqStable that the one survives the other.                          *)
(***************************************************************************)
EXTENDS OrderService, TLAPS, SequenceTheorems, FiniteSetTheorems

EventTypes == {"OrderCreated", "OrderReserved", "OrderPaid", "OrderCancelled"}

RequestRecords ==
  [at : Steps, order : Orders, hold : Holds, txn : Txns \cup {Nil}, seen : Statuses]

Commands == {"try-hold", "release-hold", "confirm-hold"}

StockTypes ==
  /\ avail \in [Partitions -> Nat]
  /\ held \subseteq Holds
  /\ sold \in [Holds -> Nat]
  /\ late \subseteq {"try-hold", "release-hold", "confirm-hold"} \X Holds
  /\ owner \in [Holds -> Orders \cup {Nil}]
  /\ troubled \subseteq Orders

ReqTypes == req \in [Requests -> {NoReq} \cup RequestRecords]

\* The one payment of an order that counts as paid.
PaidOnce ==
  \A o \in Orders :
    IF status[o] \in {"PAID", "TICKETED"}
    THEN \E p \in payments : {q \in payments : q.order = o} = {p}
    ELSE {q \in payments : q.order = o} = {}

RowsAgree ==
  /\ status \in [Orders -> Statuses]
  /\ payments \subseteq [txn : Txns, order : Orders]
  /\ outbox \in [Orders -> Seq(EventTypes)]
  /\ OutboxTellsStatus
  /\ PaidOnce
  /\ \A p, p2 \in payments : p.txn = p2.txn => p = p2

Taken(h) == h \in held \/ sold[h] >= 1

Covered(o) == \E h \in Holds : owner[h] = o /\ Taken(h)

\* An order without trouble has named one hold,
OneHold ==
  \A o \in Orders \ troubled, g, h \in Holds : owner[g] = o /\ owner[h] = o => g = h

\* and a request asks for it, or is of an order in trouble, like its hold.
Named(q) ==
  /\ owner[q.hold] \in Orders
  /\ owner[q.hold] = q.order \/ {owner[q.hold], q.order} \subseteq troubled

\* What is known of an order at a step of a request, as long as the order met
\* no trouble.
SeatIsSafe(q, o) ==
  /\ q.at # "release"
  /\ q.at = "cancelling" => q.seen = "INIT"
  /\ q.at = "reserving" /\ status[o] = "INIT" => Covered(o)
  /\ q.at = "compensate" => status[o] \in {"PAID", "TICKETED", "CANCELLED"}
  /\ q.at \in {"confirm", "paying"} => status[o] \in {"RESERVED", "PAID", "TICKETED"}
  /\ q.at = "paying" => HasSeat(o)

ReqOK(q) ==
  q # NoReq =>
    /\ status[q.order] # "none"
    /\ q.at \in {"confirm", "paying"} => q.txn \in Txns
    /\ q.at = "recheck" => status[q.order] # "INIT"
    /\ q.at \in {"release", "cancelling"} => q.seen \in {"INIT", "RESERVED"}
    /\ q.at # "cancelling" => Named(q)
    /\ q.order \notin troubled => SeatIsSafe(q, q.order)

LateOK == \A c \in late : owner[c[2]] \in troubled

SeatsAgree ==
  /\ \A o \in Orders \ troubled :
       /\ status[o] \in {"RESERVED", "PAID", "TICKETED"} => Covered(o)
       /\ status[o] \in {"PAID", "TICKETED"} => HasSeat(o)
  /\ LateOK
  /\ OneHold

OrderInv ==
  /\ RowsAgree
  /\ StockTypes
  /\ ReqTypes
  /\ \A r \in Requests : ReqOK(req[r])
  /\ SeatsAgree

Pays(o, txn) ==
  /\ \A p \in payments : p.txn # txn
  /\ payments' = payments \cup {[txn |-> txn, order |-> o]}
  /\ Move(o, "RESERVED", "PAID", "OrderPaid")

DbStep ==
  \/ UNCHANGED dbVars
  \/ \E o \in Orders :
       \/ /\ \/ Move(o, "none", "INIT", "OrderCreated")
             \/ Move(o, "INIT", "RESERVED", "OrderReserved")
             \/ Move(o, "INIT", "CANCELLED", "OrderCancelled")
             \/ Move(o, "RESERVED", "CANCELLED", "OrderCancelled")
          /\ UNCHANGED payments
       \/ \E txn \in Txns : Pays(o, txn)
       \/ /\ status[o] = "PAID"
          /\ status' = [status EXCEPT ![o] = "TICKETED"]
          /\ UNCHANGED <<payments, outbox>>

StatusStep ==
  \A o \in Orders :
    \/ status'[o] = status[o]
    \/ status[o] = "none" /\ status'[o] = "INIT"
    \/ status[o] = "INIT" /\ status'[o] = "RESERVED"
    \/ status[o] = "INIT" /\ status'[o] = "CANCELLED"
    \/ status[o] = "RESERVED" /\ status'[o] = "PAID"
    \/ status[o] = "RESERVED" /\ status'[o] = "CANCELLED"
    \/ status[o] = "PAID" /\ status'[o] = "TICKETED"

\* What a step may do to an order that met no trouble.
SafeStep ==
  \A o \in Orders \ troubled' :
    /\ status[o] = "INIT" /\ status'[o] = "RESERVED" => Covered(o)'
    /\ status[o] = "RESERVED" => status'[o] # "CANCELLED"
    /\ status[o] = "RESERVED" /\ status'[o] = "PAID" => HasSeat(o)'
    /\ HasSeat(o) => HasSeat(o)'
    /\ Covered(o) => Covered(o)' \/ status'[o] = "CANCELLED"

\* What every step does.
WorldStep ==
  /\ troubled \subseteq troubled'
  /\ \A h \in Holds : owner[h] \in Orders => owner'[h] = owner[h]
  /\ DbStep
  /\ SafeStep
  /\ StockTypes'
  /\ ReqTypes'
  /\ LateOK'
  /\ OneHold'

USE OrderAssumption

-----------------------------------------------------------------------------
(* The database                                                            *)

\* One more row of the outbox turns the story of a status into that of the next.
LEMMA Stories ==
  /\ Append(<<>>, "OrderCreated") = <<"OrderCreated">>
  /\ Append(<<"OrderCreated">>, "OrderReserved") = <<"OrderCreated", "OrderReserved">>
  /\ Append(<<"OrderCreated">>, "OrderCancelled") = <<"OrderCreated", "OrderCancelled">>
  /\ Append(<<"OrderCreated", "OrderReserved">>, "OrderPaid")
       = <<"OrderCreated", "OrderReserved", "OrderPaid">>
  /\ Append(<<"OrderCreated", "OrderReserved">>, "OrderCancelled")
       = <<"OrderCreated", "OrderReserved", "OrderCancelled">>
<1>1. \A a : Append(<<>>, a) = <<a>>
  OBVIOUS
<1>2. ASSUME NEW a \in EventTypes, NEW b \in EventTypes
      PROVE  Append(<<a>>, b) = <<a, b>>
  <2>1. <<a>> \in Seq(EventTypes) /\ <<a, b>> \in Seq(EventTypes) /\ Append(<<a>>, b) \in Seq(EventTypes)
    OBVIOUS
  <2>2. Len(Append(<<a>>, b)) = 2 /\ Append(<<a>>, b)[1] = a /\ Append(<<a>>, b)[2] = b
    BY <2>1
  <2>3. Len(<<a, b>>) = 2 /\ <<a, b>>[1] = a /\ <<a, b>>[2] = b
    OBVIOUS
  <2> DEFINE s == Append(<<a>>, b)
             t == <<a, b>>
  <2> HIDE DEF s, t
  <2>4. \A i \in 1 .. 2 : s[i] = t[i]
    BY <2>2, <2>3 DEF s, t
  <2>5. s \in Seq(EventTypes) /\ t \in Seq(EventTypes) /\ Len(s) = Len(t) /\ Len(s) = 2
    BY <2>1, <2>2, <2>3 DEF s, t
  <2>6. s = t
    BY <2>4, <2>5, SeqEqual
  <2> QED BY <2>6 DEF s, t
<1>3. ASSUME NEW a \in EventTypes, NEW b \in EventTypes, NEW c \in EventTypes
      PROVE  Append(<<a, b>>, c) = <<a, b, c>>
  <2>1. /\ <<a, b>> \in Seq(EventTypes) /\ <<a, b, c>> \in Seq(EventTypes)
        /\ Append(<<a, b>>, c) \in Seq(EventTypes)
    OBVIOUS
  <2>2. /\ Len(Append(<<a, b>>, c)) = 3
        /\ Append(<<a, b>>, c)[1] = a /\ Append(<<a, b>>, c)[2] = b
        /\ Append(<<a, b>>, c)[3] = c
    BY <2>1
  <2>3. Len(<<a, b, c>>) = 3 /\ <<a, b, c>>[1] = a /\ <<a, b, c>>[2] = b /\ <<a, b, c>>[3] = c
    OBVIOUS
  <2> DEFINE s == Append(<<a, b>>, c)
             t == <<a, b, c>>
  <2> HIDE DEF s, t
  <2>4. \A i \in 1 .. 3 : s[i] = t[i]
    BY <2>2, <2>3 DEF s, t
  <2>5. s \in Seq(EventTypes) /\ t \in Seq(EventTypes) /\ Len(s) = Len(t) /\ Len(s) = 3
    BY <2>1, <2>2, <2>3 DEF s, t
  <2>6. s = t
    BY <2>4, <2>5, SeqEqual
  <2> QED BY <2>6 DEF s, t
<1>4. {"OrderCreated", "OrderReserved", "OrderPaid", "OrderCancelled"} \subseteq EventTypes
  BY DEF EventTypes
<1> QED BY <1>1, <1>2, <1>3, <1>4, Zenon

LEMMA DbMoves ==
  ASSUME RowsAgree, DbStep
  PROVE  StatusStep /\ status' \in [Orders -> Statuses]
BY DEF RowsAgree, DbStep, StatusStep, Pays, Move, dbVars, Statuses

LEMMA DbKeepsStory ==
  ASSUME RowsAgree, DbStep
  PROVE  outbox' \in [Orders -> Seq(EventTypes)] /\ OutboxTellsStatus'
<1>1. CASE UNCHANGED dbVars
  BY <1>1 DEF RowsAgree, dbVars, OutboxTellsStatus
<1>2. ASSUME NEW o \in Orders, NEW from, NEW to, NEW event \in EventTypes, Move(o, from, to, event),
             \A x \in Story(from) : Append(x, event) \in Story(to)
      PROVE  outbox' \in [Orders -> Seq(EventTypes)] /\ OutboxTellsStatus'
  <2>1. Append(outbox[o], event) \in Seq(EventTypes)
    BY DEF RowsAgree
  <2> QED BY <1>2, <2>1 DEF RowsAgree, Move, OutboxTellsStatus
<1>3. /\ \A x \in Story("none") : Append(x, "OrderCreated") \in Story("INIT")
      /\ \A x \in Story("INIT") : Append(x, "OrderReserved") \in Story("RESERVED")
      /\ \A x \in Story("INIT") : Append(x, "OrderCancelled") \in Story("CANCELLED")
      /\ \A x \in Story("RESERVED") : Append(x, "OrderCancelled") \in Story("CANCELLED")
      /\ \A x \in Story("RESERVED") : Append(x, "OrderPaid") \in Story("PAID")
  BY Stories, Zenon DEF Story
<1>4. ASSUME NEW o \in Orders, status[o] = "PAID",
             status' = [status EXCEPT ![o] = "TICKETED"], outbox' = outbox
      PROVE  outbox' \in [Orders -> Seq(EventTypes)] /\ OutboxTellsStatus'
  <2>1. Story("PAID") = Story("TICKETED")
    BY DEF Story
  <2> QED BY <1>4, <2>1 DEF RowsAgree, OutboxTellsStatus
<1>5. {"OrderCreated", "OrderReserved", "OrderPaid", "OrderCancelled"} \subseteq EventTypes
  BY DEF EventTypes
<1> QED BY <1>1, <1>2, <1>3, <1>4, <1>5 DEF DbStep, Pays

LEMMA DbKeepsPayments ==
  ASSUME RowsAgree, DbStep
  PROVE  /\ payments' \subseteq [txn : Txns, order : Orders]
         /\ PaidOnce'
         /\ \A p, p2 \in payments' : p.txn = p2.txn => p = p2
<1>1. CASE UNCHANGED dbVars
  BY <1>1 DEF RowsAgree, dbVars, PaidOnce
<1>2. ASSUME NEW o \in Orders, NEW txn \in Txns, Pays(o, txn)
      PROVE  /\ payments' \subseteq [txn : Txns, order : Orders]
             /\ PaidOnce'
             /\ \A p, p2 \in payments' : p.txn = p2.txn => p = p2
  <2> DEFINE new == [txn |-> txn, order |-> o]
  <2>1. payments' = payments \cup {new} /\ new \in [txn : Txns, order : Orders]
    BY <1>2 DEF Pays
  <2>2. /\ status[o] = "RESERVED" /\ status'[o] = "PAID"
        /\ \A x \in Orders \ {o} : status'[x] = status[x]
    BY <1>2 DEF Pays, Move, RowsAgree
  <2>3. {q \in payments : q.order = o} = {}
    BY <2>2 DEF RowsAgree, PaidOnce
  <2>4. {q \in payments' : q.order = o} = {new}
    BY <2>1, <2>3
  <2>5. \A x \in Orders \ {o} : {q \in payments' : q.order = x} = {q \in payments : q.order = x}
    BY <2>1
  <2>6. PaidOnce'
    <3> SUFFICES ASSUME NEW x \in Orders
                 PROVE  IF status'[x] \in {"PAID", "TICKETED"}
                        THEN \E p \in payments' : {q \in payments' : q.order = x} = {p}
                        ELSE {q \in payments' : q.order = x} = {}
      BY DEF PaidOnce
    <3>1. CASE x = o
      BY <3>1, <2>1, <2>2, <2>4
    <3>2. CASE x # o
      BY <3>2, <2>1, <2>2, <2>5 DEF RowsAgree, PaidOnce
    <3> QED BY <3>1, <3>2
  <2>7. \A p \in payments : p.txn # txn
    BY <1>2 DEF Pays
  <2> HIDE DEF new
  <2>8. new.txn = txn
    BY DEF new
  <2> QED BY <2>1, <2>6, <2>7, <2>8 DEF RowsAgree
<1>3. ASSUME NEW o \in Orders, NEW s \in Statuses,
             status' = [status EXCEPT ![o] = s], payments' = payments,
             status[o] \in {"PAID", "TICKETED"} <=> s \in {"PAID", "TICKETED"}
      PROVE  PaidOnce'
  BY <1>3 DEF RowsAgree, PaidOnce
<1> QED BY <1>1, <1>2, <1>3 DEF DbStep, Move, Statuses, RowsAgree

LEMMA DbKeepsRows ==
  ASSUME RowsAgree, DbStep
  PROVE  RowsAgree'
BY DbMoves, DbKeepsStory, DbKeepsPayments DEF RowsAgree

\* No transaction moves an order but as its domain object would.
LEMMA DbIsLifecycle ==
  ASSUME DbStep
  PROVE  [Lifecycle!Next]_status
BY DEF DbStep, Pays, Move, dbVars, Lifecycle!Next, Lifecycle!NewOrder, Lifecycle!Reserve,
   Lifecycle!MarkPaid, Lifecycle!MarkTicketed, Lifecycle!Cancel

-----------------------------------------------------------------------------
(* What a step of another request leaves true                              *)

LEMMA ReqStable ==
  ASSUME OrderInv, WorldStep, NEW r \in Requests, req'[r] = req[r]
  PROVE  ReqOK(req[r])'
<1> SUFFICES ASSUME req[r] # NoReq
             PROVE  ReqOK(req[r])'
  BY DEF ReqOK
<1> DEFINE o == req[r].order
<1>1. o \in Orders /\ req[r].hold \in Holds /\ ReqOK(req[r])
  BY DEF OrderInv, ReqTypes, RequestRecords
<1>2. StatusStep
  BY DbMoves DEF OrderInv, WorldStep
<1>3. status[o] \in Statuses
  BY <1>1 DEF OrderInv, RowsAgree
<1>4. ASSUME o \notin troubled' PROVE SeatIsSafe(req[r], o)'
  <2>1. SeatIsSafe(req[r], o)
    BY <1>1, <1>4 DEF ReqOK, WorldStep
  <2>2. CASE req[r].at = "reserving"
    BY <1>1, <1>2, <1>3, <1>4, <2>1, <2>2 DEF SeatIsSafe, WorldStep, SafeStep, StatusStep, ReqOK
  <2>3. CASE req[r].at = "paying"
    BY <1>1, <1>2, <1>3, <1>4, <2>1, <2>3 DEF SeatIsSafe, WorldStep, SafeStep, StatusStep
  <2>4. CASE req[r].at \notin {"reserving", "paying"}
    BY <1>1, <1>2, <1>3, <1>4, <2>1, <2>4 DEF SeatIsSafe, WorldStep, SafeStep, StatusStep
  <2> QED BY <2>2, <2>3, <2>4
<1>5. ASSUME Named(req[r]) PROVE Named(req[r])'
  BY <1>1, <1>5 DEF Named, WorldStep
<1> QED BY <1>1, <1>2, <1>4, <1>5 DEF ReqOK, StatusStep

LEMMA SeatsStable ==
  ASSUME OrderInv, WorldStep
  PROVE  SeatsAgree'
<1> SUFFICES ASSUME NEW o \in Orders, o \notin troubled'
             PROVE  /\ status'[o] \in {"RESERVED", "PAID", "TICKETED"} => Covered(o)'
                    /\ status'[o] \in {"PAID", "TICKETED"} => HasSeat(o)'
  BY DEF SeatsAgree, WorldStep
<1>1. StatusStep
  BY DbMoves DEF OrderInv, WorldStep
<1>2. o \notin troubled
  BY DEF WorldStep
<1>3. /\ status[o] \in {"RESERVED", "PAID", "TICKETED"} => Covered(o)
      /\ status[o] \in {"PAID", "TICKETED"} => HasSeat(o)
  BY <1>2 DEF OrderInv, SeatsAgree
<1>4. /\ status[o] = "INIT" /\ status'[o] = "RESERVED" => Covered(o)'
      /\ status[o] = "RESERVED" /\ status'[o] = "PAID" => HasSeat(o)'
      /\ HasSeat(o) => HasSeat(o)'
      /\ Covered(o) => Covered(o)' \/ status'[o] = "CANCELLED"
  BY DEF WorldStep, SafeStep
<1>5. HasSeat(o)' => Covered(o)'
  BY DEF HasSeat, Covered, Taken
<1> QED BY <1>1, <1>3, <1>4, <1>5 DEF StatusStep

\* A step is harmless when the world takes it and it leaves its own request in
\* a state that fits.
LEMMA StepKeepsInv ==
  ASSUME OrderInv, WorldStep,
         \A r \in Requests : req'[r] = req[r] \/ ReqOK(req[r])'
  PROVE  OrderInv'
BY ReqStable, SeatsStable, DbKeepsRows DEF OrderInv, WorldStep

\* The seats of an order are what its holds say.
LEMMA SeatsStay ==
  ASSUME UNCHANGED <<stockVars, owner>>, NEW o
  PROVE  (HasSeat(o)' <=> HasSeat(o)) /\ (Covered(o)' <=> Covered(o))
BY DEF stockVars, HasSeat, Covered, Taken

LEMMA DbOnly ==
  ASSUME OrderInv, DbStep, ReqTypes', UNCHANGED <<stockVars, late, owner>>,
         troubled \subseteq troubled', troubled' \subseteq Orders,
         \A o \in Orders \ troubled' :
           /\ status[o] = "INIT" /\ status'[o] = "RESERVED" => Covered(o)
           /\ status[o] = "RESERVED" => status'[o] # "CANCELLED"
           /\ status[o] = "RESERVED" /\ status'[o] = "PAID" => HasSeat(o)
  PROVE  WorldStep
<1>1. StockTypes' /\ LateOK' /\ OneHold'
  BY DEF OrderInv, StockTypes, stockVars, LateOK, OneHold, SeatsAgree
<1>2. \A o \in Orders : (HasSeat(o)' <=> HasSeat(o)) /\ (Covered(o)' <=> Covered(o))
  BY SeatsStay
<1> QED BY <1>1, <1>2 DEF WorldStep, SafeStep

LEMMA StockOnly ==
  ASSUME OrderInv, ReqTypes', UNCHANGED <<dbVars, owner>>, StockTypes', LateOK',
         troubled \subseteq troubled',
         \A o \in Orders \ troubled' :
           /\ HasSeat(o) => HasSeat(o)'
           /\ Covered(o) => Covered(o)' \/ status[o] = "CANCELLED"
  PROVE  WorldStep
<1>1. OneHold'
  BY DEF OrderInv, SeatsAgree, OneHold
<1> QED BY <1>1 DEF WorldStep, SafeStep, DbStep, dbVars

LEMMA ReqOnly ==
  ASSUME OrderInv, ReqTypes', UNCHANGED <<dbVars, callVars>>
  PROVE  WorldStep
<1>1. troubled' = troubled /\ UNCHANGED <<stockVars, late, owner>>
  BY DEF callVars
<1>2. DbStep /\ \A o \in Orders : status'[o] = status[o]
  BY DEF DbStep, dbVars
<1> QED BY <1>1, <1>2, DbOnly DEF OrderInv, StockTypes

-----------------------------------------------------------------------------
(* The requests and the calls                                              *)

LEMMA RequestMoves ==
  ASSUME OrderInv, NEW r \in Requests, req[r].at # "idle"
  PROVE  /\ req[r] # NoReq /\ req[r] \in RequestRecords /\ req[r].order \in Orders
         /\ req[r].hold \in Holds /\ ReqOK(req[r])
         /\ Answer(r) => ReqTypes' /\ \A x \in Requests : req'[x] = req[x] \/ req'[x] = NoReq
         /\ \A step \in Steps : Goto(r, step) =>
              /\ ReqTypes'
              /\ req'[r] = [req[r] EXCEPT !.at = step]
              /\ req'[r].at = step /\ req'[r].order = req[r].order /\ req'[r].hold = req[r].hold
              /\ req'[r].txn = req[r].txn /\ req'[r].seen = req[r].seen
              /\ \A x \in Requests \ {r} : req'[x] = req[x]
<1>1. req[r] # NoReq /\ req[r] \in RequestRecords /\ ReqOK(req[r])
  BY DEF OrderInv, ReqTypes, NoReq
<1>2. Answer(r) => ReqTypes' /\ \A x \in Requests : req'[x] = req[x] \/ req'[x] = NoReq
  BY DEF OrderInv, ReqTypes, Answer
<1>3. ASSUME NEW step \in Steps, Goto(r, step)
      PROVE  /\ ReqTypes'
             /\ req'[r] = [req[r] EXCEPT !.at = step]
             /\ req'[r].at = step /\ req'[r].order = req[r].order /\ req'[r].hold = req[r].hold
             /\ req'[r].txn = req[r].txn /\ req'[r].seen = req[r].seen
             /\ \A x \in Requests \ {r} : req'[x] = req[x]
  <2>1. [req[r] EXCEPT !.at = step] \in RequestRecords
    BY <1>1 DEF RequestRecords
  <2>2. req' = [req EXCEPT ![r] = [req[r] EXCEPT !.at = step]]
    BY <1>3 DEF Goto
  <2> QED BY <1>1, <2>1, <2>2 DEF OrderInv, ReqTypes, RequestRecords
<1> QED BY <1>1, <1>2, <1>3 DEF RequestRecords

LEMMA IdleIsOK ==
  ASSUME NEW r \in Requests, req'[r] = NoReq
  PROVE  ReqOK(req[r])'
BY DEF ReqOK

LEMMA RunEffect ==
  ASSUME StockTypes, NEW command \in Commands, NEW h \in Holds, Run(command, h)
  PROVE  /\ avail' \in [Partitions -> Nat] /\ held' \subseteq Holds /\ sold' \in [Holds -> Nat]
         /\ \A g \in Holds :
              /\ sold[g] >= 1 => sold'[g] >= 1
              /\ Taken(g) => Taken(g)' \/ (g = h /\ command = "release-hold")
         /\ command = "try-hold" => h \in held'
         /\ command = "confirm-hold" => sold'[h] >= 1
<1>1. PartitionOf[h] \in Partitions
  BY DEF Partitions
<1>2. CASE command = "try-hold"
  BY <1>1, <1>2 DEF Run, Granted, Take, StockTypes, Taken
<1>3. CASE command = "release-hold"
  BY <1>1, <1>3 DEF Run, Released, StockTypes, Taken
<1>4. CASE command = "confirm-hold"
  BY <1>4 DEF Run, Confirmed, StockTypes, Taken
<1> QED BY <1>2, <1>3, <1>4 DEF Commands

\* What orders see of that, which name it or not.
LEMMA RunSeats ==
  ASSUME StockTypes, UNCHANGED owner, NEW command \in Commands, NEW h \in Holds,
         Run(command, h)
  PROVE  \A x \in Orders :
           /\ HasSeat(x) => HasSeat(x)'
           /\ Covered(x) => Covered(x)' \/ (owner[h] = x /\ command = "release-hold")
BY RunEffect DEF HasSeat, Covered, Taken

LEMMA CallEffect ==
  ASSUME OrderInv, NEW command \in Commands, NEW o \in Orders, NEW h \in Holds,
         owner[h] \in Orders, owner[h] = o \/ {owner[h], o} \subseteq troubled,
         CallOk(command, h) \/ CallNotFound(h) \/ CallFails(command, o, h)
  PROVE  /\ StockTypes' /\ LateOK' /\ owner' = owner /\ troubled \subseteq troubled'
         /\ \A x \in Orders \ troubled' :
              /\ HasSeat(x) => HasSeat(x)'
              /\ Covered(x) => Covered(x)' \/ (x = o /\ command = "release-hold")
<1>1. StockTypes /\ LateOK
  BY DEF OrderInv, SeatsAgree
<1>2. owner' = owner
  BY DEF CallOk, CallNotFound, CallFails, callVars
<1>3. ASSUME UNCHANGED stockVars
      PROVE  /\ avail' \in [Partitions -> Nat] /\ held' \subseteq Holds /\ sold' \in [Holds -> Nat]
             /\ \A x \in Orders : (HasSeat(x) => HasSeat(x)') /\ (Covered(x) => Covered(x)')
  <2>1. \A x \in Orders : (HasSeat(x) => HasSeat(x)') /\ (Covered(x) => Covered(x)')
    BY <1>2, <1>3, SeatsStay
  <2> QED BY <1>1, <1>3, <2>1 DEF stockVars, StockTypes
<1>4. ASSUME Run(command, h), troubled \subseteq troubled'
      PROVE  /\ avail' \in [Partitions -> Nat] /\ held' \subseteq Holds /\ sold' \in [Holds -> Nat]
             /\ \A x \in Orders \ troubled' :
                  /\ HasSeat(x) => HasSeat(x)'
                  /\ Covered(x) => Covered(x)' \/ (x = o /\ command = "release-hold")
  BY <1>1, <1>2, <1>4, RunEffect, RunSeats
<1>5. CASE CallOk(command, h)
  BY <1>1, <1>2, <1>4, <1>5 DEF CallOk, StockTypes, LateOK
<1>6. CASE CallNotFound(h)
  BY <1>1, <1>2, <1>3, <1>6 DEF CallNotFound, callVars, StockTypes, LateOK
<1>7. CASE CallFails(command, o, h)
  <2>1. troubled' = troubled \cup {o}
    BY <1>7 DEF CallFails, Trouble
  <2>2. late' = late \/ late' = late \cup {<<command, h>>}
    BY <1>7 DEF CallFails
  <2>3. LateOK' /\ late' \subseteq {"try-hold", "release-hold", "confirm-hold"} \X Holds
    BY <1>1, <1>2, <2>1, <2>2 DEF LateOK, StockTypes, Commands
  <2>4. Run(command, h) \/ UNCHANGED stockVars
    BY <1>7 DEF CallFails
  <2> QED BY <1>1, <1>2, <1>3, <1>4, <2>1, <2>3, <2>4 DEF StockTypes
<1> QED BY <1>5, <1>6, <1>7

\* A request that calls about its hold may do so.
LEMMA CallerNamed ==
  ASSUME OrderInv, NEW r \in Requests,
         req[r].at \in {"hold", "compensate", "confirm", "release"}
  PROVE  /\ req[r].order \in Orders /\ req[r].hold \in Holds
         /\ owner[req[r].hold] \in Orders
         /\ \/ owner[req[r].hold] = req[r].order
            \/ {owner[req[r].hold], req[r].order} \subseteq troubled
BY RequestMoves DEF ReqOK, Named

-----------------------------------------------------------------------------
(* Each action                                                             *)

\* A step that fits: what StepKeepsInv asks for.
Fits == WorldStep /\ \A r \in Requests : req'[r] = req[r] \/ ReqOK(req[r])'

LEMMA CreateFits == ASSUME OrderInv, NEW o \in Orders, CreateOrder(o) PROVE Fits
<1>1. DbStep /\ ReqTypes' /\ UNCHANGED <<stockVars, late, owner, troubled, req>>
  BY DEF CreateOrder, DbStep, callVars, OrderInv, ReqTypes
<1>2. \A x \in Orders : status'[x] = status[x] \/ status'[x] = "INIT"
  BY DEF CreateOrder, Move, OrderInv, RowsAgree
<1> QED BY <1>1, <1>2, DbOnly DEF Fits, OrderInv, StockTypes

LEMMA TicketFits == ASSUME OrderInv, NEW o \in Orders, TicketOrder(o) PROVE Fits
<1>1. DbStep /\ ReqTypes' /\ UNCHANGED <<stockVars, late, owner, troubled, req>>
  BY DEF TicketOrder, DbStep, callVars, OrderInv, ReqTypes
<1>2. \A x \in Orders : status'[x] = status[x] \/ status'[x] = "TICKETED"
  BY DEF TicketOrder, OrderInv, RowsAgree
<1> QED BY <1>1, <1>2, DbOnly DEF Fits, OrderInv, StockTypes

\* The hold of an order that this leaves without trouble is another one.
LEMMA LossFits ==
  ASSUME OrderInv, NEW h \in Holds, UNCHANGED <<dbVars, late, req, owner>>, TroubleOwner(h),
         avail' \in [Partitions -> Nat], held' \subseteq Holds, sold' \in [Holds -> Nat],
         \A g \in Holds \ {h} : sold'[g] = sold[g] /\ (g \in held => g \in held')
  PROVE  Fits
<1>1. StockTypes /\ LateOK
  BY DEF OrderInv, SeatsAgree
<1>2. troubled' = troubled \cup ({owner[h]} \ {Nil})
  BY DEF TroubleOwner
<1>3. StockTypes' /\ LateOK' /\ ReqTypes'
  BY <1>1, <1>2 DEF StockTypes, LateOK, OrderInv, ReqTypes
<1>4. ASSUME NEW x \in Orders \ troubled'
      PROVE  (HasSeat(x) => HasSeat(x)') /\ (Covered(x) => Covered(x)')
  <2>1. owner[h] # x
    BY <1>2
  <2> QED BY <2>1 DEF HasSeat, Covered, Taken
<1> QED BY <1>2, <1>3, <1>4, StockOnly DEF Fits

LEMMA ExpireFits == ASSUME OrderInv, NEW h \in Holds, Expire(h) PROVE Fits
<1>1. Run("release-hold", h) /\ StockTypes
  BY DEF Expire, Run, OrderInv
<1>2. \A g \in Holds \ {h} : sold'[g] = sold[g] /\ (g \in held => g \in held')
  BY DEF Expire, Released
<1>3. "release-hold" \in Commands
  BY DEF Commands
<1> QED BY <1>1, <1>2, <1>3, RunEffect, LossFits DEF Expire

LEMMA ForgetFits == ASSUME OrderInv, NEW h \in Holds, Forget(h) PROVE Fits
<1>1. StockTypes /\ sold[h] \in Nat
  BY DEF OrderInv, StockTypes
<1>2. CASE Released(h)
  <2>1. Run("release-hold", h) /\ "release-hold" \in Commands
    BY <1>2 DEF Run, Commands
  <2>2. \A g \in Holds \ {h} : sold'[g] = sold[g] /\ (g \in held => g \in held')
    BY <1>2 DEF Released
  <2> QED BY <1>1, <2>1, <2>2, RunEffect, LossFits DEF Forget
<1>3. CASE ~Released(h)
  <2>1. /\ sold[h] >= 1 /\ sold' = [sold EXCEPT ![h] = sold[h] - 1]
        /\ held' = held \cup {h} /\ avail' = avail
    BY <1>3 DEF Forget, Unconfirmed
  <2>2. sold' \in [Holds -> Nat] /\ held' \subseteq Holds /\ avail' \in [Partitions -> Nat]
    BY <1>1, <2>1 DEF StockTypes
  <2> QED BY <1>1, <2>1, <2>2, LossFits DEF Forget, StockTypes
<1> QED BY <1>2, <1>3

LEMMA LateFits == ASSUME OrderInv, LateCall PROVE Fits
<1>1. PICK c \in late : /\ late' = late \ {c}
                        /\ Run(c[1], c[2]) \/ UNCHANGED stockVars
                        /\ UNCHANGED <<dbVars, req, owner, troubled>>
  BY DEF LateCall
<1>2. /\ c[1] \in Commands /\ c[2] \in Holds
      /\ owner[c[2]] \in troubled
  BY DEF OrderInv, StockTypes, SeatsAgree, LateOK, Commands
<1>3. StockTypes
  BY DEF OrderInv
<1>4. CASE Run(c[1], c[2])
  <2>1. StockTypes' /\ LateOK' /\ ReqTypes'
    BY <1>1, <1>2, <1>3, <1>4, RunEffect DEF StockTypes, LateOK, SeatsAgree, OrderInv, ReqTypes
  <2>2. \A x \in Orders \ troubled' : (HasSeat(x) => HasSeat(x)') /\ (Covered(x) => Covered(x)')
    BY <1>1, <1>2, <1>3, <1>4, RunSeats
  <2> QED BY <1>1, <2>1, <2>2, StockOnly DEF Fits
<1>5. CASE UNCHANGED stockVars
  <2>1. StockTypes' /\ LateOK' /\ ReqTypes'
    BY <1>1, <1>3, <1>5 DEF StockTypes, stockVars, LateOK, SeatsAgree, OrderInv, ReqTypes
  <2>2. \A x \in Orders : (HasSeat(x) => HasSeat(x)') /\ (Covered(x) => Covered(x)')
    BY <1>1, <1>5, SeatsStay
  <2> QED BY <1>1, <2>1, <2>2, StockOnly DEF Fits
<1> QED BY <1>1, <1>4, <1>5

\* A request begins with a read, and from then on has its hold.
LEMMA BeginMoves ==
  ASSUME OrderInv, NEW r \in Requests, NEW step \in Steps, NEW o \in Orders, NEW h \in Holds,
         NEW txn \in Txns \cup {Nil}, Begin(r, step, o, h, txn)
  PROVE  /\ ReqTypes' /\ \A x \in Requests \ {r} : req'[x] = req[x]
         /\ req'[r].at = step /\ req'[r].order = o /\ req'[r].hold = h
         /\ req'[r].txn = txn /\ req'[r].seen = status[o]
<1> DEFINE q == [at |-> step, order |-> o, hold |-> h, txn |-> txn, seen |-> status[o]]
<1>1. q \in RequestRecords
  BY DEF RequestRecords, OrderInv, RowsAgree
<1>2. req' = [req EXCEPT ![r] = q]
  BY DEF Begin
<1>3. q.at = step /\ q.order = o /\ q.hold = h /\ q.txn = txn /\ q.seen = status[o]
  OBVIOUS
<1> HIDE DEF q
<1> QED BY <1>1, <1>2, <1>3 DEF OrderInv, ReqTypes

LEMMA NamesFits ==
  ASSUME OrderInv, ReqTypes', NEW o \in Orders, NEW h \in Holds, Names(o, h),
         UNCHANGED <<dbVars, stockVars, late>>,
         troubled \cup Clash(o, h) \subseteq troubled', troubled' \subseteq Orders
  PROVE  /\ WorldStep
         /\ owner'[h] \in Orders
         /\ owner'[h] = o \/ {owner'[h], o} \subseteq troubled'
<1>1. StockTypes /\ LateOK /\ OneHold
  BY DEF OrderInv, SeatsAgree
<1>2. /\ owner' \in [Holds -> Orders \cup {Nil}]
      /\ \A g \in Holds : owner[g] \in Orders => owner'[g] = owner[g]
      /\ \A g \in Holds \ {h} : owner'[g] = owner[g]
      /\ owner'[h] = IF owner[h] = Nil THEN o ELSE owner[h]
  BY <1>1 DEF StockTypes, Names
<1>3. /\ owner'[h] \in Orders
      /\ owner'[h] = o \/ {owner'[h], o} \subseteq troubled'
  BY <1>1, <1>2 DEF Clash, StockTypes
<1>4. OneHold'
  <2> SUFFICES ASSUME NEW x \in Orders \ troubled', NEW f \in Holds, NEW g \in Holds,
                      owner'[f] = x, owner'[g] = x
               PROVE  f = g
    BY DEF OneHold
  <2>1. CASE owner' = owner
    BY <1>1, <2>1 DEF OneHold
  <2>2. CASE owner' # owner
    <3>1. owner[h] = Nil /\ owner'[h] = o
      BY <1>2, <2>2 DEF Names
    <3>2. o \notin troubled' => \A e \in Holds \ {h} : owner[e] # o
      BY DEF Clash
    <3> QED BY <1>1, <1>2, <3>1, <3>2 DEF OneHold
  <2> QED BY <2>1, <2>2
<1>5. \A x \in Orders : (HasSeat(x) => HasSeat(x)') /\ (Covered(x) => Covered(x)')
  BY <1>2 DEF stockVars, HasSeat, Covered, Taken
<1>6. StockTypes' /\ LateOK'
  BY <1>1, <1>2 DEF StockTypes, LateOK, stockVars
<1>7. DbStep /\ status' = status
  BY DEF DbStep, dbVars
<1> QED BY <1>2, <1>3, <1>4, <1>5, <1>6, <1>7 DEF WorldStep, SafeStep

LEMMA CrashFits == ASSUME OrderInv, Crash PROVE Fits
<1>1. ReqTypes' /\ UNCHANGED <<dbVars, callVars>> /\ \A r \in Requests : req'[r] = NoReq
  BY DEF Crash, ReqTypes
<1> QED BY <1>1, ReqOnly, IdleIsOK DEF Fits

(* ReserveOrder *)

LEMMA ReserveReadFits ==
  ASSUME OrderInv, NEW r \in Requests, NEW o \in Orders, NEW h \in Holds, ReserveRead(r, o, h)
  PROVE  Fits
<1>1. /\ ReqTypes' /\ \A x \in Requests \ {r} : req'[x] = req[x]
      /\ req'[r].at = "hold" /\ req'[r].order = o /\ req'[r].hold = h
  BY BeginMoves DEF ReserveRead, Steps
<1>2. /\ WorldStep /\ owner'[h] \in Orders
      /\ owner'[h] = o \/ {owner'[h], o} \subseteq troubled'
  BY <1>1, NamesFits DEF ReserveRead, Clash, OrderInv, StockTypes
<1>3. status'[o] = "INIT"
  BY DEF ReserveRead, dbVars
<1>4. ReqOK(req[r])'
  BY <1>1, <1>2, <1>3 DEF ReqOK, Named, SeatIsSafe
<1> QED BY <1>1, <1>2, <1>4 DEF Fits

LEMMA ReserveHoldFits == ASSUME OrderInv, NEW r \in Requests, ReserveHold(r) PROVE Fits
<1> DEFINE o == req[r].order
           h == req[r].hold
<1>1. req[r].at = "hold" /\ UNCHANGED dbVars /\ "try-hold" \in Commands
  BY DEF ReserveHold, Commands
<1>2. /\ status[o] # "none" /\ status'[o] = status[o]
      /\ o \in Orders /\ h \in Holds /\ owner[h] \in Orders
      /\ owner[h] = o \/ {owner[h], o} \subseteq troubled
  BY <1>1, RequestMoves, CallerNamed DEF ReqOK, dbVars
<1>3. CASE CallOk("try-hold", h) /\ Goto(r, "reserving")
  <2>1. /\ ReqTypes' /\ req'[r].at = "reserving" /\ req'[r].order = o /\ req'[r].hold = h
        /\ \A x \in Requests \ {r} : req'[x] = req[x]
    BY <1>1, <1>3, RequestMoves DEF Steps
  <2>2. WorldStep
    <3> HIDE DEF o, h
    <3> QED BY <1>1, <1>2, <1>3, <2>1, CallEffect, StockOnly
  <2>3. h \in held' /\ owner' = owner /\ troubled' = troubled
    BY <1>3 DEF CallOk, Run, Granted
  <2>4. ReqOK(req[r])'
    BY <1>2, <2>1, <2>3 DEF ReqOK, Named, SeatIsSafe, Covered, Taken
  <2> QED BY <2>1, <2>2, <2>4 DEF Fits
<1>4. CASE UNCHANGED callVars /\ Answer(r)
  BY <1>1, <1>4, RequestMoves, IdleIsOK, ReqOnly DEF Fits
<1>5. CASE CallFails("try-hold", o, h) /\ Answer(r)
  <2>1. ReqTypes' /\ \A x \in Requests : req'[x] = req[x] \/ req'[x] = NoReq
    BY <1>1, <1>5, RequestMoves
  <2>2. WorldStep
    <3> HIDE DEF o, h
    <3> QED BY <1>1, <1>2, <1>5, <2>1, CallEffect, StockOnly
  <2> QED BY <2>1, <2>2, IdleIsOK DEF Fits
<1> QED BY <1>3, <1>4, <1>5 DEF ReserveHold

\* A transaction that reports an error, and what it may have done to the order.
LEMMA CommitFailsFits ==
  ASSUME OrderInv, NEW o \in Orders, Trouble(o), DbStep, ReqTypes',
         UNCHANGED <<stockVars, late, owner>>, \A x \in Orders \ {o} : status'[x] = status[x]
  PROVE  WorldStep
<1>1. troubled' = troubled \cup {o} /\ troubled \subseteq Orders
  BY DEF Trouble, OrderInv, StockTypes
<1> QED BY <1>1, DbOnly

LEMMA ReserveUpdateFits == ASSUME OrderInv, NEW r \in Requests, ReserveUpdate(r) PROVE Fits
<1> DEFINE o == req[r].order
           transaction == Move(o, "INIT", "RESERVED", "OrderReserved") /\ UNCHANGED payments
<1>1. req[r].at = "reserving" /\ UNCHANGED <<stockVars, late, owner>>
  BY DEF ReserveUpdate
<1>2. /\ o \in Orders /\ status[o] # "none" /\ (o \notin troubled => SeatIsSafe(req[r], o))
      /\ Named(req[r])
  BY <1>1, RequestMoves DEF ReqOK
<1>3. transaction => DbStep /\ \A x \in Orders \ {o} : status'[x] = status[x]
  BY <1>2 DEF DbStep, Move, OrderInv, RowsAgree
<1>4. CASE transaction /\ UNCHANGED troubled /\ Answer(r)
  <2>1. ReqTypes' /\ \A x \in Requests : req'[x] = req[x] \/ req'[x] = NoReq
    BY <1>1, <1>4, RequestMoves
  <2>2. status[o] = "INIT" /\ status'[o] = "RESERVED"
    BY <1>2, <1>4 DEF Move, OrderInv, RowsAgree
  <2>3. o \notin troubled => Covered(o)
    BY <1>1, <1>2, <2>2 DEF SeatIsSafe
  <2> HIDE DEF o
  <2>4. WorldStep
    BY <1>1, <1>3, <1>4, <2>1, <2>2, <2>3, DbOnly DEF OrderInv, StockTypes
  <2> QED BY <2>1, <2>4, IdleIsOK DEF Fits
<1>5. CASE status[o] # "INIT" /\ UNCHANGED <<dbVars, troubled>> /\ Goto(r, "recheck")
  <2>1. /\ ReqTypes' /\ req'[r].at = "recheck" /\ req'[r].order = o
        /\ req'[r].hold = req[r].hold /\ \A x \in Requests \ {r} : req'[x] = req[x]
    BY <1>1, <1>5, RequestMoves DEF Steps
  <2>2. ReqOK(req[r])'
    BY <1>1, <1>2, <1>5, <2>1 DEF ReqOK, Named, SeatIsSafe, dbVars
  <2> QED BY <1>1, <1>5, <2>1, <2>2, ReqOnly DEF Fits, callVars
<1>6. CASE CommitFails(o, transaction) /\ Goto(r, "compensate")
  <2>1. /\ ReqTypes' /\ req'[r].at = "compensate" /\ req'[r].order = o
        /\ req'[r].hold = req[r].hold /\ \A x \in Requests \ {r} : req'[x] = req[x]
    BY <1>1, <1>6, RequestMoves DEF Steps
  <2>2. Trouble(o) /\ (transaction \/ UNCHANGED dbVars)
    BY <1>6 DEF CommitFails
  <2>3. DbStep /\ \A x \in Orders \ {o} : status'[x] = status[x]
    BY <1>3, <2>2 DEF DbStep, dbVars
  <2>4. status'[o] # "none" /\ o \in troubled' /\ troubled \subseteq troubled'
    BY <1>2, <2>2 DEF Move, OrderInv, RowsAgree, dbVars, Trouble
  <2>5. ReqOK(req[r])'
    BY <1>1, <1>2, <2>1, <2>4 DEF ReqOK, Named
  <2> HIDE DEF o, transaction
  <2> QED BY <1>1, <1>2, <2>1, <2>2, <2>3, <2>5, CommitFailsFits DEF Fits
<1> QED BY <1>4, <1>5, <1>6 DEF ReserveUpdate

LEMMA ReserveRecheckFits == ASSUME OrderInv, NEW r \in Requests, ReserveRecheck(r) PROVE Fits
<1> DEFINE o == req[r].order
<1>1. req[r].at = "recheck" /\ UNCHANGED <<dbVars, stockVars, late, owner>>
  BY DEF ReserveRecheck
<1>2. /\ o \in Orders /\ status[o] \in Statuses \ {"none", "INIT"} /\ status'[o] = status[o]
      /\ Named(req[r])
  BY <1>1, RequestMoves DEF ReqOK, dbVars, OrderInv, RowsAgree
<1>3. CASE UNCHANGED troubled /\ Answer(r)
  BY <1>1, <1>3, RequestMoves, IdleIsOK, ReqOnly DEF Fits, callVars
<1>4. Goto(r, "compensate") =>
        /\ ReqTypes' /\ req'[r].at = "compensate" /\ req'[r].order = o
        /\ req'[r].hold = req[r].hold /\ \A x \in Requests \ {r} : req'[x] = req[x]
  BY <1>1, RequestMoves DEF Steps
<1>5. CASE status[o] # "RESERVED" /\ UNCHANGED troubled /\ Goto(r, "compensate")
  <2>1. ReqOK(req[r])'
    BY <1>1, <1>2, <1>4, <1>5 DEF ReqOK, Named, SeatIsSafe, Statuses
  <2> QED BY <1>1, <1>4, <1>5, <2>1, ReqOnly DEF Fits, callVars
<1>6. CASE Trouble(o) /\ Goto(r, "compensate")
  <2>1. DbStep /\ \A x \in Orders \ {o} : status'[x] = status[x]
    BY <1>1 DEF DbStep, dbVars
  <2>2. ReqOK(req[r])'
    BY <1>1, <1>2, <1>4, <1>6 DEF ReqOK, Named, Trouble
  <2> HIDE DEF o
  <2> QED BY <1>1, <1>2, <1>4, <1>6, <2>1, <2>2, CommitFailsFits DEF Fits
<1> QED BY <1>3, <1>5, <1>6 DEF ReserveRecheck

LEMMA ReserveCompensateFits ==
  ASSUME OrderInv, NEW r \in Requests, ReserveCompensate(r) PROVE Fits
<1> DEFINE o == req[r].order
           h == req[r].hold
<1>1. req[r].at = "compensate" /\ UNCHANGED dbVars /\ Answer(r)
  BY DEF ReserveCompensate
<1>2. /\ o \in Orders /\ (o \notin troubled => status[o] \in {"PAID", "TICKETED", "CANCELLED"})
      /\ h \in Holds /\ owner[h] \in Orders
      /\ owner[h] = o \/ {owner[h], o} \subseteq troubled
  BY <1>1, RequestMoves, CallerNamed DEF ReqOK, SeatIsSafe
<1>3. ReqTypes' /\ \A x \in Requests : req'[x] = req[x] \/ req'[x] = NoReq
  BY <1>1, RequestMoves
<1>4. CallOk("release-hold", h) \/ CallNotFound(h) \/ CallFails("release-hold", o, h)
  BY DEF ReserveCompensate, CallEnds
<1>5. "release-hold" \in Commands
  BY DEF Commands
<1> HIDE DEF o, h
<1>6. /\ StockTypes' /\ LateOK' /\ owner' = owner /\ troubled \subseteq troubled'
      /\ \A x \in Orders \ troubled' :
           (HasSeat(x) => HasSeat(x)') /\ (Covered(x) => Covered(x)' \/ x = o)
  BY <1>2, <1>4, <1>5, CallEffect
<1>7. ASSUME NEW x \in Orders \ troubled', x = o
      PROVE  Covered(x)' \/ status[x] = "CANCELLED"
  <2>1. status[x] \in {"PAID", "TICKETED"} => HasSeat(x)
    BY <1>6 DEF OrderInv, SeatsAgree
  <2>2. HasSeat(x)' => Covered(x)'
    BY DEF HasSeat, Covered, Taken
  <2> QED BY <1>2, <1>6, <1>7, <2>1, <2>2
<1> QED BY <1>1, <1>3, <1>6, <1>7, StockOnly, IdleIsOK DEF Fits

(* PaymentCallback *)

LEMMA PayReadFits ==
  ASSUME OrderInv, NEW r \in Requests, NEW o \in Orders, NEW h \in Holds, NEW txn \in Txns,
         PayRead(r, o, h, txn)
  PROVE  Fits
<1>1. /\ ReqTypes' /\ \A x \in Requests \ {r} : req'[x] = req[x]
      /\ req'[r].at = "confirm" /\ req'[r].order = o /\ req'[r].hold = h /\ req'[r].txn = txn
  BY BeginMoves DEF PayRead, Steps
<1>2. /\ WorldStep /\ owner'[h] \in Orders
      /\ owner'[h] = o \/ {owner'[h], o} \subseteq troubled'
  BY <1>1, NamesFits DEF PayRead, Clash, OrderInv, StockTypes
<1>3. status'[o] = "RESERVED"
  BY DEF PayRead, dbVars
<1>4. ReqOK(req[r])'
  BY <1>1, <1>2, <1>3 DEF ReqOK, Named, SeatIsSafe
<1> QED BY <1>1, <1>2, <1>4 DEF Fits

\* A hold that is not found, of an order without trouble, is sold.
LEMMA PayConfirmFits == ASSUME OrderInv, NEW r \in Requests, PayConfirm(r) PROVE Fits
<1> DEFINE o == req[r].order
           h == req[r].hold
<1>1. req[r].at = "confirm" /\ UNCHANGED dbVars /\ "confirm-hold" \in Commands
  BY DEF PayConfirm, Commands
<1>2. /\ o \in Orders /\ h \in Holds /\ owner[h] \in Orders
      /\ owner[h] = o \/ {owner[h], o} \subseteq troubled
  BY <1>1, CallerNamed
<1>3. /\ status[o] # "none" /\ req[r].txn \in Txns /\ status'[o] = status[o]
      /\ o \notin troubled => status[o] \in {"RESERVED", "PAID", "TICKETED"}
  BY <1>1, RequestMoves DEF ReqOK, SeatIsSafe, dbVars
<1>4. o \notin troubled => Covered(o)
  BY <1>2, <1>3 DEF OrderInv, SeatsAgree
<1>5. CASE CallEnds("confirm-hold", h) /\ Goto(r, "paying")
  <2>1. /\ ReqTypes' /\ req'[r].at = "paying" /\ req'[r].order = o /\ req'[r].txn = req[r].txn
        /\ req'[r].hold = h /\ \A x \in Requests \ {r} : req'[x] = req[x]
    BY <1>1, <1>5, RequestMoves DEF Steps
  <2>2. CallOk("confirm-hold", h) \/ CallNotFound(h)
    BY <1>5 DEF CallEnds
  <2>3. WorldStep
    <3> HIDE DEF o, h
    <3> QED BY <1>1, <1>2, <2>1, <2>2, CallEffect, StockOnly
  <2>4. troubled' = troubled /\ owner' = owner
    BY <2>2 DEF CallOk, CallNotFound, callVars
  <2>5. ASSUME NEW x \in Orders, NEW f \in Holds, x = o, f = h, x \notin troubled
        PROVE  HasSeat(x)'
    <3>1. owner[f] = x
      BY <1>2, <2>5
    <3>2. CASE CallOk("confirm-hold", f)
      <4>1. Run("confirm-hold", f) /\ StockTypes
        BY <3>2 DEF CallOk, OrderInv
      <4>2. sold'[f] >= 1
        BY <1>1, <4>1, RunEffect
      <4> QED BY <2>4, <3>1, <4>2 DEF HasSeat
    <3>3. CASE CallNotFound(f)
      <4>1. PICK g \in Holds : owner[g] = x /\ Taken(g)
        BY <1>4, <2>5 DEF Covered
      <4>2. OneHold
        BY DEF OrderInv, SeatsAgree
      <4>3. g = f
        BY <2>5, <3>1, <4>1, <4>2 DEF OneHold
      <4>4. sold[f] >= 1 /\ sold' = sold
        BY <3>3, <4>1, <4>3 DEF CallNotFound, Taken, callVars, stockVars
      <4> QED BY <2>4, <3>1, <4>4 DEF HasSeat
    <3> QED BY <2>2, <2>5, <3>2, <3>3
  <2>6. Named(req[r])'
    BY <1>2, <2>1, <2>4 DEF Named
  <2>7. ReqOK(req[r])'
    BY <1>2, <1>3, <2>1, <2>4, <2>5, <2>6 DEF ReqOK, SeatIsSafe
  <2> QED BY <2>1, <2>3, <2>7 DEF Fits
<1>6. CASE CallFails("confirm-hold", o, h) /\ Answer(r)
  <2>1. ReqTypes' /\ \A x \in Requests : req'[x] = req[x] \/ req'[x] = NoReq
    BY <1>1, <1>6, RequestMoves
  <2>2. WorldStep
    <3> HIDE DEF o, h
    <3> QED BY <1>1, <1>2, <1>6, <2>1, CallEffect, StockOnly
  <2> QED BY <2>1, <2>2, IdleIsOK DEF Fits
<1> QED BY <1>5, <1>6 DEF PayConfirm

LEMMA PayRecordFits == ASSUME OrderInv, NEW r \in Requests, PayRecord(r) PROVE Fits
<1> DEFINE o == req[r].order
           transaction == Pays(o, req[r].txn)
<1>1. req[r].at = "paying" /\ UNCHANGED <<stockVars, late, owner>> /\ Answer(r)
  BY DEF PayRecord
<1>2. o \in Orders /\ req[r].txn \in Txns /\ (o \notin troubled => HasSeat(o))
  BY <1>1, RequestMoves DEF ReqOK, SeatIsSafe
<1>3. ReqTypes' /\ \A x \in Requests : req'[x] = req[x] \/ req'[x] = NoReq
  BY <1>1, RequestMoves
<1>4. transaction => DbStep /\ \A x \in Orders \ {o} : status'[x] = status[x]
  BY <1>2 DEF DbStep, Pays, Move, OrderInv, RowsAgree
<1>5. CASE transaction /\ UNCHANGED troubled
  <2>1. status[o] = "RESERVED" /\ status'[o] = "PAID"
    BY <1>2, <1>5 DEF Pays, Move, OrderInv, RowsAgree
  <2> HIDE DEF o
  <2>2. WorldStep
    BY <1>1, <1>2, <1>3, <1>4, <1>5, <2>1, DbOnly DEF OrderInv, StockTypes
  <2> QED BY <1>3, <2>2, IdleIsOK DEF Fits
<1>6. CASE UNCHANGED <<dbVars, troubled>>
  BY <1>1, <1>3, <1>6, IdleIsOK, ReqOnly DEF Fits, callVars
<1>7. CASE CommitFails(o, transaction)
  <2>1. Trouble(o) /\ (transaction \/ UNCHANGED dbVars)
    BY <1>7 DEF CommitFails
  <2>2. DbStep /\ \A x \in Orders \ {o} : status'[x] = status[x]
    BY <1>4, <2>1 DEF DbStep, dbVars
  <2> HIDE DEF o, transaction
  <2> QED BY <1>1, <1>2, <1>3, <2>1, <2>2, IdleIsOK, CommitFailsFits DEF Fits
<1> QED BY <1>5, <1>6, <1>7 DEF PayRecord, Pays

(* CancelOrder *)

LEMMA CancelReadFits ==
  ASSUME OrderInv, NEW r \in Requests, NEW o \in Orders, NEW h \in Holds, CancelRead(r, o, h)
  PROVE  Fits
<1>1. CASE /\ status[o] = "INIT" /\ Begin(r, "cancelling", o, h, Nil)
           /\ UNCHANGED <<dbVars, callVars>>
  <2>1. /\ ReqTypes' /\ \A x \in Requests \ {r} : req'[x] = req[x]
        /\ req'[r].at = "cancelling" /\ req'[r].order = o /\ req'[r].seen = "INIT"
    BY <1>1, BeginMoves DEF Steps
  <2>2. ReqOK(req[r])'
    BY <1>1, <2>1 DEF ReqOK, SeatIsSafe, dbVars
  <2> QED BY <1>1, <2>1, <2>2, ReqOnly DEF Fits
<1>2. CASE /\ status[o] = "RESERVED" /\ Begin(r, "release", o, h, Nil) /\ Names(o, h)
           /\ troubled' = troubled \cup {o} \cup Clash(o, h)
           /\ UNCHANGED <<dbVars, stockVars, late>>
  <2>1. /\ ReqTypes' /\ \A x \in Requests \ {r} : req'[x] = req[x]
        /\ req'[r].at = "release" /\ req'[r].order = o /\ req'[r].hold = h
        /\ req'[r].seen = "RESERVED"
    BY <1>2, BeginMoves DEF Steps
  <2>2. troubled \cup Clash(o, h) \subseteq troubled' /\ troubled' \subseteq Orders
    BY <1>2 DEF Clash, OrderInv, StockTypes
  <2>3. /\ WorldStep /\ owner'[h] \in Orders
        /\ owner'[h] = o \/ {owner'[h], o} \subseteq troubled'
    BY <1>2, <2>1, <2>2, NamesFits
  <2>4. ReqOK(req[r])'
    BY <1>2, <2>1, <2>3 DEF ReqOK, Named, dbVars
  <2> QED BY <2>1, <2>3, <2>4 DEF Fits
<1> QED BY <1>1, <1>2 DEF CancelRead, callVars

LEMMA CancelReleaseFits == ASSUME OrderInv, NEW r \in Requests, CancelRelease(r) PROVE Fits
<1> DEFINE o == req[r].order
           h == req[r].hold
<1>1. req[r].at = "release" /\ UNCHANGED dbVars /\ "release-hold" \in Commands
  BY DEF CancelRelease, Commands
<1>2. /\ o \in Orders /\ h \in Holds /\ owner[h] \in Orders
      /\ owner[h] = o \/ {owner[h], o} \subseteq troubled
  BY <1>1, CallerNamed
<1>3. /\ status[o] # "none" /\ o \in troubled /\ status'[o] = status[o]
      /\ req[r].seen \in {"INIT", "RESERVED"}
  BY <1>1, <1>2, RequestMoves DEF ReqOK, SeatIsSafe, dbVars
<1>4. ASSUME CallOk("release-hold", h) \/ CallNotFound(h) \/ CallFails("release-hold", o, h),
             ReqTypes'
      PROVE  WorldStep /\ o \in troubled'
  <2> HIDE DEF o, h
  <2>1. /\ StockTypes' /\ LateOK' /\ owner' = owner /\ troubled \subseteq troubled'
        /\ \A x \in Orders \ troubled' :
             (HasSeat(x) => HasSeat(x)') /\ (Covered(x) => Covered(x)' \/ x = o)
    BY <1>1, <1>2, <1>4, CallEffect
  <2> QED BY <1>1, <1>3, <1>4, <2>1, StockOnly
<1>5. CASE CallEnds("release-hold", h) /\ Goto(r, "cancelling")
  <2>1. /\ ReqTypes' /\ req'[r].at = "cancelling" /\ req'[r].order = o
        /\ req'[r].seen = req[r].seen /\ \A x \in Requests \ {r} : req'[x] = req[x]
    BY <1>1, <1>5, RequestMoves DEF Steps
  <2>2. WorldStep /\ o \in troubled'
    BY <1>4, <1>5, <2>1 DEF CallEnds
  <2>3. ReqOK(req[r])'
    BY <1>3, <2>1, <2>2 DEF ReqOK
  <2> QED BY <2>1, <2>2, <2>3 DEF Fits
<1>6. CASE CallFails("release-hold", o, h) /\ Answer(r)
  BY <1>1, <1>4, <1>6, RequestMoves, IdleIsOK DEF Fits
<1> QED BY <1>5, <1>6 DEF CancelRelease

LEMMA CancelUpdateFits == ASSUME OrderInv, NEW r \in Requests, CancelUpdate(r) PROVE Fits
<1> DEFINE o == req[r].order
           transaction == /\ Move(o, req[r].seen, "CANCELLED", "OrderCancelled")
                          /\ UNCHANGED payments
<1>1. req[r].at = "cancelling" /\ UNCHANGED <<stockVars, late, owner>> /\ Answer(r)
  BY DEF CancelUpdate
<1>2. /\ o \in Orders /\ req[r].seen \in {"INIT", "RESERVED"}
      /\ o \notin troubled => req[r].seen = "INIT"
  BY <1>1, RequestMoves DEF ReqOK, SeatIsSafe
<1>3. ReqTypes' /\ \A x \in Requests : req'[x] = req[x] \/ req'[x] = NoReq
  BY <1>1, RequestMoves
<1>4. transaction => DbStep /\ \A x \in Orders \ {o} : status'[x] = status[x]
  BY <1>2 DEF DbStep, Move, OrderInv, RowsAgree
<1>5. CASE transaction /\ UNCHANGED troubled
  <2>1. status[o] = req[r].seen /\ status'[o] = "CANCELLED"
    BY <1>2, <1>5 DEF Move, OrderInv, RowsAgree
  <2> HIDE DEF o
  <2>2. WorldStep
    BY <1>1, <1>2, <1>3, <1>4, <1>5, <2>1, DbOnly DEF OrderInv, StockTypes
  <2> QED BY <1>3, <2>2, IdleIsOK DEF Fits
<1>6. CASE UNCHANGED <<dbVars, troubled>>
  BY <1>1, <1>3, <1>6, IdleIsOK, ReqOnly DEF Fits, callVars
<1>7. CASE CommitFails(o, transaction)
  <2>1. Trouble(o) /\ (transaction \/ UNCHANGED dbVars)
    BY <1>7 DEF CommitFails
  <2>2. DbStep /\ \A x \in Orders \ {o} : status'[x] = status[x]
    BY <1>4, <2>1 DEF DbStep, dbVars
  <2> HIDE DEF o, transaction
  <2> QED BY <1>1, <1>2, <1>3, <2>1, <2>2, IdleIsOK, CommitFailsFits DEF Fits
<1> QED BY <1>5, <1>6, <1>7 DEF CancelUpdate

-----------------------------------------------------------------------------
(* The theorems                                                            *)

LEMMA InitInv == OrderInit => OrderInv
<1> SUFFICES ASSUME OrderInit PROVE OrderInv
  OBVIOUS
<1>1. RowsAgree
  BY DEF OrderInit, RowsAgree, Statuses, OutboxTellsStatus, Story, PaidOnce
<1>2. StockTypes /\ ReqTypes /\ SeatsAgree
  BY DEF OrderInit, StockTypes, ReqTypes, SeatsAgree, LateOK, OneHold, Statuses
<1>3. \A r \in Requests : ReqOK(req[r])
  BY DEF OrderInit, ReqOK
<1> QED BY <1>1, <1>2, <1>3 DEF OrderInv

LEMMA NextFits == ASSUME OrderInv, OrderNext PROVE Fits
BY CreateFits, TicketFits, ExpireFits, ForgetFits, LateFits, CrashFits,
   ReserveReadFits, ReserveHoldFits, ReserveUpdateFits, ReserveRecheckFits,
   ReserveCompensateFits, PayReadFits, PayConfirmFits, PayRecordFits,
   CancelReadFits, CancelReleaseFits, CancelUpdateFits
DEF OrderNext

LEMMA NextKeepsInv == OrderInv /\ [OrderNext]_orderVars => OrderInv'
<1> SUFFICES ASSUME OrderInv, [OrderNext]_orderVars PROVE OrderInv'
  OBVIOUS
<1>1. CASE OrderNext
  BY <1>1, NextFits, StepKeepsInv DEF Fits
<1>2. CASE UNCHANGED orderVars
  <2>1. UNCHANGED <<dbVars, callVars, req>> /\ ReqTypes'
    BY <1>2 DEF orderVars, OrderInv, ReqTypes
  <2> QED BY <2>1, ReqOnly, StepKeepsInv
<1> QED BY <1>1, <1>2

(***************************************************************************)
(* The inductive invariant, for all sets of orders, requests and           *)
(* transactions, any capacity and any set of faults.                       *)
(***************************************************************************)
THEOREM OrderInvariant == OrderSpec => []OrderInv
<1> QED BY InitInv, NextKeepsInv, PTL DEF OrderSpec

(***************************************************************************)
(* The rows of an order live the life of the domain object: the guarded    *)
(* updates of service.go and of the ticket worker implement domain/order.go*)
(* whatever interleaves, fails or dies.                                    *)
(***************************************************************************)
THEOREM OrdersLiveTheLife == OrderSpec => LifecycleSpec
<1>1. OrderInit => Lifecycle!Init
  BY DEF OrderInit, Lifecycle!Init
<1>2. OrderInv /\ [OrderNext]_orderVars => [Lifecycle!Next]_status
  BY NextFits, DbIsLifecycle DEF Fits, WorldStep, orderVars, dbVars
<1> QED BY <1>1, <1>2, OrderInvariant, PTL DEF OrderSpec, LifecycleSpec, Lifecycle!Spec

(***************************************************************************)
(* The outbox tells the story of every order: an update of the status and  *)
(* its outbox row are one transaction (UpdateStatusTx), so none of the     *)
(* events is missing, repeated or out of order.                            *)
(***************************************************************************)
THEOREM OutboxFollows == OrderSpec => []OutboxTellsStatus
<1>1. OrderInv => OutboxTellsStatus
  BY DEF OrderInv, RowsAgree
<1> QED BY <1>1, OrderInvariant, PTL

(***************************************************************************)
(* A paid order has one payment and a transaction pays for one order, even *)
(* when callbacks race: the payment and the guarded update are rolled back *)
(* together (PaymentCallback).                                             *)
(***************************************************************************)
THEOREM PaymentsMatch == OrderSpec => []PaymentsMatchOrders
<1>1. OrderInv => PaymentsMatchOrders
  BY FS_EmptySet, FS_Singleton DEF OrderInv, RowsAgree, PaidOnce, PaymentsMatchOrders
<1> QED BY <1>1, OrderInvariant, PTL

(***************************************************************************)
(* However reserves, callbacks and cancels interleave and die, and whatever*)
(* holds they name, a paid order has a seat that was sold under its hold,  *)
(* unless its requests named two holds or the hold of another order, or    *)
(* the hold expired, was lost or released, or a call or the database       *)
(* reported an error (resolveHoldConfig, ReserveOrder, PaymentCallback).   *)
(***************************************************************************)
THEOREM PaidOrdersHaveSeats == OrderSpec => []UntroubledPaidHasSeat
<1>1. OrderInv => UntroubledPaidHasSeat
  BY DEF OrderInv, SeatsAgree, UntroubledPaidHasSeat
<1> QED BY <1>1, OrderInvariant, PTL

-----------------------------------------------------------------------------
(* The types, with the bound on the seats.                                 *)

-----------------------------------------------------------------------------
(* The types, with the bound on the seats.                                 *)

\* The seats of a partition that are not available, one by one: number 0 for a
\* hold, the others for what was sold under it.
SeatsTaken(p) ==
  {s \in Holds \X Nat :
     PartitionOf[s[1]] = p /\ IF s[2] = 0 THEN s[1] \in held ELSE s[2] <= sold[s[1]]}

\* No seat is lost and none appears.  A sum over all holds, told by counting.
SeatsCounted ==
  \A p \in Partitions :
    IsFiniteSet(SeatsTaken(p)) /\ avail[p] + Cardinality(SeatsTaken(p)) = Seats

\* What a step does to one hold, the other partitions do not see.
LEMMA OthersCounted ==
  ASSUME StockTypes, SeatsCounted, NEW h \in Holds, NEW p \in Partitions, p # PartitionOf[h],
         avail'[p] = avail[p],
         \A g \in Holds \ {h} : sold'[g] = sold[g] /\ (g \in held' <=> g \in held)
  PROVE  IsFiniteSet(SeatsTaken(p)') /\ avail'[p] + Cardinality(SeatsTaken(p)') = Seats
<1>1. SeatsTaken(p)' = SeatsTaken(p)
  BY DEF SeatsTaken
<1> QED BY <1>1 DEF SeatsCounted

\* A seat of the partition gives way to another one.
LEMMA SwapCounts ==
  ASSUME SeatsCounted, NEW p \in Partitions, NEW a, NEW b, avail'[p] = avail[p],
         avail[p] \in Nat, a \in SeatsTaken(p), b \notin SeatsTaken(p),
         SeatsTaken(p)' = (SeatsTaken(p) \ {a}) \cup {b}
  PROVE  IsFiniteSet(SeatsTaken(p)') /\ avail'[p] + Cardinality(SeatsTaken(p)') = Seats
<1> DEFINE all == SeatsTaken(p)
           rest == all \ {a}
<1>1. IsFiniteSet(all) /\ Cardinality(all) \in Nat /\ avail[p] + Cardinality(all) = Seats
  BY FS_CardinalityType DEF SeatsCounted
<1>2. IsFiniteSet(rest) /\ Cardinality(rest) = Cardinality(all) - 1
  <2> HIDE DEF all
  <2> QED BY <1>1, FS_RemoveElement DEF all
<1>3. b \notin rest
  OBVIOUS
<1>4. IsFiniteSet(rest \cup {b}) /\ Cardinality(rest \cup {b}) = Cardinality(rest) + 1
  <2> HIDE DEF rest
  <2> QED BY <1>2, <1>3, FS_AddElement
<1>5. Cardinality(rest \cup {b}) = Cardinality(all)
  <2> HIDE DEF all, rest
  <2> QED BY <1>1, <1>2, <1>4
<1> QED BY <1>1, <1>4, <1>5

\* What a command does to the seats: it adds one, takes one away, or swaps one for
\* another.
LEMMA RunCounts ==
  ASSUME StockTypes, SeatsCounted, NEW command \in Commands, NEW h \in Holds, Run(command, h)
  PROVE  SeatsCounted'
<1> SUFFICES ASSUME NEW p \in Partitions
             PROVE  IsFiniteSet(SeatsTaken(p)') /\ avail'[p] + Cardinality(SeatsTaken(p)') = Seats
  BY DEF SeatsCounted
<1>1. PartitionOf[h] \in Partitions
  BY DEF Partitions
<1>2. CASE p # PartitionOf[h]
  <2>1. /\ avail'[p] = avail[p]
        /\ \A g \in Holds \ {h} : sold'[g] = sold[g] /\ (g \in held' <=> g \in held)
    BY <1>1, <1>2 DEF Run, Commands, Granted, Take, Released, Confirmed, StockTypes
  <2> QED BY <1>2, <2>1, OthersCounted
<1>3. CASE p = PartitionOf[h]
  <2> DEFINE all == SeatsTaken(p)
             token == <<h, 0>>
  <2>1. /\ sold \in [Holds -> Nat] /\ sold[h] \in Nat /\ avail[p] \in Nat /\ held \subseteq Holds
        /\ IsFiniteSet(all) /\ Cardinality(all) \in Nat
        /\ avail[p] + Cardinality(all) = Seats
    BY FS_CardinalityType DEF StockTypes, SeatsCounted
  <2>2. token \in all <=> h \in held
    BY <1>3 DEF SeatsTaken
  <2>3. CASE command = "try-hold"
    <3>1. /\ held' = held \cup {h} /\ sold' = sold
          /\ avail'[p] = IF h \in held THEN avail[p] ELSE avail[p] - 1
      BY <1>3, <2>3 DEF Run, Granted, Take, StockTypes
    <3>2. SeatsTaken(p)' = all \cup {token}
      BY <1>3, <3>1 DEF SeatsTaken
    <3>3. /\ IsFiniteSet(all \cup {token})
          /\ Cardinality(all \cup {token}) =
               IF h \in held THEN Cardinality(all) ELSE Cardinality(all) + 1
      <4> HIDE DEF all, token
      <4> QED BY <2>1, <2>2, FS_AddElement
    <3> HIDE DEF all, token
    <3> QED BY <2>1, <3>1, <3>2, <3>3
  <2>4. CASE command = "release-hold"
    <3>1. h \in held /\ held' = held \ {h} /\ sold' = sold /\ avail'[p] = avail[p] + 1
      BY <1>3, <2>4 DEF Run, Released, StockTypes
    <3>2. SeatsTaken(p)' = all \ {token}
      BY <1>3, <3>1 DEF SeatsTaken
    <3>3. IsFiniteSet(all \ {token}) /\ Cardinality(all \ {token}) = Cardinality(all) - 1
      <4> HIDE DEF all, token
      <4> QED BY <2>1, <2>2, <3>1, FS_RemoveElement
    <3> HIDE DEF all, token
    <3> QED BY <2>1, <3>1, <3>2, <3>3
  <2>5. CASE command = "confirm-hold"
    <3> DEFINE seat == <<h, sold[h] + 1>>
    <3>1. /\ h \in held /\ held' = held \ {h} /\ avail' = avail
          /\ sold' = [sold EXCEPT ![h] = sold[h] + 1]
      BY <2>5 DEF Run, Confirmed
    <3>2. seat \notin all /\ seat \in Holds \X Nat /\ seat[2] # 0
      BY <2>1 DEF SeatsTaken
    <3>3. SeatsTaken(p)' = (all \ {token}) \cup {seat}
      <4>1. ASSUME NEW s \in Holds \X Nat
            PROVE  s \in SeatsTaken(p)' <=> s \in (all \ {token}) \cup {seat}
        <5>1. CASE s[1] # h
          BY <2>1, <3>1, <5>1 DEF SeatsTaken
        <5>2. CASE s[1] = h
          <6>1. s = <<h, s[2]>> /\ s[2] \in Nat
            BY <5>2
          <6>2. sold'[h] = sold[h] + 1 /\ h \notin held'
            BY <2>1, <3>1
          <6>3. CASE s[2] = 0
            BY <1>3, <2>1, <6>1, <6>2, <6>3 DEF SeatsTaken
          <6>4. CASE s[2] # 0
            <7>1. s \in SeatsTaken(p)' <=> s[2] <= sold[h] + 1
              BY <1>3, <5>2, <6>2, <6>4 DEF SeatsTaken
            <7>2. s \in all \ {token} <=> s[2] <= sold[h]
              BY <1>3, <5>2, <6>1, <6>4 DEF SeatsTaken
            <7>3. s = seat <=> s[2] = sold[h] + 1
              BY <6>1
            <7> QED BY <2>1, <6>1, <7>1, <7>2, <7>3
          <6> QED BY <6>3, <6>4
        <5> QED BY <5>1, <5>2
      <4>2. SeatsTaken(p)' \subseteq Holds \X Nat /\ (all \ {token}) \cup {seat} \subseteq Holds \X Nat
        BY <3>2 DEF SeatsTaken
      <4> HIDE DEF all, token, seat
      <4> QED BY <4>1, <4>2
    <3>4. avail'[p] = avail[p] /\ token \in all
      BY <2>2, <3>1
    <3> HIDE DEF seat, token
    <3> QED BY <2>1, <3>2, <3>3, <3>4, SwapCounts
  <2> QED BY <2>3, <2>4, <2>5 DEF Commands
<1> QED BY <1>2, <1>3

LEMMA UnconfirmedCounts ==
  ASSUME StockTypes, SeatsCounted, NEW h \in Holds, Unconfirmed(h)
  PROVE  SeatsCounted'
<1> SUFFICES ASSUME NEW p \in Partitions
             PROVE  IsFiniteSet(SeatsTaken(p)') /\ avail'[p] + Cardinality(SeatsTaken(p)') = Seats
  BY DEF SeatsCounted
<1>1. /\ h \notin held /\ held' = held \cup {h} /\ avail' = avail
      /\ sold[h] >= 1 /\ sold' = [sold EXCEPT ![h] = sold[h] - 1]
      /\ sold \in [Holds -> Nat] /\ sold[h] \in Nat /\ avail[p] \in Nat /\ held \subseteq Holds
  BY DEF Unconfirmed, StockTypes
<1>2. CASE p # PartitionOf[h]
  <2>1. \A g \in Holds \ {h} : sold'[g] = sold[g] /\ (g \in held' <=> g \in held)
    BY <1>1
  <2> QED BY <1>1, <1>2, <2>1, OthersCounted
<1>3. CASE p = PartitionOf[h]
  <2> DEFINE all == SeatsTaken(p)
             token == <<h, 0>>
             seat == <<h, sold[h]>>
  <2>1. token \notin all /\ seat \in all /\ token \in Holds \X Nat /\ seat[2] # 0
    BY <1>1, <1>3 DEF SeatsTaken
  <2>2. SeatsTaken(p)' = (all \ {seat}) \cup {token}
    <3>1. ASSUME NEW s \in Holds \X Nat
          PROVE  s \in SeatsTaken(p)' <=> s \in (all \ {seat}) \cup {token}
      <4>1. CASE s[1] # h
        BY <1>1, <4>1 DEF SeatsTaken
      <4>2. CASE s[1] = h
        <5>1. s = <<h, s[2]>> /\ s[2] \in Nat
          BY <4>2
        <5>2. sold'[h] = sold[h] - 1 /\ h \in held'
          BY <1>1
        <5>3. CASE s[2] = 0
          BY <1>1, <1>3, <5>1, <5>2, <5>3 DEF SeatsTaken
        <5>4. CASE s[2] # 0
          <6>1. s \in SeatsTaken(p)' <=> s[2] <= sold[h] - 1
            BY <1>3, <4>2, <5>2, <5>4 DEF SeatsTaken
          <6>2. s \in all <=> s[2] <= sold[h]
            BY <1>3, <4>2, <5>1, <5>4 DEF SeatsTaken
          <6>3. (s = seat <=> s[2] = sold[h]) /\ s # token
            BY <5>1, <5>4
          <6> QED BY <1>1, <5>1, <6>1, <6>2, <6>3
        <5> QED BY <5>3, <5>4
      <4> QED BY <4>1, <4>2
    <3>2. SeatsTaken(p)' \subseteq Holds \X Nat /\ (all \ {seat}) \cup {token} \subseteq Holds \X Nat
      BY <2>1 DEF SeatsTaken
    <3> HIDE DEF all, token, seat
    <3> QED BY <3>1, <3>2
  <2>3. avail'[p] = avail[p] /\ avail[p] \in Nat
    BY <1>1
  <2> HIDE DEF seat, token
  <2> QED BY <2>1, <2>2, <2>3, SwapCounts
<1> QED BY <1>2, <1>3

\* Nobody else touches the seats.
LEMMA StepRuns ==
  ASSUME OrderInv, OrderNext
  PROVE  \/ UNCHANGED stockVars
         \/ \E command \in Commands, h \in Holds : Run(command, h)
         \/ \E h \in Holds : Unconfirmed(h)
<1> DEFINE Runs == \/ UNCHANGED stockVars
                   \/ \E command \in Commands, h \in Holds : Run(command, h)
                   \/ \E h \in Holds : Unconfirmed(h)
<1>1. ASSUME NEW command \in Commands, NEW o, NEW h \in Holds,
             CallEnds(command, h) \/ CallOk(command, h) \/ CallFails(command, o, h)
      PROVE  Runs
  BY <1>1 DEF CallEnds, CallOk, CallNotFound, CallFails, callVars
<1>2. ASSUME NEW o \in Orders, CreateOrder(o) \/ TicketOrder(o) PROVE Runs
  BY <1>2 DEF CreateOrder, TicketOrder, callVars
<1>3. ASSUME NEW h \in Holds, Expire(h) \/ Forget(h) PROVE Runs
  <2>1. Released(h) => Run("release-hold", h) /\ "release-hold" \in Commands
    BY DEF Run, Commands
  <2> QED BY <1>3, <2>1 DEF Expire, Forget
<1>4. CASE LateCall
  <2>1. PICK c \in late : Run(c[1], c[2]) \/ UNCHANGED stockVars
    BY <1>4 DEF LateCall
  <2>2. c[1] \in Commands /\ c[2] \in Holds
    BY DEF OrderInv, StockTypes, Commands
  <2> QED BY <2>1, <2>2
<1>5. ASSUME NEW r \in Requests,
             \/ ReserveHold(r) \/ ReserveCompensate(r) \/ PayConfirm(r) \/ CancelRelease(r)
      PROVE  Runs
  <2>1. req[r].hold \in Holds
    BY <1>5, RequestMoves
       DEF ReserveHold, ReserveCompensate, PayConfirm, CancelRelease
  <2>2. "try-hold" \in Commands /\ "release-hold" \in Commands /\ "confirm-hold" \in Commands
    BY DEF Commands
  <2>3. \/ UNCHANGED stockVars
        \/ \E command \in Commands : \/ CallEnds(command, req[r].hold)
                                     \/ CallOk(command, req[r].hold)
                                     \/ CallFails(command, req[r].order, req[r].hold)
    BY <1>5, <2>2
       DEF ReserveHold, ReserveCompensate, PayConfirm, CancelRelease, callVars
  <2> QED BY <1>1, <2>1, <2>3
<1>6. ASSUME NEW r \in Requests,
             ReserveUpdate(r) \/ ReserveRecheck(r) \/ PayRecord(r) \/ CancelUpdate(r)
      PROVE  UNCHANGED stockVars
  BY <1>6 DEF ReserveUpdate, ReserveRecheck, PayRecord, CancelUpdate
<1>7. ASSUME NEW r \in Requests, NEW o \in Orders, NEW h \in Holds,
             \/ ReserveRead(r, o, h) \/ CancelRead(r, o, h)
             \/ \E txn \in Txns : PayRead(r, o, h, txn)
      PROVE  UNCHANGED stockVars
  BY <1>7 DEF ReserveRead, CancelRead, PayRead
<1>8. CASE Crash
  BY <1>8 DEF Crash, callVars
<1> HIDE DEF Runs
<1> QED
  <2>1. Runs => \/ UNCHANGED stockVars
                \/ \E command \in Commands, h \in Holds : Run(command, h)
                \/ \E h \in Holds : Unconfirmed(h)
    BY DEF Runs
  <2>2. UNCHANGED stockVars => Runs
    BY DEF Runs
  <2> QED BY <1>2, <1>3, <1>4, <1>5, <1>6, <1>7, <1>8, <2>1, <2>2 DEF OrderNext

LEMMA InvTypes == ASSUME OrderInv, SeatsCounted PROVE OrderTypeOK
<1>1. /\ sold \in [Holds -> Nat] /\ avail \in [Partitions -> Nat] /\ Seats \in Nat
      /\ \A p \in Partitions :
           /\ IsFiniteSet(SeatsTaken(p)) /\ Cardinality(SeatsTaken(p)) \in Nat
           /\ avail[p] + Cardinality(SeatsTaken(p)) = Seats
  BY FS_CardinalityType, OrderAssumption DEF OrderInv, StockTypes, SeatsCounted, OrderAssumption
<1>2. avail \in [Partitions -> 0..Seats]
  BY <1>1
<1>3. ASSUME NEW h \in Holds PROVE sold[h] \in 0..Seats
  <2> DEFINE n == sold[h]
             p == PartitionOf[h]
             seats == {<<h, i>> : i \in 1..n}
  <2>1. n \in Nat /\ 1 \in Int /\ n \in Int /\ p \in Partitions
    BY <1>1 DEF Partitions
  <2>2. IsFiniteSet(1..n) /\ Cardinality(1..n) = n
    <3> HIDE DEF n
    <3>1. IsFiniteSet(1..n) /\ Cardinality(1..n) = IF 1 > n THEN 0 ELSE n - 1 + 1
      BY ONLY <2>1, FS_Interval
    <3> QED BY ONLY <2>1, <3>1
  <2>3. Cardinality(seats) = n
    <3> DEFINE f == [i \in 1..n |-> <<h, i>>]
    <3>1. f \in [1..n -> seats]
      OBVIOUS
    <3>2. \A i, j \in 1..n : f[i] = f[j] => i = j
      OBVIOUS
    <3>3. \A s \in seats : \E i \in 1..n : f[i] = s
      OBVIOUS
    <3> HIDE DEF f, seats, n
    <3>4. f \in Injection(1..n, seats)
      BY ONLY <3>1, <3>2 DEF Injection, IsInjective
    <3>5. f \in Surjection(1..n, seats)
      BY ONLY <3>1, <3>3 DEF Surjection
    <3>6. ExistsBijection(1..n, seats)
      BY ONLY <3>4, <3>5 DEF ExistsBijection, Bijection
    <3> QED BY ONLY <2>2, <3>6, FS_Bijection
  <2>4. seats \subseteq SeatsTaken(p)
    BY <2>1 DEF SeatsTaken
  <2>5. /\ IsFiniteSet(SeatsTaken(p)) /\ Cardinality(SeatsTaken(p)) \in Nat
        /\ avail[p] \in Nat /\ avail[p] + Cardinality(SeatsTaken(p)) = Seats
    BY <1>1, <2>1
  <2> HIDE DEF seats, p
  <2>6. n <= Cardinality(SeatsTaken(p))
    BY <2>3, <2>4, <2>5, FS_Subset
  <2> QED BY <1>1, <2>1, <2>5, <2>6
<1>4. outbox \in [Orders -> Seq(EventTypes)]
  BY DEF OrderInv, RowsAgree
<1>5. sold \in [Holds -> 0..Seats]
  BY <1>1, <1>3
<1>6. \A r \in Requests :
        \/ req[r] = NoReq
        \/ req[r] \in [at : Steps, order : Orders, hold : Holds, txn : Txns \cup {Nil},
                       seen : Statuses]
  BY DEF OrderInv, ReqTypes, RequestRecords
<1> QED BY <1>2, <1>4, <1>5, <1>6
     DEF OrderTypeOK, OrderInv, RowsAgree, StockTypes, EventTypes

(***************************************************************************)
(* Everything keeps its type, and the seats available, held and sold in a  *)
(* partition never exceed its capacity, with late calls, retries, expiries *)
(* and restarts, whatever holds the requests name (resolveHoldConfig).     *)
(***************************************************************************)
THEOREM OrderTypes == OrderSpec => []OrderTypeOK
<1>1. OrderInit => SeatsCounted
  <2> SUFFICES ASSUME OrderInit, NEW p \in Partitions
               PROVE  IsFiniteSet(SeatsTaken(p)) /\ avail[p] + Cardinality(SeatsTaken(p)) = Seats
    BY DEF SeatsCounted
  <2>1. SeatsTaken(p) = {} /\ avail[p] = Seats
    BY DEF OrderInit, SeatsTaken
  <2> QED BY <2>1, FS_EmptySet, OrderAssumption DEF OrderAssumption
<1>2. OrderInv /\ SeatsCounted /\ [OrderNext]_orderVars => SeatsCounted'
  <2> SUFFICES ASSUME OrderInv, SeatsCounted, [OrderNext]_orderVars PROVE SeatsCounted'
    OBVIOUS
  <2>1. ASSUME UNCHANGED stockVars PROVE SeatsCounted'
    BY <2>1 DEF stockVars, SeatsCounted, SeatsTaken
  <2>2. CASE OrderNext
    BY <2>1, <2>2, StepRuns, RunCounts, UnconfirmedCounts DEF OrderInv
  <2>3. CASE UNCHANGED orderVars
    BY <2>1, <2>3 DEF orderVars, callVars
  <2> QED BY <2>2, <2>3
<1>3. OrderInv /\ SeatsCounted => OrderTypeOK
  BY InvTypes
<1> QED BY <1>1, <1>2, <1>3, OrderInvariant, PTL DEF OrderSpec
=============================================================================
