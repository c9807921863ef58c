------------------------- MODULE BookingFlowsProofs -------------------------
(***************************************************************************)
(* That flows which run side by side stay apart and that what a history    *)
(* shows as ok is done, for all sets of tabs, keys, transactions, holds,   *)
(* and any number of flows, clicks, errors and lost answers.               *)
(*                                                                         *)
(* The argument: an order only ever moves on, and a payment, once taken,   *)
(* stays (Grows), so whatever an ok answer said remains true; an answer is *)
(* made when its request is done, and travels until it is recorded.  The   *)
(* invariant follows what was done from the service (ServerOK) through the *)
(* answers (AnswersOK) to the histories (ItemsDone).                       *)
(***************************************************************************)
EXTENDS BookingFlows, ConsoleProofs

\* The services: whoever paid is paid.
ServerOK ==
  /\ orders \in [Keys -> {"none", "INIT", "RESERVED", "PAID"}]
  /\ payments \in [Txns -> Keys \cup {Nil}]
  /\ holds \subseteq DraftChoices["holdId"]
  /\ \A x \in Txns, o \in Keys : payments[x] = o => orders[o] = "PAID"

PageOK ==
  /\ now \in 1 .. MaxClock
  /\ polling \in [Tabs -> BOOLEAN] /\ timers \in [Tabs -> SUBSET Keys]
  /\ \A t \in Tabs, o, p \in Keys : {o, p} \subseteq timers[t] => o = p
  /\ troubles \in 0 .. MaxTroubles

\* A request that was done, of an order that exists.
Made(r) == (r.op \in OrderOps => r.order \in Keys) /\ Done(r)

\* An answer belongs to one call of a tab, and says what was done.
AnswersOK ==
  /\ answers \subseteq [id : 1 .. sent, ok : BOOLEAN, data : Keys \cup {Nil}]
  /\ \A a \in answers : \E c \in calls : c.id = a.id /\ c.tab # Nil
  /\ \A a, b \in answers : a.id = b.id => a = b
  /\ \A c \in calls, a \in answers : a.id = c.id /\ a.ok =>
        Made(c.req) /\ (c.req.op \in OrderOps => a.data = c.req.order)

ItemsDone == \A x \in Items : x.ok => Made(x.req)

\* FlowsAreApart for one call.
Apart(c) ==
  /\ c.then.kind = "order" =>
        /\ c.req.order = c.then.key
        /\ c.req.op = "reserve" => orders[c.then.key] # "none"
        /\ c.req.op = "pay" => /\ c.req.txn = c.then.txn
                              /\ orders[c.then.key] \in {"RESERVED", "PAID"}
        /\ c.req.op = "view" => Settled(c.then.key, c.then.txn)
  /\ c.then.kind = "hold" => c.req.hold \in {c.then.hold, Nil}

FlowInv ==
  /\ Kempt(Drafts)
  /\ Numbered
  /\ ServerOK
  /\ PageOK
  /\ AnswersOK
  /\ ItemsDone
  /\ \A c \in calls : Apart(c)

\* What the services never take back.
Grows ==
  /\ \A o \in Keys :
        /\ orders[o] # "none" => orders'[o] # "none"
        /\ orders[o] \in {"RESERVED", "PAID"} => orders'[o] \in {"RESERVED", "PAID"}
        /\ orders[o] = "PAID" => orders'[o] = "PAID"
  /\ \A x \in Txns : payments[x] # Nil => payments'[x] = payments[x]

USE FlowAssumption

-----------------------------------------------------------------------------
(* Requests and the services                                               *)

LEMMA RequestFields ==
  ASSUME NEW r \in Requests
  PROVE  /\ r.order \in Keys \cup {Nil}
         /\ r.op \in {"hold", "confirm", "release"} => r.hold \in DraftChoices["holdId"]
         /\ r.op = "create" => r.order \in Keys
         /\ r.op = "pay" => r.txn \in Txns
         /\ r.op \in {"create", "reserve", "get", "view", "pay", "hold", "confirm",
                      "release", "available"}
BY DEF FlowRequests

LEMMA ContinuationFields ==
  ASSUME NEW f \in Continuations
  PROVE  /\ f.kind = "order" =>
               f.key \in Keys /\ f.txn \in Txns /\ f.status \in DraftChoices["paymentStatus"]
         /\ f.kind = "hold" => f.hold \in DraftChoices["holdId"]
BY DEF FlowContinuations

LEMMA RequestsMade ==
  ASSUME NEW o \in Keys \cup {Nil}
  PROVE  /\ \A op \in {"reserve", "get", "view"} : OrderReq(op, o) \in Requests
         /\ o \in Keys => OrderReq("create", o) \in Requests
         /\ \A x \in Txns, s \in DraftChoices["paymentStatus"] : PayReq(o, x, s) \in Requests
         /\ \A op \in {"hold", "confirm", "release"}, h \in DraftChoices["holdId"] :
              HoldReq(op, h) \in Requests
         /\ HoldReq("available", Nil) \in Requests
<1>1. \A op : OrderReq(op, o) = [op |-> op, order |-> o, txn |-> Nil, status |-> Nil, hold |-> Nil]
  BY DEF OrderReq
<1>2. ASSUME NEW x, NEW s
      PROVE  PayReq(o, x, s) = [op |-> "pay", order |-> o, txn |-> x, status |-> s, hold |-> Nil]
  <2> DEFINE r == [op |-> "pay", order |-> o, txn |-> Nil, status |-> Nil, hold |-> Nil]
             q == [op |-> "pay", order |-> o, txn |-> x, status |-> Nil, hold |-> Nil]
  <2>1. OrderReq("pay", o) = r
    BY <1>1
  <2>2. [r EXCEPT !.txn = x] = q
    OBVIOUS
  <2>3. [q EXCEPT !.status = s] = [op |-> "pay", order |-> o, txn |-> x, status |-> s, hold |-> Nil]
    OBVIOUS
  <2>4. PayReq(o, x, s) = [[r EXCEPT !.txn = x] EXCEPT !.status = s]
    BY <2>1 DEF PayReq
  <2> HIDE DEF r, q
  <2> QED BY <2>2, <2>3, <2>4
<1>3. \A op, h : HoldReq(op, h) = [op |-> op, order |-> Nil, txn |-> Nil, status |-> Nil, hold |-> h]
  BY DEF HoldReq, OrderReq
<1>4. \A op \in {"reserve", "get", "view"} : OrderReq(op, o) \in Requests
  BY <1>1 DEF FlowRequests
<1>5. o \in Keys => OrderReq("create", o) \in Requests
  BY <1>1 DEF FlowRequests
<1>6. \A x \in Txns, s \in DraftChoices["paymentStatus"] : PayReq(o, x, s) \in Requests
  BY <1>2 DEF FlowRequests
<1>7. /\ \A op \in {"hold", "confirm", "release"}, h \in DraftChoices["holdId"] :
            HoldReq(op, h) \in Requests
      /\ HoldReq("available", Nil) \in Requests
  BY <1>3 DEF FlowRequests
<1> QED BY <1>4, <1>5, <1>6, <1>7

\* Whatever is done stays done.
LEMMA MadeStays ==
  ASSUME ServerOK, Grows, NEW r \in Requests, Made(r)
  PROVE  Made(r)'
<1>1. /\ r.op = "create" => r.order \in Keys
      /\ r.op = "pay" => r.txn \in Txns
      /\ r.op \in {"create", "reserve", "pay"} => r.order \in Keys
  BY RequestFields DEF Made, OrderOps
<1>2. CASE r.op = "create"
  BY <1>1, <1>2 DEF Made, Done, Grows
<1>3. CASE r.op = "reserve"
  BY <1>1, <1>3 DEF Made, Done, Grows
<1>4. CASE r.op = "pay"
  BY <1>1, <1>4 DEF Made, Done, Settled, Grows
<1>5. CASE r.op \notin {"create", "reserve", "pay"}
  BY <1>5 DEF Made, Done, OrderOps
<1> QED BY <1>2, <1>3, <1>4, <1>5

LEMMA ApartStays ==
  ASSUME Grows, NEW c \in Call, Apart(c)
  PROVE  Apart(c)'
<1>1. c.then.kind = "order" => c.then.key \in Keys /\ c.then.txn \in Txns
  BY ContinuationFields DEF Call
<1> QED BY <1>1 DEF Apart, Settled, Grows

LEMMA NothingDone ==
  ASSUME ServerOK, UNCHANGED serverVars
  PROVE  ServerOK' /\ Grows
BY DEF ServerOK, Grows, serverVars

\* Serving moves orders on; done again, it changes no order and no payment.
LEMMA DoKeeps ==
  ASSUME ServerOK, NEW r \in Requests, Accepts(r), Do(r)
  PROVE  /\ ServerOK' /\ Grows /\ Made(r)'
         /\ Made(r) => UNCHANGED <<orders, payments>>
<1>1. CASE r.op = "create"
  <2>1. DoCreate(r.order) /\ r.order \in Keys
    BY <1>1, RequestFields DEF Do
  <2>2. ServerOK'
    BY <2>1 DEF DoCreate, ServerOK
  <2>3. Grows
    BY <2>1 DEF DoCreate, ServerOK, Grows
  <2>4. orders'[r.order] # "none"
    BY <2>1 DEF DoCreate, ServerOK
  <2>5. Made(r)'
    BY <1>1, <2>1, <2>4 DEF Made, Done
  <2>6. Made(r) => UNCHANGED <<orders, payments>>
    BY <1>1, <2>1 DEF DoCreate, Made, Done
  <2> QED BY <2>2, <2>3, <2>5, <2>6
<1>2. CASE r.op = "reserve"
  <2>1. DoReserve(r.order) /\ r.order \in Keys /\ orders[r.order] \in {"INIT", "RESERVED"}
    BY <1>2 DEF Do, Accepts
  <2>2. ServerOK'
    BY <2>1 DEF DoReserve, ServerOK
  <2>3. Grows
    BY <2>1 DEF DoReserve, ServerOK, Grows
  <2>4. orders'[r.order] = "RESERVED"
    BY <2>1 DEF DoReserve, ServerOK
  <2>5. Made(r)'
    BY <1>2, <2>1, <2>4 DEF Made, Done
  <2>6. Made(r) => UNCHANGED <<orders, payments>>
    BY <1>2, <2>1 DEF DoReserve, Made, Done, ServerOK
  <2> QED BY <2>2, <2>3, <2>5, <2>6
<1>3. CASE r.op = "pay"
  <2>1. DoPay(r.order, r.txn) /\ r.order \in Keys /\ orders[r.order] \in {"RESERVED", "PAID"}
        /\ r.txn \in Txns
    BY <1>3, RequestFields DEF Do, Accepts
  <2>2. CASE orders[r.order] = "RESERVED" /\ payments[r.txn] = Nil
    <3>1. /\ orders' = [orders EXCEPT ![r.order] = "PAID"]
          /\ payments' = [payments EXCEPT ![r.txn] = r.order] /\ holds' = holds
      BY <2>1, <2>2 DEF DoPay
    <3>2. ServerOK'
      BY <2>1, <3>1 DEF ServerOK
    <3>3. Grows
      BY <2>1, <2>2, <3>1 DEF ServerOK, Grows
    <3>4. orders'[r.order] = "PAID"
      BY <2>1, <3>1 DEF ServerOK
    <3>5. Made(r)'
      BY <1>3, <2>1, <3>4 DEF Made, Done, Settled
    <3>6. ~Made(r)
      BY <1>3, <2>1, <2>2 DEF Made, Done, Settled
    <3> QED BY <3>2, <3>3, <3>5, <3>6
  <2>3. CASE ~(orders[r.order] = "RESERVED" /\ payments[r.txn] = Nil)
    <3>1. UNCHANGED serverVars
      BY <2>1, <2>3 DEF DoPay, serverVars
    <3>2. Settled(r.order, r.txn)
      BY <2>1, <2>3 DEF Settled, ServerOK
    <3>3. Made(r)'
      BY <1>3, <2>1, <3>1, <3>2 DEF Made, Done, Settled, serverVars
    <3> QED BY <3>1, <3>3, NothingDone DEF serverVars
  <2> QED BY <2>2, <2>3
<1>4. CASE r.op \in {"hold", "confirm", "release"}
  <2>1. DoHold(r)
    BY <1>4 DEF Do
  <2>2. UNCHANGED <<orders, payments>> /\ holds' \subseteq DraftChoices["holdId"]
    BY <1>4, <2>1, RequestFields DEF DoHold, ServerOK
  <2> QED BY <1>4, <2>1, <2>2 DEF ServerOK, Grows, Made, Done, OrderOps
<1>5. CASE r.op \in {"get", "view", "available"}
  <2>1. UNCHANGED serverVars
    BY <1>5 DEF Do
  <2> QED BY <1>5, <2>1, NothingDone DEF Made, Done, OrderOps, serverVars
<1> QED BY <1>1, <1>2, <1>3, <1>4, <1>5, RequestFields

-----------------------------------------------------------------------------
(* Calls and answers                                                       *)

\* Calls lose their tab, and the answers that were there for them.
LEMMA AbandonKeeps ==
  ASSUME FlowInv, NEW cs \in SUBSET calls, Abandon(cs), UNCHANGED <<sent, serverVars>>,
         result' \in [Tabs -> 0 .. sent]
  PROVE  Numbered' /\ AnswersOK' /\ \A c \in calls' : Apart(c)'
<1>1. calls \subseteq Call
  BY DEF FlowInv, Numbered
<1>2. \A d \in calls' : \E c \in calls :
         /\ d \in Call /\ d.id = c.id /\ d.req = c.req /\ d.then = c.then
         /\ (d = c /\ c \notin cs) \/ (c \in cs /\ d = [c EXCEPT !.tab = Nil])
  <2> SUFFICES ASSUME NEW d \in calls'
               PROVE  \E c \in calls :
                        /\ d \in Call /\ d.id = c.id /\ d.req = c.req /\ d.then = c.then
                        /\ (d = c /\ c \notin cs) \/ (c \in cs /\ d = [c EXCEPT !.tab = Nil])
    OBVIOUS
  <2>1. CASE d \in calls \ cs
    BY <1>1, <2>1
  <2>2. CASE \E c \in cs : d = [c EXCEPT !.tab = Nil]
    <3>1. PICK c \in cs : d = [c EXCEPT !.tab = Nil]
      BY <2>2
    <3>2. c \in Call
      BY <1>1
    <3>3. d \in Call /\ d.id = c.id /\ d.req = c.req /\ d.then = c.then
      BY <3>1, <3>2 DEF Call
    <3> QED BY <3>1, <3>3
  <2> QED BY <2>1, <2>2 DEF Abandon
<1>3. \A c, d \in calls' : c.id = d.id => c = d
  BY <1>2 DEF FlowInv, Numbered
<1>4. Numbered'
  BY <1>2, <1>3, NumberedKept DEF FlowInv
<1>5. Grows
  BY NothingDone DEF FlowInv
<1>6. \A c \in calls' : Apart(c)'
  <2> SUFFICES ASSUME NEW d \in calls' PROVE Apart(d)'
    OBVIOUS
  <2>1. PICK c \in calls : d \in Call /\ d.req = c.req /\ d.then = c.then
    BY <1>2
  <2>2. Apart(d)
    BY <2>1 DEF FlowInv, Apart
  <2> QED BY <1>5, <2>1, <2>2, ApartStays
<1>7. answers' \subseteq answers
  BY DEF Abandon
<1>8. ASSUME NEW a \in answers' PROVE \E c \in calls' : c.id = a.id /\ c.tab # Nil
  <2>1. PICK c \in calls : c.id = a.id /\ c.tab # Nil
    BY <1>7 DEF FlowInv, AnswersOK
  <2>2. c \notin cs
    BY <1>8, <2>1 DEF Abandon
  <2> QED BY <2>1, <2>2 DEF Abandon
<1>9. ASSUME NEW d \in calls', NEW a \in answers', a.id = d.id, a.ok
      PROVE  Made(d.req)' /\ (d.req.op \in OrderOps => a.data = d.req.order)
  <2>1. PICK c \in calls : c.id = d.id /\ d.req = c.req
    BY <1>2
  <2>2. Made(c.req) /\ (c.req.op \in OrderOps => a.data = c.req.order)
    BY <1>7, <1>9, <2>1 DEF FlowInv, AnswersOK
  <2>3. c.req \in Requests
    BY <1>1 DEF Call
  <2> QED BY <1>5, <2>1, <2>2, <2>3, MadeStays DEF FlowInv
<1>10. AnswersOK'
  <2>1. answers' \subseteq [id : 1 .. sent', ok : BOOLEAN, data : Keys \cup {Nil}]
    BY <1>7 DEF FlowInv, AnswersOK
  <2>2. \A a, b \in answers' : a.id = b.id => a = b
    BY <1>7 DEF FlowInv, AnswersOK
  <2> QED BY <1>8, <1>9, <2>1, <2>2 DEF AnswersOK
<1> QED BY <1>4, <1>6, <1>10

\* The calls that were there keep to their flows and answers, whatever was served.
LEMMA StaysAnswered ==
  ASSUME FlowInv, Grows, NEW c \in calls, NEW a \in answers, a.id = c.id, a.ok
  PROVE  Made(c.req)' /\ (c.req.op \in OrderOps => a.data = c.req.order)
<1>1. Made(c.req) /\ (c.req.op \in OrderOps => a.data = c.req.order)
  BY DEF FlowInv, AnswersOK
<1>2. c.req \in Requests
  BY DEF FlowInv, Numbered, Call
<1> QED BY <1>1, <1>2, MadeStays DEF FlowInv

\* Some calls are sent, and none that was answered is gone but with its answer.
LEMMA SentKeeps ==
  ASSUME FlowInv, Numbered', UNCHANGED serverVars, answers' \subseteq answers,
         sent' \in {sent, sent + 1},
         \A d \in calls' : d \in calls \/ (d.id = sent + 1 /\ Apart(d)),
         \A c \in calls : c \in calls' \/ \A a \in answers' : a.id # c.id
  PROVE  AnswersOK' /\ \A c \in calls' : Apart(c)'
<1>1. Grows
  BY NothingDone DEF FlowInv
<1>2. sent \in Nat /\ answers \subseteq [id : 1 .. sent, ok : BOOLEAN, data : Keys \cup {Nil}]
  BY DEF FlowInv, Numbered, AnswersOK
<1>3. calls' \subseteq Call
  BY DEF Numbered
<1>4. \A c \in calls' : Apart(c)'
  BY <1>1, <1>3, ApartStays DEF FlowInv
<1>5. \A a \in answers' : a \in answers /\ a.id \in 1 .. sent /\ a.id # sent + 1
  BY <1>2
<1>6. answers' \subseteq [id : 1 .. sent', ok : BOOLEAN, data : Keys \cup {Nil}]
  <2>1. 1 .. sent \subseteq 1 .. sent'
    BY <1>2
  <2> QED BY <1>2, <2>1
<1>7. \A a \in answers' : \E c \in calls' : c.id = a.id /\ c.tab # Nil
  BY <1>5 DEF FlowInv, AnswersOK
<1>8. \A c \in calls', a \in answers' : a.id = c.id /\ a.ok =>
         Made(c.req)' /\ (c.req.op \in OrderOps => a.data = c.req.order)
  BY <1>1, <1>5, StaysAnswered
<1>9. \A a, b \in answers' : a.id = b.id => a = b
  BY DEF FlowInv, AnswersOK
<1> QED BY <1>4, <1>6, <1>7, <1>8, <1>9 DEF AnswersOK

\* Items that stay are done still, as what was done is not taken back.
LEMMA ItemsStayDone ==
  ASSUME FlowInv, HistoriesStay, Grows
  PROVE  ItemsDone'
<1>1. Items' \subseteq Items
  BY ItemsStay
<1>2. \A x \in Items : x.req \in Requests
  <2> SUFFICES ASSUME NEW h \in Histories, NEW i \in 1 .. Len(h) PROVE h[i].req \in Requests
    BY DEF Items
  <2>1. h \in Seq(HistoryItem)
    BY DEF FlowInv, Kempt, Shape, Copy, Histories
  <2>2. h[i] \in HistoryItem
    BY <2>1, ElementOfSeq
  <2> QED BY <2>2 DEF HistoryItem
<1>3. \A x \in Items : x.ok => Made(x.req)'
  BY <1>2, MadeStays DEF FlowInv, ItemsDone
<1> QED BY <1>1, <1>3 DEF ItemsDone

\* A click of any page: a call leaves, its flow begins with it.
LEMMA SendKeeps ==
  ASSUME FlowInv, NEW t \in Tabs, NEW req \in Requests, NEW then \in Continuations,
         Send(t, req, then), Apart(NewCall(t, req, then)),
         UNCHANGED <<store, mem, dirty, page, writer, serverVars, answers>>,
         gestures' \in 0 .. MaxGestures, PageOK'
  PROVE  FlowInv'
<1>1. Numbered' /\ NewCall(t, req, then).id = sent + 1
  BY NumberedSend DEF FlowInv
<1>2. calls' = calls \cup {NewCall(t, req, then)} /\ sent' = sent + 1
  BY DEF Send
<1>3. Kempt(Drafts)'
  BY KemptStutter DEF FlowInv
<1>4. HistoriesStay
  BY GesturesAddNothing DEF FlowInv
<1>5. AnswersOK' /\ \A c \in calls' : Apart(c)'
  <2>1. \A d \in calls' : d \in calls \/ (d.id = sent + 1 /\ Apart(d))
    BY <1>1, <1>2
  <2>2. \A c \in calls : c \in calls'
    BY <1>2
  <2> QED BY <1>1, <1>2, <2>1, <2>2, SentKeeps
<1>6. ServerOK' /\ Grows
  BY NothingDone DEF FlowInv
<1>7. ItemsDone'
  BY <1>4, <1>6, ItemsStayDone
<1> QED BY <1>1, <1>3, <1>5, <1>6, <1>7 DEF FlowInv

\* The state changes and no call does.
LEMMA QuietKeeps ==
  ASSUME FlowInv, Kempt(Drafts)', HistoriesStay, PageOK',
         UNCHANGED <<execVars, serverVars, answers>>
  PROVE  FlowInv'
<1>1. Numbered'
  BY DEF FlowInv, Numbered, execVars
<1>2. AnswersOK' /\ \A c \in calls' : Apart(c)'
  <2>1. calls' = calls /\ sent' = sent
    BY DEF execVars
  <2>2. \A d \in calls' : d \in calls \/ (d.id = sent + 1 /\ Apart(d))
    BY <2>1
  <2>3. \A c \in calls : c \in calls' \/ \A a \in answers' : a.id # c.id
    BY <2>1
  <2> QED BY <1>1, <2>1, <2>2, <2>3, SentKeeps
<1>3. ServerOK' /\ Grows
  BY NothingDone DEF FlowInv
<1>4. ItemsDone'
  BY <1>3, ItemsStayDone
<1> QED BY <1>1, <1>2, <1>3, <1>4 DEF FlowInv

-----------------------------------------------------------------------------
(* Answers                                                                 *)

LEMMA TabOfAnswered ==
  ASSUME FlowInv, NEW c \in calls, NEW a \in answers, a.id = c.id
  PROVE  /\ c \in Call /\ c.tab \in Tabs /\ c.id \in 1 .. sent /\ c.then \in Continuations
         /\ c.req \in Requests
         /\ a.ok \in BOOLEAN /\ a.data \in Keys \cup {Nil}
         /\ a.ok => Made(c.req) /\ (c.req.op \in OrderOps => a.data = c.req.order)
<1>1. PICK d \in calls : d.id = a.id /\ d.tab # Nil
  BY DEF FlowInv, AnswersOK
<1>2. d = c
  BY <1>1 DEF FlowInv, Numbered
<1> QED BY <1>1, <1>2 DEF FlowInv, Numbered, AnswersOK, Call

\* The next step of a flow is a request, and is apart from the others.
LEMMA NextRequestKeeps ==
  ASSUME FlowInv, NEW c \in calls, NEW a \in answers, a.id = c.id, a.ok
  PROVE  /\ NextRequest(c, a.data) \in SUBSET Requests
         /\ \A r, s \in NextRequest(c, a.data) : r = s
         /\ \A r \in NextRequest(c, a.data) : Apart(NewCall(c.tab, r, c.then))
<1>1. /\ c.then \in Continuations /\ c.req \in Requests /\ Apart(c)
      /\ Made(c.req) /\ (c.req.op \in OrderOps => a.data = c.req.order)
      /\ c.req.order \in Keys \cup {Nil}
  BY TabOfAnswered, RequestFields DEF FlowInv
<1>2. \A r : NewCall(c.tab, r, c.then).req = r /\ NewCall(c.tab, r, c.then).then = c.then
  BY DEF NewCall
<1>3. CASE c.then.kind = "order"
  <2>1. /\ c.then.key \in Keys /\ c.then.txn \in Txns
        /\ c.then.status \in DraftChoices["paymentStatus"] /\ c.req.order = c.then.key
    BY <1>1, <1>3, ContinuationFields DEF Apart
  <2>2. CASE c.req.op = "create"
    <3>1. NextRequest(c, a.data) = {OrderReq("reserve", c.then.key)}
      BY <1>1, <1>3, <2>1, <2>2 DEF NextRequest, OrderOps
    <3>2. orders[c.then.key] # "none"
      BY <1>1, <2>1, <2>2 DEF Made, Done
    <3>3. Apart(NewCall(c.tab, OrderReq("reserve", c.then.key), c.then))
      BY <1>2, <1>3, <3>2 DEF Apart, OrderReq
    <3> QED BY <2>1, <3>1, <3>3, RequestsMade
  <2>3. CASE c.req.op = "reserve"
    <3> DEFINE r == PayReq(c.then.key, c.then.txn, c.then.status)
    <3>1. NextRequest(c, a.data) = {r}
      BY <1>3, <2>1, <2>3 DEF NextRequest
    <3>2. orders[c.then.key] \in {"RESERVED", "PAID"}
      BY <1>1, <2>1, <2>3 DEF Made, Done
    <3>3. r.op = "pay" /\ r.order = c.then.key /\ r.txn = c.then.txn
      BY DEF PayReq, OrderReq
    <3>4. r \in Requests
      BY <2>1, RequestsMade
    <3> HIDE DEF r
    <3>5. Apart(NewCall(c.tab, r, c.then))
      BY <1>2, <1>3, <3>2, <3>3 DEF Apart
    <3> QED BY <3>1, <3>4, <3>5
  <2>4. CASE c.req.op = "pay"
    <3>1. NextRequest(c, a.data) = {OrderReq("view", c.then.key)}
      BY <1>3, <2>1, <2>4 DEF NextRequest
    <3>2. c.req.txn = c.then.txn /\ Settled(c.then.key, c.then.txn)
      BY <1>1, <1>3, <2>1, <2>4 DEF Made, Done, Apart
    <3>3. Apart(NewCall(c.tab, OrderReq("view", c.then.key), c.then))
      BY <1>2, <1>3, <3>2 DEF Apart, OrderReq
    <3> QED BY <2>1, <3>1, <3>3, RequestsMade
  <2>5. CASE c.req.op \notin {"create", "reserve", "pay"}
    BY <1>3, <2>5 DEF NextRequest
  <2> QED BY <2>2, <2>3, <2>4, <2>5
<1>4. CASE c.then.kind = "hold"
  <2>1. c.then.hold \in DraftChoices["holdId"]
    BY <1>1, <1>4, ContinuationFields
  <2>2. CASE c.req.op = "hold"
    <3>1. NextRequest(c, a.data) = {HoldReq("confirm", c.then.hold)}
      BY <1>4, <2>2 DEF NextRequest
    <3>2. Apart(NewCall(c.tab, HoldReq("confirm", c.then.hold), c.then))
      BY <1>2, <1>4 DEF Apart, HoldReq, OrderReq
    <3> QED BY <1>1, <2>1, <3>1, <3>2, RequestsMade
  <2>3. CASE c.req.op = "confirm"
    <3>1. NextRequest(c, a.data) = {HoldReq("available", Nil)}
      BY <1>4, <2>3 DEF NextRequest
    <3>2. Apart(NewCall(c.tab, HoldReq("available", Nil), c.then))
      BY <1>2, <1>4 DEF Apart, HoldReq, OrderReq
    <3> QED BY <1>1, <3>1, <3>2, RequestsMade
  <2>4. CASE c.req.op \notin {"hold", "confirm"}
    BY <1>4, <2>4 DEF NextRequest
  <2> QED BY <2>2, <2>3, <2>4
<1>5. CASE c.then.kind \notin {"order", "hold"}
  BY <1>5 DEF NextRequest
<1> QED BY <1>3, <1>4, <1>5

\* The drafts an answer leaves.
LEMMA NewDraftsTyped ==
  ASSUME FlowInv, NEW c \in calls, NEW a \in answers, a.id = c.id
  PROVE  /\ NewDrafts(c, a) \in Drafts
         /\ NewDrafts(c, a) = mem[c.tab].drafts \/ SetsOrder(c, a)
<1>1. mem[c.tab].drafts \in Drafts /\ a.data \in Keys \cup {Nil}
  BY TabOfAnswered DEF FlowInv, Kempt, Shape, Copy
<1>2. [mem[c.tab].drafts EXCEPT !.orderId = a.data] \in Drafts
  BY <1>1 DEF Drafts
<1> QED BY <1>1, <1>2 DEF NewDrafts, Draft

\* An answer arrives: it is recorded as it is, and the flow goes on.
LEMMA ArriveKeeps ==
  ASSUME FlowInv, NEW c \in calls, NEW a \in answers, Arrive(c, a)
  PROVE  /\ FlowInv'
         /\ calls \ {c} \subseteq calls'
<1> DEFINE slots == {k \in {"drafts"} : SetsOrder(c, a)}
           d == NewDrafts(c, a)
           reqs == IF a.ok THEN NextRequest(c, a.data) ELSE {}
           item == [id |-> c.id, req |-> c.req, ok |-> a.ok]
<1>1. a.id = c.id /\ Show(c, a.ok, slots, d) /\ SendNext(c, reqs, c.then)
      /\ answers' = answers \ {a} /\ UNCHANGED <<pageVars, serverVars, troubles>>
  BY DEF Arrive
<1>2. /\ c \in Call /\ c.tab \in Tabs /\ c.then \in Continuations /\ a.ok \in BOOLEAN
      /\ a.ok => Made(c.req)
  BY <1>1, TabOfAnswered
<1>3. slots \in SUBSET Slots /\ d \in Drafts /\ (d = mem[c.tab].drafts \/ "drafts" \in slots)
  BY <1>1, NewDraftsTyped DEF Slots
<1>4. Items' \subseteq Items \cup {item} /\ item.ok = a.ok /\ item.req = c.req
  BY <1>1, <1>2, ShowRecords DEF FlowInv
<1>5. /\ reqs \in SUBSET Requests /\ \A r, s \in reqs : r = s
      /\ \A r \in reqs : Apart(NewCall(c.tab, r, c.then))
  BY <1>1, NextRequestKeeps
<1> HIDE DEF slots, d, reqs, item
<1>6. Kempt(Drafts)'
  BY <1>1, <1>2, <1>3, KemptShow DEF FlowInv
<1>7. result' = [result EXCEPT ![c.tab] = c.id]
  BY <1>1 DEF Show
<1>8. Numbered' /\ \A e \in calls' : e \in calls \ {c} \/ e.id = sent + 1
  BY <1>1, <1>2, <1>5, <1>7, NumberedNext DEF FlowInv
<1>9. /\ calls' = (calls \ {c}) \cup {NewCall(c.tab, r, c.then) : r \in reqs}
      /\ sent' \in {sent, sent + 1}
  BY <1>1 DEF SendNext
<1>10. AnswersOK' /\ \A e \in calls' : Apart(e)'
  <2>1. \A e \in calls' : e \in calls \/ (e.id = sent + 1 /\ Apart(e))
    <3>1. \A r \in reqs : NewCall(c.tab, r, c.then).id = sent + 1
      BY DEF NewCall
    <3> QED BY <1>5, <1>9, <3>1
  <2>2. \A e \in calls : e \in calls' \/ \A b \in answers' : b.id # e.id
    <3>1. \A b \in answers' : b.id # c.id
      BY <1>1 DEF FlowInv, AnswersOK
    <3> QED BY <1>9, <3>1
  <2>3. UNCHANGED serverVars /\ answers' \subseteq answers
    BY <1>1
  <2> QED BY <1>8, <1>9, <2>1, <2>2, <2>3, SentKeeps
<1>11. ServerOK' /\ Grows
  BY <1>1, NothingDone DEF FlowInv
<1>12. ItemsDone'
  <2>1. \A x \in Items' : x.ok => Made(x.req)
    BY <1>2, <1>4 DEF FlowInv, ItemsDone
  <2>2. \A r : Made(r)' <=> Made(r)
    BY <1>1 DEF Made, Done, Settled, serverVars
  <2> QED BY <2>1, <2>2 DEF ItemsDone
<1>13. PageOK'
  BY <1>1 DEF FlowInv, PageOK, pageVars
<1> QED BY <1>6, <1>8, <1>9, <1>10, <1>11, <1>12, <1>13 DEF FlowInv

-----------------------------------------------------------------------------
(* The actions                                                             *)

LEMMA TroubleTyped ==
  ASSUME PageOK, Trouble \/ UNCHANGED troubles
  PROVE  troubles' \in 0 .. MaxTroubles
BY DEF PageOK, Trouble

\* A service does a request, or does not, and its answer is on its way.
LEMMA ServeKeeps ==
  ASSUME FlowInv, NEW c \in calls, Serve(c)
  PROVE  /\ FlowInv'
         /\ UNCHANGED <<orders, payments>> \/ (Accepts(c.req) /\ Do(c.req))
         /\ c \notin calls' \/ \E a \in answers' : a.id = c.id
         /\ c.tab # Nil => calls' = calls
         /\ calls \ {c} \subseteq calls'
<1>1. c \in Call /\ c.req \in Requests /\ c.id \in 1 .. sent /\ c.req.order \in Keys \cup {Nil}
  BY RequestFields DEF FlowInv, Numbered, Call
<1>2. PICK done \in BOOLEAN, ok \in BOOLEAN :
        /\ done => Accepts(c.req)
        /\ ok => done
        /\ IF Accepts(c.req) /\ ~ok THEN Trouble ELSE UNCHANGED troubles
        /\ IF done THEN Do(c.req) ELSE UNCHANGED serverVars
        /\ answers' = IF c.tab = Nil THEN answers ELSE answers \cup {[id |-> c.id, ok |-> ok,
                data |-> IF ok /\ c.req.op \in OrderOps THEN c.req.order ELSE Nil]}
  BY DEF Serve
<1> DEFINE mine == [id |-> c.id, ok |-> ok,
                    data |-> IF ok /\ c.req.op \in OrderOps THEN c.req.order ELSE Nil]
<1>3. /\ ~Served(c) /\ calls' = IF c.tab = Nil THEN calls \ {c} ELSE calls
      /\ UNCHANGED <<stateVars, sent, result, pageVars>>
  BY DEF Serve
<1>4. ServerOK' /\ Grows /\ (ok => Made(c.req)')
  BY <1>1, <1>2, DoKeeps, NothingDone DEF FlowInv
<1>5. UNCHANGED <<orders, payments>> \/ (Accepts(c.req) /\ Do(c.req))
  BY <1>2 DEF serverVars
<1>6. Numbered'
  BY <1>3 DEF FlowInv, Numbered
<1>7. \A d \in calls' : Apart(d)'
  BY <1>3, <1>4, ApartStays DEF FlowInv, Numbered
<1>8. AnswersOK'
  <2>1. answers' \subseteq answers \cup {mine} /\ (c.tab = Nil => answers' = answers)
    BY <1>2
  <2>2. mine \in [id : 1 .. sent', ok : BOOLEAN, data : Keys \cup {Nil}]
    BY <1>1, <1>3
  <2>3. mine.id = c.id /\ mine.ok = ok /\ (ok /\ c.req.op \in OrderOps => mine.data = c.req.order)
    OBVIOUS
  <2> HIDE DEF mine
  <2>4. answers' \subseteq [id : 1 .. sent', ok : BOOLEAN, data : Keys \cup {Nil}]
    BY <1>3, <2>1, <2>2 DEF FlowInv, AnswersOK
  <2>5. \A a \in answers' : \E d \in calls' : d.id = a.id /\ d.tab # Nil
    <3>1. CASE c.tab = Nil
      BY <1>3, <2>1, <3>1 DEF FlowInv, AnswersOK
    <3>2. CASE c.tab # Nil
      BY <1>3, <2>1, <2>3, <3>2 DEF FlowInv, AnswersOK
    <3> QED BY <3>1, <3>2
  <2>6. \A a, b \in answers' : a.id = b.id => a = b
    BY <1>3, <2>1, <2>3 DEF FlowInv, AnswersOK, Served
  <2>7. ASSUME NEW d \in calls', NEW a \in answers', a.id = d.id, a.ok
        PROVE  Made(d.req)' /\ (d.req.op \in OrderOps => a.data = d.req.order)
    <3>1. d \in calls
      BY <1>3
    <3>2. CASE a \in answers
      BY <1>4, <2>7, <3>1, <3>2, StaysAnswered
    <3>3. CASE a = mine
      <4>1. d = c
        BY <2>3, <2>7, <3>1, <3>3 DEF FlowInv, Numbered
      <4> QED BY <1>4, <2>3, <2>7, <3>3, <4>1
    <3> QED BY <2>1, <3>2, <3>3
  <2> QED BY <2>4, <2>5, <2>6, <2>7 DEF AnswersOK
<1>9. Kempt(Drafts)'
  <2>1. UNCHANGED <<store, mem, dirty, page, writer>> /\ gestures' \in 0 .. MaxGestures
    BY <1>3 DEF stateVars, FlowInv, Kempt, Shape
  <2> QED BY <2>1, KemptStutter DEF FlowInv
<1>10. ItemsDone'
  <2>1. HistoriesStay
    <3>1. UNCHANGED <<store, mem>>
      BY <1>3 DEF stateVars
    <3>2. store.history \in Histories /\ \A t \in Tabs : mem[t].history \in Histories
      BY DEF Histories
    <3> QED BY <3>1, <3>2 DEF HistoriesStay
  <2> QED BY <1>4, <2>1, ItemsStayDone
<1>11. PageOK'
  <2>1. troubles' \in 0 .. MaxTroubles
    BY <1>2, TroubleTyped DEF FlowInv
  <2> QED BY <1>3, <2>1 DEF FlowInv, PageOK, pageVars
<1>12. c \notin calls' \/ \E a \in answers' : a.id = c.id
  <2>1. CASE c.tab = Nil
    BY <1>3, <2>1
  <2>2. CASE c.tab # Nil
    <3>1. mine \in answers' /\ mine.id = c.id
      BY <1>2, <2>2
    <3> QED BY <3>1
  <2> QED BY <2>1, <2>2
<1> QED BY <1>3, <1>4, <1>5, <1>6, <1>7, <1>8, <1>9, <1>10, <1>11, <1>12 DEF FlowInv

\* A call is lost: its answer, if it is there, is not heard.
LEMMA LoseKeeps ==
  ASSUME FlowInv, NEW c \in calls, Lose(c)
  PROVE  /\ FlowInv' /\ UNCHANGED <<mem, serverVars>>
         /\ calls \ {c} \subseteq calls'
<1>1. /\ Trouble /\ Abandon({c}) /\ {c} \in SUBSET calls
      /\ UNCHANGED <<store, mem, dirty, page, writer, gestures, result>>
      /\ UNCHANGED <<sent, pageVars, serverVars>>
  BY DEF Lose, ShowNothing
<1>2. result' \in [Tabs -> 0 .. sent]
  BY <1>1 DEF FlowInv, Numbered
<1>3. Numbered' /\ AnswersOK' /\ \A d \in calls' : Apart(d)'
  BY <1>1, <1>2, AbandonKeeps
<1>4. Kempt(Drafts)'
  <2>1. gestures' \in 0 .. MaxGestures
    BY <1>1 DEF FlowInv, Kempt, Shape
  <2> QED BY <1>1, <2>1, KemptStutter DEF FlowInv
<1>5. HistoriesStay
  <2>1. store.history \in Histories /\ \A t \in Tabs : mem[t].history \in Histories
    BY DEF Histories
  <2> QED BY <1>1, <2>1 DEF HistoriesStay
<1>6. ServerOK' /\ Grows
  BY <1>1, NothingDone DEF FlowInv
<1>7. ItemsDone'
  BY <1>5, <1>6, ItemsStayDone
<1>8. PageOK'
  BY <1>1, TroubleTyped DEF FlowInv, PageOK, pageVars
<1>9. calls \ {c} \subseteq calls'
  BY <1>1 DEF Abandon
<1> QED BY <1>1, <1>3, <1>4, <1>6, <1>7, <1>8, <1>9 DEF FlowInv

LEMMA OpenTabKeeps ==
  ASSUME FlowInv, NEW t \in Tabs, NEW p \in Pages \cup {"login"}, OpenTab(t, p)
  PROVE  FlowInv'
<1>1. /\ Open(t, p) /\ ResultReset(t)
      /\ UNCHANGED <<calls, sent, pageVars, serverVars, answers, troubles>>
  BY DEF OpenTab
<1>2. Kempt(Drafts)' /\ HistoriesStay
  BY <1>1, KemptOpen, GesturesAddNothing DEF FlowInv
<1>3. Numbered'
  BY <1>1, NumberedReset, NumberedKept DEF FlowInv, Numbered
<1>4. AnswersOK' /\ \A d \in calls' : Apart(d)'
  <2>1. \A d \in calls' : d \in calls \/ (d.id = sent + 1 /\ Apart(d))
    BY <1>1
  <2>2. \A c \in calls : c \in calls' \/ \A a \in answers' : a.id # c.id
    BY <1>1
  <2> QED BY <1>1, <1>3, <2>1, <2>2, SentKeeps
<1>5. ServerOK' /\ Grows
  BY <1>1, NothingDone DEF FlowInv
<1>6. ItemsDone'
  BY <1>2, <1>5, ItemsStayDone
<1>7. PageOK'
  BY <1>1 DEF FlowInv, PageOK, pageVars
<1> QED BY <1>2, <1>3, <1>4, <1>5, <1>6, <1>7 DEF FlowInv

LEMMA CloseTabKeeps ==
  ASSUME FlowInv, NEW t \in Tabs, CloseTab(t)
  PROVE  FlowInv'
<1> DEFINE cs == {c \in calls : c.tab = t}
<1>1. /\ Close(t) /\ ResultReset(t) /\ Abandon(cs) /\ cs \in SUBSET calls
      /\ polling' = [polling EXCEPT ![t] = FALSE] /\ timers' = [timers EXCEPT ![t] = {}]
      /\ UNCHANGED <<sent, now, serverVars, troubles>>
  BY DEF CloseTab
<1> HIDE DEF cs
<1>2. Kempt(Drafts)' /\ HistoriesStay
  <2>1. InitialDrafts \in Drafts
    OBVIOUS
  <2> QED BY <1>1, <2>1, KemptClose, GesturesAddNothing DEF FlowInv
<1>3. result' \in [Tabs -> 0 .. sent]
  BY <1>1, NumberedReset DEF FlowInv
<1>4. Numbered' /\ AnswersOK' /\ \A d \in calls' : Apart(d)'
  BY <1>1, <1>3, AbandonKeeps
<1>5. ServerOK' /\ Grows
  BY <1>1, NothingDone DEF FlowInv
<1>6. ItemsDone'
  BY <1>2, <1>5, ItemsStayDone
<1>7. PageOK'
  BY <1>1 DEF FlowInv, PageOK
<1> QED BY <1>2, <1>4, <1>5, <1>6, <1>7 DEF FlowInv

LEMMA MoveKeeps ==
  ASSUME FlowInv, NEW t \in Tabs, Move(t)
  PROVE  FlowInv'
<1>1. Kempt(Drafts)' /\ HistoriesStay
  BY KemptLogin, KemptLogout, KemptGoto, GesturesAddNothing DEF Move, FlowInv
<1>2. PageOK'
  BY DEF Move, FlowInv, PageOK
<1> QED BY <1>1, <1>2, QuietKeeps DEF Move

LEMMA SamePage ==
  ASSUME FlowInv, UNCHANGED <<pageVars, troubles>>
  PROVE  PageOK'
BY DEF FlowInv, PageOK, pageVars

\* Editing a field with a value of its kind.
LEMMA EditKeeps ==
  ASSUME FlowInv, NEW t \in Tabs, NEW f \in DraftFields, NEW v, Edit(t, f, v),
         v \in DraftChoices[f] \/ (f = "queryOrderId" /\ v = Draft(t).orderId),
         UNCHANGED <<execVars, pageVars, serverVars, answers, troubles>>
  PROVE  FlowInv'
<1>1. mem[t].drafts \in Drafts
  BY DEF FlowInv, Kempt, Shape, Copy
<1>2. [mem[t].drafts EXCEPT ![f] = v] \in Drafts
  <2>1. CASE f = "orderId"
    BY <1>1, <2>1 DEF Drafts
  <2>2. CASE f = "queryOrderId"
    <3>1. mem[t].drafts.orderId \in Keys \cup {Nil}
      BY <1>1 DEF Drafts
    <3>2. v \in Keys \cup {Nil}
      BY <2>2, <3>1 DEF Draft
    <3> QED BY <1>1, <2>2, <3>2 DEF Drafts
  <2>3. CASE f = "idempotencyKey"
    BY <1>1, <2>3 DEF Drafts
  <2>4. CASE f = "providerTxnId"
    BY <1>1, <2>4 DEF Drafts
  <2>5. CASE f = "paymentStatus"
    BY <1>1, <2>5 DEF Drafts
  <2>6. CASE f = "holdId"
    BY <1>1, <2>6 DEF Drafts
  <2> QED BY <2>1, <2>2, <2>3, <2>4, <2>5, <2>6
<1>3. Kempt(Drafts)' /\ HistoriesStay
  BY <1>2, KemptEdit, GesturesAddNothing DEF FlowInv
<1> QED BY <1>3, SamePage, QuietKeeps

LEMMA TypeKeeps ==
  ASSUME FlowInv, NEW t \in Tabs, Type(t) \/ UseCurrentOrder(t)
  PROVE  FlowInv'
<1>1. CASE Type(t)
  <2>1. PICK f \in FieldsOf(page[t]) : \E v \in DraftChoices[f] : Edit(t, f, v)
    BY <1>1 DEF Type
  <2>2. f \in DraftFields
    BY DEF FieldsOf
  <2> QED BY <1>1, <2>1, <2>2, EditKeeps DEF Type
<1>2. CASE UseCurrentOrder(t)
  <2>1. "queryOrderId" \in DraftFields
    OBVIOUS
  <2> QED BY <1>2, <2>1, EditKeeps DEF UseCurrentOrder
<1> QED BY <1>1, <1>2

\* A click that begins no flow.
LEMMA ClickKeeps ==
  ASSUME FlowInv, NEW t \in Tabs, NEW p, NEW req \in Requests, NEW kind \in {"none", "setOrder"},
         Click(t, p, req, Then(kind)),
         UNCHANGED <<pageVars, serverVars, answers, troubles>>
  PROVE  FlowInv'
<1>1. Effort(1) /\ Send(t, req, Then(kind)) /\ UNCHANGED <<store, mem, dirty, page, writer>>
  BY DEF Click, Start
<1>2. gestures' \in 0 .. MaxGestures
  BY <1>1, EffortIsBounded DEF FlowInv, Kempt, Shape
<1>3. Then(kind) \in Continuations
  BY DEF Then, FlowContinuations
<1>4. Apart(NewCall(t, req, Then(kind)))
  BY DEF Apart, NewCall, Then
<1> QED BY <1>1, <1>2, <1>3, <1>4, SamePage, SendKeeps

LEMMA StartOrderFlowKeeps ==
  ASSUME FlowInv, NEW t \in Tabs, StartOrderFlow(t)
  PROVE  FlowInv'
<1>1. PICK k \in now .. MaxClock, x \in now .. MaxClock :
        LET key == <<Draft(t).idempotencyKey, k>> IN
        /\ k <= x
        /\ now' = x
        /\ Start(t, "booking", 2, OrderReq("create", key),
                 [kind |-> "order", key |-> key, txn |-> <<Draft(t).providerTxnId, x>>,
                  status |-> Draft(t).paymentStatus, hold |-> Nil])
        /\ UNCHANGED <<polling, timers, serverVars, answers, troubles>>
  BY DEF StartOrderFlow
<1> DEFINE key == <<Draft(t).idempotencyKey, k>>
           txn == <<Draft(t).providerTxnId, x>>
           req == OrderReq("create", key)
           then == [kind |-> "order", key |-> key, txn |-> txn,
                    status |-> Draft(t).paymentStatus, hold |-> Nil]
<1>2. /\ Effort(2) /\ Send(t, req, then) /\ UNCHANGED <<store, mem, dirty, page, writer>>
      /\ now' = x /\ UNCHANGED <<polling, timers, serverVars, answers, troubles>>
  BY <1>1 DEF Start
<1>3. Draft(t) \in Drafts
  BY DEF Draft, FlowInv, Kempt, Shape, Copy
<1>4. now \in 1 .. MaxClock /\ k \in 1 .. MaxClock /\ x \in 1 .. MaxClock
  BY DEF FlowInv, PageOK
<1>5. key \in Keys /\ txn \in Txns /\ Draft(t).paymentStatus \in DraftChoices["paymentStatus"]
  BY <1>3, <1>4 DEF Drafts, Keys, Txns
<1> HIDE DEF key, txn
<1>6. then \in Continuations
  BY <1>5 DEF FlowContinuations
<1>7. req \in Requests
  BY <1>5, RequestsMade
<1>8. Apart(NewCall(t, req, then))
  BY DEF Apart, NewCall, OrderReq
<1>9. gestures' \in 0 .. MaxGestures
  BY <1>2, EffortIsBounded DEF FlowInv, Kempt, Shape
<1>10. PageOK'
  BY <1>2, <1>4 DEF FlowInv, PageOK
<1> HIDE DEF req, then
<1> QED BY <1>2, <1>6, <1>7, <1>8, <1>9, <1>10, SendKeeps

LEMMA StartHoldFlowKeeps ==
  ASSUME FlowInv, NEW t \in Tabs, StartHoldFlow(t)
  PROVE  FlowInv'
<1> DEFINE h == Draft(t).holdId
           req == HoldReq("hold", h)
           then == [Then("hold") EXCEPT !.hold = h]
<1>1. /\ Effort(2) /\ Send(t, req, then) /\ UNCHANGED <<store, mem, dirty, page, writer>>
      /\ UNCHANGED <<pageVars, serverVars, answers, troubles>>
  BY DEF StartHoldFlow, Start
<1>2. h \in DraftChoices["holdId"]
  BY DEF Draft, FlowInv, Kempt, Shape, Copy, Drafts
<1> HIDE DEF h
<1>3. then = [kind |-> "hold", key |-> Nil, txn |-> Nil, status |-> Nil, hold |-> h]
  BY DEF Then
<1>4. then \in Continuations
  BY <1>2, <1>3 DEF FlowContinuations
<1>5. req \in Requests /\ req.hold = h
  <2>1. req \in Requests
    BY <1>2, RequestsMade
  <2> QED BY <2>1 DEF HoldReq, OrderReq
<1> HIDE DEF req, then
<1>6. Apart(NewCall(t, req, then))
  BY <1>3, <1>5 DEF Apart, NewCall
<1>7. gestures' \in 0 .. MaxGestures
  BY <1>1, EffortIsBounded DEF FlowInv, Kempt, Shape
<1> QED BY <1>1, <1>4, <1>5, <1>6, <1>7, SamePage, SendKeeps

\* The forms, and replaying an item.
LEMMA FormsKeep ==
  ASSUME FlowInv, NEW t \in Tabs, OrderForm(t) \/ HoldForm(t) \/ QueryForm(t) \/ ReplayItem(t)
  PROVE  FlowInv'
<1> DEFINE d == Draft(t)
<1>1. d \in Drafts
  BY DEF Draft, FlowInv, Kempt, Shape, Copy
<1>2. /\ d.orderId \in Keys \cup {Nil} /\ d.queryOrderId \in Keys \cup {Nil}
      /\ <<d.idempotencyKey, 0>> \in Keys /\ <<d.providerTxnId, 0>> \in Txns
      /\ d.paymentStatus \in DraftChoices["paymentStatus"] /\ d.holdId \in DraftChoices["holdId"]
  BY <1>1 DEF Drafts, Keys, Txns
<1> HIDE DEF d
<1>3. CASE OrderForm(t)
  <2>1. UNCHANGED <<pageVars, serverVars, answers, troubles>>
    BY <1>3 DEF OrderForm
  <2>2. CASE Click(t, "orders", OrderReq("create", <<d.idempotencyKey, 0>>), Then("setOrder"))
    BY <1>2, <2>1, <2>2, RequestsMade, ClickKeeps
  <2>3. CASE \E op \in {"reserve", "get"} : Click(t, "orders", OrderReq(op, d.orderId), Then("none"))
    BY <1>2, <2>1, <2>3, RequestsMade, ClickKeeps
  <2>4. CASE Click(t, "orders", PayReq(d.orderId, <<d.providerTxnId, 0>>, d.paymentStatus), Then("none"))
    BY <1>2, <2>1, <2>4, RequestsMade, ClickKeeps
  <2> QED BY <1>3, <2>2, <2>3, <2>4 DEF OrderForm, d
<1>4. CASE HoldForm(t)
  <2>1. UNCHANGED <<pageVars, serverVars, answers, troubles>>
    BY <1>4 DEF HoldForm
  <2>2. CASE \E op \in {"hold", "confirm", "release"} :
               Click(t, "inventory", HoldReq(op, d.holdId), Then("none"))
    BY <1>2, <2>1, <2>2, RequestsMade, ClickKeeps
  <2>3. CASE Click(t, "inventory", HoldReq("available", Nil), Then("none"))
    BY <1>2, <2>1, <2>3, RequestsMade, ClickKeeps
  <2> QED BY <1>4, <2>2, <2>3 DEF HoldForm, d
<1>5. CASE QueryForm(t)
  <2>1. PICK p \in {"booking", "orders"} :
           Click(t, p, OrderReq("view", d.queryOrderId), Then("none"))
    BY <1>5 DEF QueryForm, d
  <2> QED BY <1>2, <1>5, <2>1, RequestsMade, ClickKeeps DEF QueryForm
<1>6. CASE ReplayItem(t)
  <2>1. PICK i \in 1 .. Len(mem[t].history) :
           Click(t, "dashboard", mem[t].history[i].req, Then("none"))
    BY <1>6 DEF ReplayItem, Replay
  <2>2. mem[t].history \in Seq(HistoryItem)
    BY DEF FlowInv, Kempt, Shape, Copy
  <2>3. mem[t].history[i] \in HistoryItem
    BY <2>2, ElementOfSeq
  <2>4. mem[t].history[i].req \in Requests
    BY <2>3 DEF HistoryItem
  <2> QED BY <1>6, <2>1, <2>4, ClickKeeps DEF ReplayItem
<1> QED BY <1>3, <1>4, <1>5, <1>6

\* The polling of the booking page.
LEMMA PollingKeeps ==
  ASSUME FlowInv, NEW t \in Tabs, TogglePolling(t) \/ PollEffect(t) \/ PollTick(t)
  PROVE  FlowInv'
<1>1. CASE TogglePolling(t)
  <2>1. Kempt(Drafts)'
    BY <1>1, GestureIsBounded, KemptStutter DEF TogglePolling, FlowInv, Kempt
  <2>2. HistoriesStay
    BY <1>1, GesturesAddNothing DEF TogglePolling, FlowInv
  <2>3. PageOK'
    BY <1>1 DEF TogglePolling, FlowInv, PageOK
  <2> QED BY <1>1, <2>1, <2>2, <2>3, QuietKeeps DEF TogglePolling
<1>2. CASE PollEffect(t)
  <2>1. Kempt(Drafts)' /\ HistoriesStay
    <3>1. UNCHANGED <<store, mem, dirty, page, writer>> /\ gestures' \in 0 .. MaxGestures
      BY <1>2 DEF PollEffect, stateVars, FlowInv, Kempt, Shape
    <3> QED BY <3>1, KemptStutter, GesturesAddNothing DEF FlowInv
  <2>2. Polled(t) \subseteq Keys /\ \A o, p \in Polled(t) : o = p
    <3>1. Draft(t).orderId \in Keys \cup {Nil}
      BY DEF Draft, FlowInv, Kempt, Shape, Copy, Drafts
    <3> QED BY <3>1 DEF Polled
  <2>3. PageOK'
    <3>1. /\ timers' = [timers EXCEPT ![t] = Polled(t)]
          /\ UNCHANGED <<now, polling, troubles>>
      BY <1>2 DEF PollEffect
    <3> QED BY <2>2, <3>1 DEF FlowInv, PageOK
  <2> QED BY <1>2, <2>1, <2>3, QuietKeeps DEF PollEffect
<1>3. CASE PollTick(t)
  <2>1. /\ Gesture
        /\ UNCHANGED <<store, mem, dirty, page, writer, pageVars, serverVars, answers, troubles>>
    BY <1>3 DEF PollTick
  <2>2. PICK o \in timers[t] : Send(t, OrderReq("view", o), Then("none"))
    BY <1>3 DEF PollTick
  <2>3. o \in Keys
    BY <2>2 DEF FlowInv, PageOK
  <2>4. OrderReq("view", o) \in Requests
    BY <2>3, RequestsMade
  <2>5. Then("none") \in Continuations
    BY DEF Then, FlowContinuations
  <2>6. Apart(NewCall(t, OrderReq("view", o), Then("none")))
    BY DEF Apart, NewCall, Then
  <2>7. gestures' \in 0 .. MaxGestures
    BY <2>1, GestureIsBounded DEF FlowInv, Kempt
  <2> QED BY <2>1, <2>2, <2>4, <2>5, <2>6, <2>7, SamePage, SendKeeps
<1> QED BY <1>1, <1>2, <1>3

LEMMA ExpireHoldKeeps ==
  ASSUME FlowInv, NEW h, ExpireHold(h)
  PROVE  FlowInv'
<1>1. /\ Gesture /\ holds' = holds \ {h}
      /\ UNCHANGED <<store, mem, dirty, page, writer, execVars, pageVars, orders, payments,
                     answers, troubles>>
  BY DEF ExpireHold
<1>2. Kempt(Drafts)' /\ HistoriesStay
  <2>1. gestures' \in 0 .. MaxGestures
    BY <1>1, GestureIsBounded DEF FlowInv, Kempt
  <2>2. Kempt(Drafts)'
    BY <1>1, <2>1, KemptStutter DEF FlowInv
  <2>3. store.history \in Histories /\ \A t \in Tabs : mem[t].history \in Histories
    BY DEF Histories
  <2> QED BY <1>1, <2>2, <2>3 DEF HistoriesStay
<1>3. ServerOK' /\ Grows
  BY <1>1 DEF FlowInv, ServerOK, Grows
<1>4. Numbered'
  BY <1>1 DEF FlowInv, Numbered, execVars
<1>5. \A r : Made(r)' <=> Made(r)
  BY <1>1 DEF Made, Done, Settled
<1>6. AnswersOK'
  BY <1>1, <1>5 DEF FlowInv, AnswersOK, execVars
<1>7. \A c \in calls' : Apart(c)'
  BY <1>1, <1>3, ApartStays DEF FlowInv, Numbered, execVars
<1>8. ItemsDone'
  BY <1>2, <1>3, ItemsStayDone
<1> QED BY <1>1, <1>2, <1>3, <1>4, <1>6, <1>7, <1>8, SamePage DEF FlowInv

\* Saving and clearing leave the calls and the services as they are.
LEMMA SaveOrClearKeeps ==
  ASSUME FlowInv, NEW t \in Tabs, Effects(t) \/ Clear(t)
  PROVE  FlowInv'
<1>1. CASE Effects(t)
  BY <1>1, KemptSave, GesturesAddNothing, SamePage, QuietKeeps DEF Effects, FlowInv
<1>2. CASE Clear(t)
  <2>1. ClearHistory(t) /\ UNCHANGED <<execVars, pageVars, serverVars, answers, troubles>>
    BY <1>2 DEF Clear, ClearHistory
  <2> QED BY <2>1, KemptClear, GesturesAddNothing, SamePage, QuietKeeps DEF FlowInv
<1> QED BY <1>1, <1>2

-----------------------------------------------------------------------------
(* The invariant                                                           *)

LEMMA FlowInit == Init => FlowInv
<1> SUFFICES ASSUME Init PROVE FlowInv
  OBVIOUS
<1>1. Kempt(Drafts)
  <2>1. InitialDrafts \in Drafts
    OBVIOUS
  <2> QED BY <2>1, KemptInit DEF Init
<1>2. Numbered
  BY DEF Init, ExecInit, Numbered
<1>3. ServerOK
  BY DEF Init, ServerOK
<1>4. PageOK
  BY DEF Init, PageOK
<1>5. AnswersOK /\ \A c \in calls : Apart(c)
  BY DEF Init, ExecInit, AnswersOK
<1>6. ItemsDone
  <2>1. \A h \in Histories : Len(h) = 0
    <3>1. store.history = <<>> /\ \A t \in Tabs : mem[t].history = <<>>
      BY DEF Init, StateInit, Fresh
    <3>2. Len(<<>>) = 0
      OBVIOUS
    <3> QED BY <3>1, <3>2 DEF Histories
  <2> QED BY <2>1 DEF ItemsDone, Items
<1> QED BY <1>1, <1>2, <1>3, <1>4, <1>5, <1>6 DEF FlowInv

LEMMA FlowStep == FlowInv /\ [Next]_vars => FlowInv'
<1> SUFFICES ASSUME FlowInv, [Next]_vars PROVE FlowInv'
  OBVIOUS
<1>1. ASSUME NEW t \in Tabs, NEW p \in Pages \cup {"login"}, OpenTab(t, p) PROVE FlowInv'
  BY <1>1, OpenTabKeeps
<1>2. ASSUME NEW t \in Tabs, CloseTab(t) PROVE FlowInv'
  BY <1>2, CloseTabKeeps
<1>3. ASSUME NEW t \in Tabs, Effects(t) \/ Clear(t) PROVE FlowInv'
  BY <1>3, SaveOrClearKeeps
<1>4. ASSUME NEW t \in Tabs, Move(t) PROVE FlowInv'
  BY <1>4, MoveKeeps
<1>5. ASSUME NEW t \in Tabs, Type(t) \/ UseCurrentOrder(t) PROVE FlowInv'
  BY <1>5, TypeKeeps
<1>6. ASSUME NEW t \in Tabs, StartOrderFlow(t) \/ StartHoldFlow(t) PROVE FlowInv'
  BY <1>6, StartOrderFlowKeeps, StartHoldFlowKeeps
<1>7. ASSUME NEW t \in Tabs, OrderForm(t) \/ HoldForm(t) \/ QueryForm(t) \/ ReplayItem(t)
      PROVE  FlowInv'
  BY <1>7, FormsKeep
<1>8. ASSUME NEW t \in Tabs, TogglePolling(t) \/ PollEffect(t) \/ PollTick(t) PROVE FlowInv'
  BY <1>8, PollingKeeps
<1>9. ASSUME NEW c \in calls, Serve(c) \/ Lose(c) \/ \E a \in answers : Arrive(c, a)
      PROVE  FlowInv'
  BY <1>9, ServeKeeps, LoseKeeps, ArriveKeeps
<1>10. ASSUME NEW h, ExpireHold(h) PROVE FlowInv'
  BY <1>10, ExpireHoldKeeps
<1>11. CASE UNCHANGED vars
  <2>1. /\ UNCHANGED <<store, mem, dirty, page, writer, gestures>>
        /\ UNCHANGED <<execVars, pageVars, serverVars, answers, troubles>>
    BY <1>11 DEF vars, stateVars
  <2>2. Kempt(Drafts)'
    <3>1. gestures' \in 0 .. MaxGestures
      BY <2>1 DEF FlowInv, Kempt, Shape
    <3> QED BY <2>1, <3>1, KemptStutter DEF FlowInv
  <2>3. HistoriesStay
    <3>1. store.history \in Histories /\ \A t \in Tabs : mem[t].history \in Histories
      BY DEF Histories
    <3> QED BY <2>1, <3>1 DEF HistoriesStay
  <2> QED BY <2>1, <2>2, <2>3, SamePage, QuietKeeps
<1> QED BY <1>1, <1>2, <1>3, <1>4, <1>5, <1>6, <1>7, <1>8, <1>9, <1>10, <1>11 DEF Next

\* The invariant that the theorems rest on.
THEOREM FlowInvariant == Spec => []FlowInv
BY FlowInit, FlowStep, PTL DEF Spec

-----------------------------------------------------------------------------
(* Theorems                                                                *)

(***************************************************************************)
(* The state of the pages and the services keeps its types, and a tab      *)
(* polls for one order at most (the clean-up of the polling effect).       *)
(***************************************************************************)
THEOREM FlowTypes == Spec => []FlowTypeOK
<1>1. FlowInv => FlowTypeOK
  BY DEF FlowInv, Kempt, Shape, Numbered, ServerOK, PageOK, AnswersOK, FlowTypeOK, Copy, Copies
<1> QED BY <1>1, FlowInvariant, PTL

(***************************************************************************)
(* Every call of a flow is about that flow's own order, transaction or     *)
(* hold, and its earlier steps are done (the local variables of the two    *)
(* handlers of WorkflowSection), for any number of flows side by side.     *)
(***************************************************************************)
THEOREM FlowsApart == Spec => []FlowsAreApart
<1>1. FlowInv => FlowsAreApart
  BY DEF FlowInv, Apart, FlowsAreApart
<1> QED BY <1>1, FlowInvariant, PTL

(***************************************************************************)
(* What a history shows as ok is done and stays done (the ok of            *)
(* useExecutor and the services behind it), in any number of tabs.         *)
(***************************************************************************)
THEOREM OkDone == Spec => []OkMeansDone
<1>1. FlowInv => OkMeansDone
  BY DEF FlowInv, ItemsDone, Items, Made, OkMeansDone
<1> QED BY <1>1, FlowInvariant, PTL

\* The statement of ReplayChangesNothing.
ReplayAdds ==
  <<orders, payments>>' # <<orders, payments>> =>
     \E c \in calls :
        /\ ~Served(c)
        /\ c \notin calls' \/ \E a \in answers' : a.id = c.id
        /\ \A h \in Histories : \A i \in 1 .. Len(h) : h[i].ok => h[i].req # c.req

\* The step that changes an order or a payment serves a request for the first time.
LEMMA ServeAdds ==
  ASSUME FlowInv, NEW c \in calls, Serve(c)
  PROVE  ReplayAdds
<1> SUFFICES ASSUME <<orders, payments>>' # <<orders, payments>> PROVE ReplayAdds
  BY DEF ReplayAdds
<1>1. Accepts(c.req) /\ Do(c.req)
  BY ServeKeeps
<1>2. c.req \in Requests
  BY DEF FlowInv, Numbered, Call
<1>3. ~Made(c.req)
  BY <1>1, <1>2, DoKeeps DEF FlowInv
<1>4. \A x \in Items : x.ok => x.req # c.req
  BY <1>3 DEF FlowInv, ItemsDone
<1>5. \A h \in Histories : \A i \in 1 .. Len(h) : h[i].ok => h[i].req # c.req
  BY <1>4 DEF Items
<1>6. c \notin calls' \/ \E a \in answers' : a.id = c.id
  BY ServeKeeps
<1>7. ~Served(c)
  BY DEF Serve
<1> QED BY <1>5, <1>6, <1>7 DEF ReplayAdds

LEMMA StepAdds ==
  ASSUME FlowInv, [Next]_vars
  PROVE  ReplayAdds
<1>1. ASSUME NEW t \in Tabs,
             \/ \E p \in Pages \cup {"login"} : OpenTab(t, p)
             \/ CloseTab(t) \/ Effects(t) \/ Move(t) \/ Type(t) \/ UseCurrentOrder(t)
             \/ StartOrderFlow(t) \/ StartHoldFlow(t)
             \/ OrderForm(t) \/ HoldForm(t) \/ QueryForm(t)
             \/ ReplayItem(t) \/ Clear(t)
             \/ TogglePolling(t) \/ PollEffect(t) \/ PollTick(t)
      PROVE  UNCHANGED serverVars
  BY <1>1 DEF OpenTab, CloseTab, Effects, Move, Type, UseCurrentOrder, StartOrderFlow,
     StartHoldFlow, OrderForm, HoldForm, QueryForm, ReplayItem, Clear, TogglePolling,
     PollEffect, PollTick
<1>2. ASSUME UNCHANGED <<orders, payments>> PROVE ReplayAdds
  BY <1>2 DEF ReplayAdds
<1>3. ASSUME NEW c \in calls, Lose(c) \/ \E a \in answers : Arrive(c, a)
      PROVE  UNCHANGED serverVars
  BY <1>3 DEF Lose, Arrive
<1>4. ASSUME NEW h, ExpireHold(h) PROVE UNCHANGED <<orders, payments>>
  BY <1>4 DEF ExpireHold
<1>5. UNCHANGED vars => UNCHANGED serverVars
  BY DEF vars
<1> QED BY <1>1, <1>2, <1>3, <1>4, <1>5, ServeAdds DEF Next, serverVars

(***************************************************************************)
(* A request that a history shows as ok can be replayed from any tab, any  *)
(* number of times, and changes no order and no payment (the idempotency   *)
(* key, the status guards and the unique transaction).                     *)
(***************************************************************************)
THEOREM ReplayNothing == Spec => ReplayChangesNothing
<1>1. FlowInv /\ [Next]_vars => [ReplayAdds]_vars
  BY StepAdds
<1>2. [ReplayAdds]_vars =>
        [<<orders, payments>>' # <<orders, payments>> =>
            \E c \in calls :
               /\ ~Served(c)
               /\ c \notin calls' \/ \E a \in answers' : a.id = c.id
               /\ \A h \in Histories : \A i \in 1 .. Len(h) : h[i].ok => h[i].req # c.req]_vars
  BY DEF ReplayAdds
<1> QED BY <1>1, <1>2, FlowInvariant, PTL DEF Spec, ReplayChangesNothing

\* The statement of AnswersKeepTheRest for one tab and one call.
KeepsRest(t, c) ==
  /\ c.tab = t /\ IsOpen(t) /\ page'[t] # "closed"
  /\ \A d \in calls' : d.id # c.id
  => /\ \A f \in DraftFields :
           \/ mem'[t].drafts[f] = mem[t].drafts[f]
           \/ f = "orderId" /\ c.req.op = "create" /\ mem'[t].drafts[f] = c.req.order
     /\ \A i \in 1 .. Len(mem[t].history) :
           \/ \E j \in 1 .. Len(mem'[t].history) : mem'[t].history[j] = mem[t].history[i]
           \/ i = HistoryLimit

LEMMA CallStays ==
  ASSUME NEW t, NEW c, \E d \in calls' : d.id = c.id
  PROVE  KeepsRest(t, c)
BY DEF KeepsRest

LEMMA ArriveKeepsRest ==
  ASSUME FlowInv, NEW c \in calls, NEW a \in answers, Arrive(c, a), c.tab \in Tabs
  PROVE  KeepsRest(c.tab, c)
<1> DEFINE t == c.tab
           d == NewDrafts(c, a)
           item == [id |-> c.id, req |-> c.req, ok |-> a.ok]
           h == mem[t].history
           r == Recorded(h, item)
<1>1. /\ c \in Call /\ a.ok \in BOOLEAN /\ a.id = c.id
      /\ a.ok => (c.req.op \in OrderOps => a.data = c.req.order)
  BY TabOfAnswered DEF Arrive
<1>2. Show(c, a.ok, {k \in {"drafts"} : SetsOrder(c, a)}, d)
  BY DEF Arrive
<1>3. item \in HistoryItem /\ h \in Seq(HistoryItem) /\ mem'[t].history = r /\ mem'[t].drafts = d
  BY <1>1, <1>2, ShowRecords DEF FlowInv
<1>4. \A f \in DraftFields :
         \/ d[f] = mem[t].drafts[f]
         \/ f = "orderId" /\ c.req.op = "create" /\ d[f] = c.req.order
  <2>1. mem[t].drafts \in Drafts
    BY DEF FlowInv, Kempt, Shape, Copy
  <2>2. CASE SetsOrder(c, a)
    <3>1. d = [mem[t].drafts EXCEPT !.orderId = c.req.order] /\ c.req.op = "create"
      BY <1>1, <2>2 DEF NewDrafts, SetsOrder, Draft, OrderOps
    <3> QED BY <2>1, <3>1 DEF Drafts
  <2>3. CASE ~SetsOrder(c, a)
    BY <2>3 DEF NewDrafts, Draft
  <2> QED BY <2>2, <2>3
<1> HIDE DEF d, item, h
<1>5. \A i \in 1 .. Len(h) : i < HistoryLimit => i + 1 \in 1 .. Len(r) /\ r[i + 1] = h[i]
  BY <1>3, RecordedKeeps
<1>6. Len(h) \in Nat /\ Len(h) <= HistoryLimit
  BY <1>3 DEF FlowInv, Kempt, Short, h
<1> HIDE DEF r
<1>7. \A i \in 1 .. Len(h) : (\E j \in 1 .. Len(r) : r[j] = h[i]) \/ i = HistoryLimit
  <2> SUFFICES ASSUME NEW i \in 1 .. Len(h), i # HistoryLimit
               PROVE  \E j \in 1 .. Len(r) : r[j] = h[i]
    OBVIOUS
  <2>1. i < HistoryLimit
    BY <1>6, ConsoleAssumption
  <2> QED BY <1>5, <2>1
<1> QED BY <1>3, <1>4, <1>7 DEF KeepsRest, h

LEMMA StepKeepsRest ==
  ASSUME FlowInv, [Next]_vars, NEW t \in Tabs, NEW c \in calls
  PROVE  KeepsRest(t, c)
<1>1. CASE c.tab # t
  BY <1>1 DEF KeepsRest
<1>2. CASE c.tab = t
  <2>1. ASSUME NEW u \in Tabs, CloseTab(u) PROVE KeepsRest(t, c)
    <3>1. CASE u = t
      BY <2>1, <3>1 DEF CloseTab, Close, FlowInv, Kempt, Shape, KeepsRest
    <3>2. CASE u # t
      BY <1>2, <2>1, <3>2, CallStays DEF CloseTab, Abandon
    <3> QED BY <3>1, <3>2
  <2>2. ASSUME NEW u \in Tabs,
               \/ \E p \in Pages \cup {"login"} : OpenTab(u, p)
               \/ Effects(u) \/ Move(u) \/ Type(u) \/ UseCurrentOrder(u) \/ Clear(u)
               \/ TogglePolling(u) \/ PollEffect(u)
        PROVE  calls' = calls
    BY <2>2 DEF OpenTab, Effects, Move, Type, UseCurrentOrder, Clear, ClearHistory,
       TogglePolling, PollEffect, execVars
  <2>3. ASSUME NEW u \in Tabs,
               \/ StartOrderFlow(u) \/ StartHoldFlow(u)
               \/ OrderForm(u) \/ HoldForm(u) \/ QueryForm(u) \/ ReplayItem(u) \/ PollTick(u)
        PROVE  calls \subseteq calls'
    BY <2>3 DEF StartOrderFlow, StartHoldFlow, OrderForm, HoldForm, QueryForm, ReplayItem,
       Replay, PollTick, Click, Start, Send
  <2>4. ASSUME NEW e \in calls, Serve(e) PROVE KeepsRest(t, c)
    <3>1. CASE e.tab # Nil
      BY <2>4, <3>1, ServeKeeps, CallStays
    <3>2. CASE e.tab = Nil
      <4>1. c # e
        BY <1>2, <3>2, ConsoleAssumption
      <4> QED BY <2>4, <4>1, ServeKeeps, CallStays
    <3> QED BY <3>1, <3>2
  <2>5. ASSUME NEW e \in calls, Lose(e) PROVE KeepsRest(t, c)
    <3>1. mem' = mem
      BY <2>5 DEF Lose, ShowNothing
    <3> QED BY <3>1 DEF KeepsRest
  <2>6. ASSUME NEW e \in calls, NEW a \in answers, Arrive(e, a) PROVE KeepsRest(t, c)
    <3>1. CASE e = c
      BY <1>2, <2>6, <3>1, ArriveKeepsRest
    <3>2. CASE e # c
      BY <2>6, <3>2, ArriveKeeps, CallStays
    <3> QED BY <3>1, <3>2
  <2>7. ASSUME NEW h, ExpireHold(h) PROVE calls' = calls
    BY <2>7 DEF ExpireHold, execVars
  <2>8. UNCHANGED vars => calls' = calls
    BY DEF vars, execVars
  <2> QED BY <2>1, <2>2, <2>3, <2>4, <2>5, <2>6, <2>7, <2>8, CallStays DEF Next
<1> QED BY <1>1, <1>2

(***************************************************************************)
(* An answer that arrives late overwrites no form field but the order id,  *)
(* and pushes nothing but the oldest item out of a full history (the       *)
(* updater form of setDrafts and setHistory), for any limit.               *)
(***************************************************************************)
THEOREM AnswersKeep == Spec => AnswersKeepTheRest
<1>1. FlowInv /\ [Next]_vars => [\A t \in Tabs, c \in calls : KeepsRest(t, c)]_vars
  BY StepKeepsRest
<1>2. [\A t \in Tabs, c \in calls : KeepsRest(t, c)]_vars =>
        [\A t \in Tabs, c \in calls :
          /\ c.tab = t /\ IsOpen(t) /\ page'[t] # "closed"
          /\ \A d \in calls' : d.id # c.id
          => /\ \A f \in DraftFields :
                   \/ mem'[t].drafts[f] = mem[t].drafts[f]
                   \/ f = "orderId" /\ c.req.op = "create" /\ mem'[t].drafts[f] = c.req.order
             /\ \A i \in 1 .. Len(mem[t].history) :
                   \/ \E j \in 1 .. Len(mem'[t].history) : mem'[t].history[j] = mem[t].history[i]
                   \/ i = HistoryLimit]_vars
  BY DEF KeepsRest
<1> QED BY <1>1, <1>2, FlowInvariant, PTL DEF Spec, AnswersKeepTheRest
=============================================================================
