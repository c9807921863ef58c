---------------------------- MODULE BookingFlows ----------------------------
(***************************************************************************)
(* The pages of the console that work on orders and holds: the two flows   *)
(* run with one click (create, reserve, pay and view an order; take,       *)
(* confirm and count a hold), the forms for each of their steps, and the   *)
(* polling of the current order.  The steps of a flow are awaited one      *)
(* after the other in one handler, which keeps what it needs in local      *)
(* variables while the user goes on editing, navigating and clicking.      *)
(*                                                                         *)
(* Behind them stands what the order and inventory services promise at     *)
(* their HTTP interface (see OrderService and PartitionManager for how):   *)
(* each request is served at one moment, may be refused although it could  *)
(* be done, and may be done although the answer is an error or is lost.    *)
(* An order is named by the idempotency key it was created with, and PAID  *)
(* stands for TICKETED too.                                                *)
(*                                                                         *)
(* Sources: components/WorkflowSection.tsx, OrderSection.tsx,              *)
(* InventorySection.tsx, QuerySection.tsx, pages/BookingPage.tsx,          *)
(* OrdersPage.tsx, InventoryPage.tsx.                                      *)
(***************************************************************************)
EXTENDS Executor

CONSTANTS
    MaxClock,       \* bound of the model: readings of Date.now() told apart
    MaxTroubles     \* bound of the model: requests refused, answered wrongly or lost

VARIABLES
    now,        \* the millisecond Date.now() last gave
    polling,    \* polling[t]: the booking page of tab t was asked to poll
    timers,     \* timers[t]: orders the intervals of tab t ask for
    orders,     \* orders[k]: status of the order created with key k
    payments,   \* payments[x]: the order provider transaction x paid
    holds,      \* seats held in the inventory
    answers,    \* answers on their way to the console
    troubles    \* number of troubles so far

pageVars == <<now, polling, timers>>
serverVars == <<orders, payments, holds>>
vars == <<stateVars, execVars, pageVars, serverVars, answers, troubles>>

\* Keys and transactions typed by the user carry 0, those of a flow its clock.
Keys == DraftChoices["idempotencyKey"] \X (0 .. MaxClock)
Txns == DraftChoices["providerTxnId"] \X (0 .. MaxClock)

\* What the drafts can come to: an order id is one a service gave, or one typed.
Drafts == [orderId : Keys \cup {Nil}, queryOrderId : Keys \cup {Nil},
           idempotencyKey : DraftChoices["idempotencyKey"],
           providerTxnId : DraftChoices["providerTxnId"],
           paymentStatus : DraftChoices["paymentStatus"], holdId : DraftChoices["holdId"]]

OrderOps == {"create", "reserve", "pay"}

\* Requests of the two services; fields a request has no use for are Nil.
FlowRequests ==
    [op : {"create"}, order : Keys, txn : {Nil}, status : {Nil}, hold : {Nil}]
    \cup [op : {"reserve", "get", "view"}, order : Keys \cup {Nil}, txn : {Nil},
          status : {Nil}, hold : {Nil}]
    \cup [op : {"pay"}, order : Keys \cup {Nil}, txn : Txns,
          status : DraftChoices["paymentStatus"], hold : {Nil}]
    \cup [op : {"hold", "confirm", "release"}, order : {Nil}, txn : {Nil},
          status : {Nil}, hold : DraftChoices["holdId"]]
    \cup [op : {"available"}, order : {Nil}, txn : {Nil}, status : {Nil}, hold : {Nil}]

\* What the handler of a click still has to do, with its local variables.
FlowContinuations ==
    [kind : {"none", "setOrder"}, key : {Nil}, txn : {Nil}, status : {Nil}, hold : {Nil}]
    \cup [kind : {"order"}, key : Keys, txn : Txns,
          status : DraftChoices["paymentStatus"], hold : {Nil}]
    \cup [kind : {"hold"}, key : {Nil}, txn : {Nil}, status : {Nil},
          hold : DraftChoices["holdId"]]

ASSUME FlowAssumption ==
    /\ Requests = FlowRequests
    /\ Continuations = FlowContinuations
    /\ MaxClock \in Nat \ {0} /\ MaxTroubles \in Nat
    /\ Nil \notin Keys
    /\ {"booking", "orders", "inventory"} \subseteq Pages
    /\ DraftFields = {"orderId", "queryOrderId", "idempotencyKey", "providerTxnId",
                      "paymentStatus", "holdId"}
    /\ InitialDrafts \in Drafts
    /\ DraftChoices["orderId"] \cup DraftChoices["queryOrderId"] \subseteq Keys \cup {Nil}

OrderReq(op, o) == [op |-> op, order |-> o, txn |-> Nil, status |-> Nil, hold |-> Nil]
PayReq(o, x, s) == [OrderReq("pay", o) EXCEPT !.txn = x, !.status = s]
HoldReq(op, h) == [OrderReq(op, Nil) EXCEPT !.hold = h]

Then(kind) == [kind |-> kind, key |-> Nil, txn |-> Nil, status |-> Nil, hold |-> Nil]

Draft(t) == mem[t].drafts

Init ==
    /\ StateInit
    /\ ExecInit
    /\ now = 1
    /\ polling = [t \in Tabs |-> FALSE]
    /\ timers = [t \in Tabs |-> {}]
    /\ answers = {}
    /\ holds = {}
    /\ troubles = 0
    /\ orders = [k \in Keys |-> "none"]
    /\ payments = [x \in Txns |-> Nil]

-----------------------------------------------------------------------------
(* The services. *)

\* Whether a service can do what is asked.
Accepts(r) ==
    CASE r.op = "reserve" -> r.order \in Keys /\ orders[r.order] \in {"INIT", "RESERVED"}
      [] r.op = "pay" -> /\ r.status = "SUCCESS"
                         /\ r.order \in Keys /\ orders[r.order] \in {"RESERVED", "PAID"}
      [] r.op = "get" -> r.order \in Keys /\ orders[r.order] # "none"
      [] r.op \in {"confirm", "release"} -> r.hold \in holds
      [] OTHER -> TRUE

\* Mutant: the order of a key that was seen before is created again.
DoCreateAgain(k) == orders' = [orders EXCEPT ![k] = "INIT"] /\ UNCHANGED <<payments, holds>>

\* CreateOrder: a key that was seen before gives its order as it is.
DoCreate(k) ==
    /\ orders' = IF orders[k] = "none" THEN [orders EXCEPT ![k] = "INIT"] ELSE orders
    /\ UNCHANGED <<payments, holds>>

DoReserve(o) == orders' = [orders EXCEPT ![o] = "RESERVED"] /\ UNCHANGED <<payments, holds>>

\* PaymentCallback: a transaction that is recorded already changes nothing, and
\* the order is answered as it stands.
DoPay(o, x) ==
    LET first == orders[o] = "RESERVED" /\ payments[x] = Nil IN
    /\ orders' = IF first THEN [orders EXCEPT ![o] = "PAID"] ELSE orders
    /\ payments' = IF first THEN [payments EXCEPT ![x] = o] ELSE payments
    /\ UNCHANGED holds

DoHold(r) ==
    /\ holds' = IF r.op = "hold" THEN holds \cup {r.hold} ELSE holds \ {r.hold}
    /\ UNCHANGED <<orders, payments>>

Do(r) ==
    CASE r.op = "create" -> DoCreate(r.order)
      [] r.op = "reserve" -> DoReserve(r.order)
      [] r.op = "pay" -> DoPay(r.order, r.txn)
      [] r.op \in {"hold", "confirm", "release"} -> DoHold(r)
      [] OTHER -> UNCHANGED serverVars

Trouble == troubles < MaxTroubles /\ troubles' = troubles + 1

Served(c) == \E a \in answers : a.id = c.id

(***************************************************************************)
(* A service takes a request, does it or refuses it, and answers; an error *)
(* may be answered after it was done (the read that follows the commit     *)
(* fails).  Nobody waits for the answer of a call without a tab.           *)
(***************************************************************************)
Serve(c) ==
    /\ ~Served(c)
    /\ \E done, ok \in BOOLEAN :
        /\ done => Accepts(c.req)
        /\ ok => done
        /\ IF Accepts(c.req) /\ ~ok THEN Trouble ELSE UNCHANGED troubles
        /\ IF done THEN Do(c.req) ELSE UNCHANGED serverVars
        /\ answers' = IF c.tab = Nil THEN answers ELSE answers \cup {[id |-> c.id, ok |-> ok,
                data |-> IF ok /\ c.req.op \in OrderOps THEN c.req.order ELSE Nil]}
    /\ calls' = IF c.tab = Nil THEN calls \ {c} ELSE calls
    /\ UNCHANGED <<stateVars, sent, result, pageVars>>

\* A hold that was never confirmed expires.
ExpireHold(h) ==
    /\ h \in holds
    /\ Gesture
    /\ holds' = holds \ {h}
    /\ UNCHANGED <<store, mem, dirty, page, writer, execVars, pageVars, orders, payments, answers, troubles>>

-----------------------------------------------------------------------------
(* The console. *)

\* The calls in cs lose their tab: what is served is forgotten, the rest may
\* still reach its service.
Abandon(cs) ==
    /\ calls' = (calls \ cs) \cup {[c EXCEPT !.tab = Nil] : c \in {d \in cs : ~Served(d)}}
    /\ answers' = {a \in answers : \A c \in cs : c.id # a.id}

OpenTab(t, p) ==
    /\ Open(t, p)
    /\ ResultReset(t)
    /\ UNCHANGED <<calls, sent, pageVars, serverVars, answers, troubles>>

CloseTab(t) ==
    /\ Close(t)
    /\ ResultReset(t)
    /\ Abandon({c \in calls : c.tab = t})
    /\ polling' = [polling EXCEPT ![t] = FALSE]
    /\ timers' = [timers EXCEPT ![t] = {}]
    /\ UNCHANGED <<sent, now, serverVars, troubles>>

Effects(t) == Save(t) /\ UNCHANGED <<execVars, pageVars, serverVars, answers, troubles>>

\* Leaving the booking page forgets that it was asked to poll.
Move(t) ==
    /\ \/ \E u \in Users : Login(t, u)
       \/ Logout(t)
       \/ \E p \in Pages : Goto(t, p)
    /\ polling' = [polling EXCEPT ![t] = FALSE]
    /\ UNCHANGED <<execVars, now, timers, serverVars, answers, troubles>>

FieldsOf(p) ==
    CASE p = "booking" -> {"queryOrderId"}
      [] p = "orders" -> DraftFields \ {"holdId"}
      [] p = "inventory" -> {"holdId"}
      [] OTHER -> {}

Type(t) ==
    /\ \E f \in FieldsOf(page[t]) : \E v \in DraftChoices[f] : Edit(t, f, v)
    /\ UNCHANGED <<execVars, pageVars, serverVars, answers, troubles>>

\* The button of QuerySection that takes over the current order id.
UseCurrentOrder(t) ==
    /\ page[t] \in {"booking", "orders"}
    /\ Edit(t, "queryOrderId", Draft(t).orderId)
    /\ UNCHANGED <<execVars, pageVars, serverVars, answers, troubles>>

\* The main flow: its key and its transaction end in the clock.
StartOrderFlow(t) ==
    \E k, x \in now .. MaxClock :
        LET key == <<Draft(t).idempotencyKey, k>> IN
        /\ k <= x
        /\ now' = x
        /\ Start(t, "booking", 2, OrderReq("create", key),
                 [kind |-> "order", key |-> key, txn |-> <<Draft(t).providerTxnId, x>>,
                  status |-> Draft(t).paymentStatus, hold |-> Nil])
        /\ UNCHANGED <<polling, timers, serverVars, answers, troubles>>

StartHoldFlow(t) ==
    /\ Start(t, "booking", 2, HoldReq("hold", Draft(t).holdId),
             [Then("hold") EXCEPT !.hold = Draft(t).holdId])
    /\ UNCHANGED <<pageVars, serverVars, answers, troubles>>

\* OrderSection: the create form takes over the new order's id when it is answered.
OrderForm(t) ==
    LET d == Draft(t) IN
    /\ \/ Click(t, "orders", OrderReq("create", <<d.idempotencyKey, 0>>), Then("setOrder"))
       \/ \E op \in {"reserve", "get"} : Click(t, "orders", OrderReq(op, d.orderId), Then("none"))
       \/ Click(t, "orders", PayReq(d.orderId, <<d.providerTxnId, 0>>, d.paymentStatus), Then("none"))
    /\ UNCHANGED <<pageVars, serverVars, answers, troubles>>

\* InventorySection.
HoldForm(t) ==
    /\ \/ \E op \in {"hold", "confirm", "release"} :
             Click(t, "inventory", HoldReq(op, Draft(t).holdId), Then("none"))
       \/ Click(t, "inventory", HoldReq("available", Nil), Then("none"))
    /\ UNCHANGED <<pageVars, serverVars, answers, troubles>>

\* QuerySection, on two pages.
QueryForm(t) ==
    /\ \E p \in {"booking", "orders"} :
          Click(t, p, OrderReq("view", Draft(t).queryOrderId), Then("none"))
    /\ UNCHANGED <<pageVars, serverVars, answers, troubles>>

ReplayItem(t) == Replay(t, Then("none")) /\ UNCHANGED <<pageVars, serverVars, answers, troubles>>

Clear(t) == ClearHistory(t) /\ UNCHANGED <<pageVars, serverVars, answers, troubles>>

TogglePolling(t) ==
    /\ page[t] = "booking"
    /\ Gesture
    /\ polling' = [polling EXCEPT ![t] = ~@]
    /\ UNCHANGED <<store, mem, dirty, page, writer, execVars, now, timers, serverVars, answers, troubles>>

\* The order the polling effect starts an interval for, if any.
Polled(t) == {o \in {Draft(t).orderId} : page[t] = "booking" /\ polling[t] /\ o # Nil}

\* Mutant: the effect does not clear the interval it started before.
PollEffectLeaks(t) ==
    /\ timers' = [timers EXCEPT ![t] = @ \cup Polled(t)]
    /\ UNCHANGED <<stateVars, execVars, now, polling, serverVars, answers, troubles>>

\* The effect of the polling after its clean-up.  It runs after every render, since
\* execute is a new function each time; where the order is still the same, that only
\* starts the three seconds anew.
PollEffect(t) ==
    /\ timers' = [timers EXCEPT ![t] = Polled(t)]
    /\ UNCHANGED <<stateVars, execVars, now, polling, serverVars, answers, troubles>>

\* An interval of three seconds is over (it counts as a gesture in the bound).
PollTick(t) ==
    /\ Gesture
    /\ \E o \in timers[t] : Send(t, OrderReq("view", o), Then("none"))
    /\ UNCHANGED <<store, mem, dirty, page, writer, pageVars, serverVars, answers, troubles>>

\* Mutant: the flow reads the order id of the drafts when it goes on.
NextRequestOfDrafts(c, o) ==
    CASE c.then.kind = "order" /\ c.req.op = "create" -> {OrderReq("reserve", Draft(c.tab).orderId)}
      [] c.then.kind = "order" /\ c.req.op = "reserve" ->
            {PayReq(Draft(c.tab).orderId, c.then.txn, c.then.status)}
      [] OTHER -> {}

(***************************************************************************)
(* The request a flow sends when call c was answered ok with order o.      *)
(***************************************************************************)
NextRequest(c, o) ==
    CASE c.then.kind = "order" /\ c.req.op = "create" -> {OrderReq("reserve", o)}
      [] c.then.kind = "order" /\ c.req.op = "reserve" ->
            {PayReq(c.req.order, c.then.txn, c.then.status)}
      [] c.then.kind = "order" /\ c.req.op = "pay" -> {OrderReq("view", c.req.order)}
      [] c.then.kind = "hold" /\ c.req.op = "hold" -> {HoldReq("confirm", c.then.hold)}
      [] c.then.kind = "hold" /\ c.req.op = "confirm" -> {HoldReq("available", Nil)}
      [] OTHER -> {}

\* setOrderId after a create, by the flow or by the form.
SetsOrder(c, a) == a.ok /\ c.req.op = "create" /\ c.then.kind # "none"

\* Mutant: the other fields are taken from the drafts saved last.
NewDraftsSaved(c, a) ==
    IF SetsOrder(c, a) THEN [store.drafts EXCEPT !.orderId = a.data] ELSE Draft(c.tab)

NewDrafts(c, a) == IF SetsOrder(c, a) THEN [Draft(c.tab) EXCEPT !.orderId = a.data] ELSE Draft(c.tab)

\* Mutant: every answer that arrives is recorded as ok.
ArriveAsOk(c, a) ==
    /\ a.id = c.id
    /\ Show(c, TRUE, {k \in {"drafts"} : SetsOrder(c, a)}, NewDrafts(c, a))
    /\ SendNext(c, IF a.ok THEN NextRequest(c, a.data) ELSE {}, c.then)
    /\ answers' = answers \ {a}
    /\ UNCHANGED <<pageVars, serverVars, troubles>>

\* An answer is shown and recorded; one that is not ok ends the handler.
Arrive(c, a) ==
    /\ a.id = c.id
    /\ Show(c, a.ok, {k \in {"drafts"} : SetsOrder(c, a)}, NewDrafts(c, a))
    /\ SendNext(c, IF a.ok THEN NextRequest(c, a.data) ELSE {}, c.then)
    /\ answers' = answers \ {a}
    /\ UNCHANGED <<pageVars, serverVars, troubles>>

\* The fetch fails: the handler ends, the request may be served all the same.
Lose(c) ==
    /\ c.tab # Nil
    /\ Trouble
    /\ Abandon({c})
    /\ ShowNothing
    /\ UNCHANGED <<sent, pageVars, serverVars>>

Next ==
    \/ \E t \in Tabs :
        \/ \E p \in Pages \cup {"login"} : OpenTab(t, p)
        \/ CloseTab(t) \/ Effects(t) \/ Move(t) \/ Type(t) \/ UseCurrentOrder(t)
        \/ StartOrderFlow(t) \/ StartHoldFlow(t)
        \/ OrderForm(t) \/ HoldForm(t) \/ QueryForm(t)
        \/ ReplayItem(t) \/ Clear(t)
        \/ TogglePolling(t) \/ PollEffect(t) \/ PollTick(t)
    \/ \E c \in calls : Serve(c) \/ Lose(c) \/ \E a \in answers : Arrive(c, a)
    \/ \E h \in DraftChoices["holdId"] : ExpireHold(h)

Spec == Init /\ [][Next]_vars
-----------------------------------------------------------------------------

Copies == [session : Users \cup {Nil}, history : Seq(HistoryItem), drafts : Drafts]

FlowTypeOK ==
    /\ store \in Copies /\ mem \in [Tabs -> Copies]
    /\ dirty \in [Tabs -> SUBSET Slots]
    /\ page \in [Tabs -> Pages \cup {"login", "closed"}]
    /\ writer \in [Slots -> Tabs \cup {Nil}]
    /\ gestures \in 0 .. MaxGestures
    /\ calls \subseteq Call /\ sent \in Nat /\ result \in [Tabs -> 0 .. sent]
    /\ now \in 1 .. MaxClock
    /\ polling \in [Tabs -> BOOLEAN] /\ timers \in [Tabs -> SUBSET Keys]
    /\ \A t \in Tabs, o, p \in Keys : {o, p} \subseteq timers[t] => o = p
    /\ orders \in [Keys -> {"none", "INIT", "RESERVED", "PAID"}]
    /\ payments \in [Txns -> Keys \cup {Nil}]
    /\ holds \subseteq DraftChoices["holdId"] /\ troubles \in 0 .. MaxTroubles
    /\ answers \subseteq [id : 1 .. sent, ok : BOOLEAN, data : Keys \cup {Nil}]

\* Order o is paid, or its payment x was taken for the retry of another order's.
Settled(o, x) == orders[o] = "PAID" \/ payments[x] \notin {Nil, o}

\* What an ok answer to request r says of the order service.
Done(r) ==
    CASE r.op = "create" -> orders[r.order] # "none"
      [] r.op = "reserve" -> orders[r.order] \in {"RESERVED", "PAID"}
      [] r.op = "pay" -> Settled(r.order, r.txn)
      [] OTHER -> TRUE

(***************************************************************************)
(* A request that a history shows as ok is done at the order service,      *)
(* through reloads, other tabs and replays: the order exists, is reserved, *)
(* is paid.  The exception is in the code: a payment whose transaction was *)
(* used for another order is answered 200 and leaves its order unpaid      *)
(* (PaymentCallback on duplicate key; the form sends the drafts'           *)
(* transaction unchanged).                                                 *)
(***************************************************************************)
OkMeansDone ==
    \A h \in Histories : \A i \in 1 .. Len(h) : h[i].ok => Done(h[i].req)

(***************************************************************************)
(* Flows that run side by side never mix: each call of an order flow names *)
(* the order its own key made and its own transaction, whatever the drafts *)
(* hold by then, and a step is sent only when the step before it is done;  *)
(* the hold flow likewise names the hold it began with (the local          *)
(* variables of the handlers of WorkflowSection, and execute throwing on   *)
(* an answer that is not ok).                                              *)
(***************************************************************************)
FlowsAreApart ==
    \A c \in calls :
        /\ c.then.kind = "order" =>
              /\ c.req.order = c.then.key
              /\ c.req.op = "reserve" => orders[c.then.key] # "none"
              /\ c.req.op = "pay" => /\ c.req.txn = c.then.txn
                                    /\ orders[c.then.key] \in {"RESERVED", "PAID"}
              /\ c.req.op = "view" => Settled(c.then.key, c.then.txn)
        /\ c.then.kind = "hold" => c.req.hold \in {c.then.hold, Nil}

(***************************************************************************)
(* Replaying a request that a history shows as ok changes no order and no  *)
(* payment, however often and from whichever tab: what changes them is a   *)
(* request that no history shows as ok (the idempotency key, the status    *)
(* guards and the unique transaction of the order service).                *)
(***************************************************************************)
ReplayChangesNothing ==
    [][<<orders, payments>>' # <<orders, payments>> =>
          \E c \in calls :
             /\ ~Served(c)
             /\ c \notin calls' \/ \E a \in answers' : a.id = c.id
             /\ \A h \in Histories : \A i \in 1 .. Len(h) : h[i].ok => h[i].req # c.req]_vars

(***************************************************************************)
(* A call that ends takes away nothing that came about while it was on its *)
(* way: of the form fields it touches the current order id only, to set it *)
(* to the order its own create made, and of the history it drops the       *)
(* oldest item only, when the history is full (setDrafts and setHistory    *)
(* with the updater form, slice(0, 100)).                                  *)
(***************************************************************************)
AnswersKeepTheRest ==
    [][\A t \in Tabs, c \in calls :
          /\ c.tab = t /\ IsOpen(t) /\ page'[t] # "closed"
          /\ \A d \in calls' : d.id # c.id
          => /\ \A f \in DraftFields :
                   \/ mem'[t].drafts[f] = mem[t].drafts[f]
                   \/ f = "orderId" /\ c.req.op = "create" /\ mem'[t].drafts[f] = c.req.order
             /\ \A i \in 1 .. Len(mem[t].history) :
                   \/ \E j \in 1 .. Len(mem'[t].history) : mem'[t].history[j] = mem[t].history[i]
                   \/ i = HistoryLimit]_vars
=============================================================================
