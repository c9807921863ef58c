------------------------- MODULE HealthBoardProofs --------------------------
(***************************************************************************)
(* That the dashboard shows what its checks ended with and that nothing    *)
(* shown is lost to the other tabs, for all sets of tabs, services, pages  *)
(* and fields, and any number of checks under way.                         *)
(*                                                                         *)
(* The invariant adds to what every page keeps (ConsoleProofs) that the    *)
(* number of a call under way is in no history yet: only so does the item  *)
(* that a history gets say which check has ended.                          *)
(***************************************************************************)
EXTENDS HealthBoard, ConsoleProofs

\* What is recorded has ended.
ItemsAreOld ==
  \A x \in Items : x.id \in 1 .. sent /\ \A c \in calls : x.id # c.id

BoardInv ==
  /\ Kempt(Drafts)
  /\ Numbered
  /\ ItemsAreOld
  /\ \A c \in calls : c.tab \in Tabs
  /\ status \in [Tabs -> [Requests -> {"unknown", "ready", "down"}]]

USE BoardAssumption

-----------------------------------------------------------------------------
(* Helpers                                                                 *)

LEMMA ServicesAreRequests ==
  /\ Len(Services) \in Nat \ {0}
  /\ \A i \in 1 .. Len(Services) : Services[i] \in Requests
BY EmptySeq

LEMMA UnknownIsTyped == Unknown \in [Requests -> {"unknown", "ready", "down"}]
BY DEF Unknown

LEMMA UnmountedKeeps ==
  ASSUME NEW c \in Call
  PROVE  /\ Unmounted(c) \in Call /\ Unmounted(c).id = c.id /\ Unmounted(c).tab = c.tab
         /\ Unmounted(c).req = c.req
<1>1. c.then \in [at : 0 .. Len(Services), mounted : BOOLEAN]
  BY DEF Call
<1> DEFINE then == [c.then EXCEPT !.mounted = FALSE]
<1>2. then \in Continuations
  BY <1>1
<1>3. Unmounted(c) = [c EXCEPT !.then = then]
  BY DEF Unmounted, Call
<1> HIDE DEF then
<1> QED BY <1>2, <1>3 DEF Call

LEMMA ItemsStayOld ==
  ASSUME ItemsAreOld, Numbered, Items' \subseteq Items, sent' \in {sent, sent + 1},
         \A c \in calls' : (\E d \in calls : c.id = d.id) \/ c.id = sent + 1
  PROVE  ItemsAreOld'
BY DEF ItemsAreOld, Numbered

\* A page that is left marks its calls, and no more.
LEMMA LeaveBoardKeeps ==
  ASSUME BoardInv, NEW t \in Tabs, LeaveBoard(t), UNCHANGED <<sent, result>>
  PROVE  /\ Numbered'
         /\ \A c \in calls' : \E d \in calls : c.id = d.id /\ c.tab = d.tab
         /\ \A c \in calls : \E d \in calls' : c.id = d.id
         /\ \A s \in Tabs \ {t} : status'[s] = status[s]
         /\ page[t] = "dashboard" /\ page'[t] = "dashboard" => status' = status
         /\ status' \in [Tabs -> [Requests -> {"unknown", "ready", "down"}]]
<1>1. calls \subseteq Call /\ result \in [Tabs -> 0 .. sent]
  BY DEF BoardInv, Numbered
<1>2. CASE UNCHANGED <<status, calls>>
  BY <1>1, <1>2 DEF BoardInv, Numbered
<1>3. CASE /\ ~(page'[t] = "dashboard" /\ page[t] = "dashboard")
           /\ status' = [status EXCEPT ![t] = Unknown]
           /\ calls' = {IF c.tab = t THEN Unmounted(c) ELSE c : c \in calls}
  <2>1. \A c \in calls' : \E d \in calls :
           /\ c = IF d.tab = t THEN Unmounted(d) ELSE d
           /\ c \in Call /\ c.id = d.id /\ c.tab = d.tab
    BY <1>1, <1>3, UnmountedKeeps
  <2>2. \A c \in calls : \E d \in calls' : c.id = d.id
    BY <1>1, <1>3, UnmountedKeeps
  <2>3. \A c, d \in calls' : c.id = d.id => c = d
    BY <2>1 DEF BoardInv, Numbered
  <2>4. Numbered'
    BY <1>1, <2>1, <2>3, NumberedKept DEF BoardInv
  <2>5. status' \in [Tabs -> [Requests -> {"unknown", "ready", "down"}]]
    BY <1>3, UnknownIsTyped DEF BoardInv
  <2> QED BY <1>3, <2>1, <2>2, <2>4, <2>5 DEF BoardInv
<1> QED BY <1>2, <1>3 DEF LeaveBoard

\* A click adds one call, and leaves the state kempt and the items as they are.
LEMMA ClickKeeps ==
  ASSUME BoardInv, NEW t \in Tabs, NEW req \in Requests, NEW then \in Continuations,
         NEW p, Click(t, p, req, then), status' = status
  PROVE  BoardInv' /\ calls \subseteq calls'
<1>1. Send(t, req, then) /\ UNCHANGED <<store, mem, dirty, page, writer>> /\ Effort(1)
  BY DEF Click, Start
<1>2. Kempt(Drafts)'
  <2>1. gestures' \in 0 .. MaxGestures
    BY <1>1, EffortIsBounded DEF BoardInv, Kempt, Shape
  <2> QED BY <1>1, <2>1, KemptStutter DEF BoardInv
<1>3. Numbered' /\ NewCall(t, req, then).id = sent + 1
  BY <1>1, NumberedSend DEF BoardInv
<1>4. calls' = calls \cup {NewCall(t, req, then)} /\ sent' = sent + 1
  BY <1>1 DEF Send
<1>5. Items' \subseteq Items
  BY <1>1, GesturesAddNothing, ItemsStay DEF BoardInv
<1>6. ItemsAreOld'
  BY <1>3, <1>4, <1>5, ItemsStayOld DEF BoardInv
<1>7. NewCall(t, req, then).tab \in Tabs
  BY DEF NewCall
<1> QED BY <1>2, <1>3, <1>4, <1>6, <1>7 DEF BoardInv

-----------------------------------------------------------------------------
(* The invariant                                                           *)

LEMMA BoardInit == Init => BoardInv
<1> SUFFICES ASSUME Init PROVE BoardInv
  OBVIOUS
<1>1. Kempt(Drafts)
  BY KemptInit DEF Init
<1>2. Numbered
  BY DEF Init, ExecInit, Numbered
<1>3. ItemsAreOld
  <2>1. \A h \in Histories : Len(h) = 0
    <3>1. store.history = <<>> /\ \A t \in Tabs : mem[t].history = <<>>
      BY DEF Init, StateInit, Fresh
    <3>2. Len(<<>>) = 0
      OBVIOUS
    <3> QED BY <3>1, <3>2 DEF Histories
  <2> QED BY <2>1 DEF ItemsAreOld, Items
<1> QED BY <1>1, <1>2, <1>3, UnknownIsTyped DEF Init, ExecInit, BoardInv

\* The end of a check: what it shows, and the turn that follows it.
LEMMA EndCheckKeeps ==
  ASSUME BoardInv, NEW c \in calls, NEW o \in Outcomes, EndCheck(c, o)
  PROVE  /\ BoardInv'
         /\ \A d \in calls' : d \in calls \ {c} \/ d.id = sent + 1
         /\ calls \ {c} \subseteq calls'
<1>1. c \in Call /\ c.tab \in Tabs /\ c.id \in 1 .. sent /\ sent \in Nat
  BY DEF BoardInv, Numbered
<1>2. c.then \in [at : 0 .. Len(Services), mounted : BOOLEAN] /\ c.req \in Requests
  BY <1>1 DEF Call
<1>3. /\ NextTurn(c, o) \in SUBSET Requests /\ \A r, s \in NextTurn(c, o) : r = s
      /\ NextTurn(c, o) # {} => [c.then EXCEPT !.at = @ + 1] \in Continuations
  <2>1. CASE c.then.at \in 1 .. Len(Services) - 1
    <3>1. c.then.at + 1 \in 1 .. Len(Services)
      BY <2>1, ServicesAreRequests
    <3>2. NextTurn(c, o) = {Services[c.then.at + 1]} /\ Services[c.then.at + 1] \in Requests
      BY <2>1, <3>1, ServicesAreRequests DEF NextTurn
    <3>3. [c.then EXCEPT !.at = @ + 1] \in [at : 0 .. Len(Services), mounted : BOOLEAN]
      BY <1>2, <3>1
    <3> QED BY <3>2, <3>3
  <2>2. CASE c.then.at \notin 1 .. Len(Services) - 1
    BY <2>2 DEF NextTurn
  <2> QED BY <2>1, <2>2
<1>4. result' = result \/ result' = [result EXCEPT ![c.tab] = c.id]
  BY DEF EndCheck, ShowNothing, Show
<1>5. Numbered' /\ \A d \in calls' : d \in calls \ {c} \/ d.id = sent + 1
  BY <1>1, <1>3, <1>4, NumberedNext DEF EndCheck, BoardInv
<1>6. calls \ {c} \subseteq calls' /\ sent' \in {sent, sent + 1}
      /\ \A d \in calls' : d \in calls \/ d.tab = c.tab
  BY DEF EndCheck, SendNext, NewCall
<1>7. status' \in [Tabs -> [Requests -> {"unknown", "ready", "down"}]]
  <2>1. Badges(c, o) \in [Requests -> {"unknown", "ready", "down"}]
    BY <1>1, <1>2 DEF Badges, BoardInv
  <2>2. status' = [status EXCEPT ![c.tab] = Badges(c, o)] \/ status' = status
    BY DEF EndCheck
  <2> QED BY <1>1, <2>1, <2>2 DEF BoardInv
<1>8. CASE o = "lost"
  <2>1. UNCHANGED <<store, mem, dirty, page, writer, gestures>>
    BY <1>8 DEF EndCheck, ShowNothing
  <2>2. Kempt(Drafts)'
    BY <2>1, KemptStutter DEF BoardInv, Kempt, Shape
  <2>3. Items' \subseteq Items
    BY <1>1, <2>1, GesturesAddNothing, ItemsStay DEF BoardInv
  <2>4. ItemsAreOld'
    BY <1>5, <1>6, <2>3, ItemsStayOld DEF BoardInv
  <2> QED BY <1>1, <1>5, <1>6, <1>7, <2>2, <2>4 DEF BoardInv
<1>9. CASE o # "lost"
  <2> DEFINE ok == o = "ok"
             item == [id |-> c.id, req |-> c.req, ok |-> ok]
  <2>1. Show(c, ok, {}, mem[c.tab].drafts) /\ ok \in BOOLEAN
    BY <1>9 DEF EndCheck
  <2> HIDE DEF ok
  <2>2. mem[c.tab].drafts \in Drafts
    BY <1>1 DEF BoardInv, Kempt, Shape, Copy
  <2>3. Kempt(Drafts)'
    BY <1>1, <2>1, <2>2, KemptShow DEF BoardInv
  <2>4. Items' \subseteq Items \cup {item} /\ item.id = c.id
    BY <1>1, <2>1, ShowRecords DEF BoardInv
  <2> HIDE DEF item
  <2>5. ASSUME NEW x \in Items', NEW d \in calls'
        PROVE  x.id \in 1 .. sent' /\ x.id # d.id
    <3>1. x.id \in 1 .. sent
      BY <1>1, <2>4 DEF BoardInv, ItemsAreOld
    <3>2. x.id \in 1 .. sent'
      BY <1>1, <1>6, <3>1
    <3>3. CASE d.id = sent + 1
      BY <1>1, <3>1, <3>2, <3>3
    <3>4. CASE d \in calls \ {c}
      BY <1>1, <2>4, <3>2, <3>4 DEF BoardInv, ItemsAreOld, Numbered
    <3> QED BY <1>5, <3>3, <3>4
  <2>6. \A x \in Items' : x.id \in 1 .. sent'
    <3>1. \A x \in Items' : x.id \in 1 .. sent
      BY <1>1, <2>4 DEF BoardInv, ItemsAreOld
    <3> QED BY <1>1, <1>6, <3>1
  <2>7. ItemsAreOld'
    BY <2>5, <2>6 DEF ItemsAreOld
  <2> QED BY <1>1, <1>5, <1>6, <1>7, <2>3, <2>7 DEF BoardInv
<1> QED BY <1>5, <1>6, <1>8, <1>9

LEMMA OpenTabKeeps ==
  ASSUME BoardInv, NEW t \in Tabs, NEW p \in Pages \cup {"login"}, OpenTab(t, p)
  PROVE  BoardInv'
<1>1. Kempt(Drafts)'
  BY KemptOpen DEF OpenTab, BoardInv
<1>2. Items' \subseteq Items
  BY GesturesAddNothing, ItemsStay DEF OpenTab, BoardInv
<1>3. Numbered'
  BY NumberedReset, NumberedKept DEF OpenTab, BoardInv, Numbered
<1>4. ItemsAreOld'
  BY <1>2, ItemsStayOld DEF OpenTab, BoardInv
<1> QED BY <1>1, <1>3, <1>4 DEF OpenTab, BoardInv

LEMMA CloseTabKeeps ==
  ASSUME BoardInv, NEW t \in Tabs, CloseTab(t)
  PROVE  BoardInv'
<1>1. Kempt(Drafts)'
  BY KemptClose DEF CloseTab, BoardInv
<1>2. Items' \subseteq Items
  BY GesturesAddNothing, ItemsStay DEF CloseTab, BoardInv
<1>3. Numbered'
  BY NumberedReset, NumberedKept DEF CloseTab, BoardInv, Numbered
<1>4. ItemsAreOld'
  BY <1>2, ItemsStayOld DEF CloseTab, BoardInv
<1>5. status' \in [Tabs -> [Requests -> {"unknown", "ready", "down"}]]
  BY UnknownIsTyped DEF CloseTab, BoardInv
<1> QED BY <1>1, <1>3, <1>4, <1>5 DEF CloseTab, BoardInv

LEMMA MoveKeeps ==
  ASSUME BoardInv, NEW t \in Tabs, Move(t)
  PROVE  BoardInv'
<1>1. Kempt(Drafts)'
  BY KemptLogin, KemptLogout, KemptGoto DEF Move, BoardInv
<1>2. Items' \subseteq Items
  BY GesturesAddNothing, ItemsStay DEF Move, BoardInv
<1>3. /\ Numbered'
      /\ \A c \in calls' : \E d \in calls : c.id = d.id /\ c.tab = d.tab
      /\ status' \in [Tabs -> [Requests -> {"unknown", "ready", "down"}]]
  BY LeaveBoardKeeps DEF Move
<1>4. ItemsAreOld'
  BY <1>2, <1>3, ItemsStayOld DEF Move, BoardInv
<1> QED BY <1>1, <1>3, <1>4 DEF BoardInv

\* The state changes and the calls do not: effects, typing, clearing, stuttering.
LEMMA QuietKeeps ==
  ASSUME BoardInv, Kempt(Drafts)', HistoriesStay, UNCHANGED <<execVars, status>>
  PROVE  BoardInv'
<1>1. Items' \subseteq Items
  BY ItemsStay
<1>2. Numbered'
  BY DEF BoardInv, Numbered, execVars
<1>3. ItemsAreOld'
  BY <1>1, ItemsStayOld DEF BoardInv, execVars
<1> QED BY <1>2, <1>3 DEF BoardInv, execVars

LEMMA TypeKeeps ==
  ASSUME BoardInv, NEW t \in Tabs, Type(t)
  PROVE  BoardInv'
<1>1. PICK f \in DraftFields : \E v \in DraftChoices[f] : Edit(t, f, v)
  BY DEF Type
<1>2. PICK v \in DraftChoices[f] : Edit(t, f, v)
  BY <1>1
<1>3. mem[t].drafts \in Drafts
  BY DEF BoardInv, Kempt, Shape, Copy
<1>4. [mem[t].drafts EXCEPT ![f] = v] \in Drafts
  BY <1>3 DEF Drafts
<1>5. Kempt(Drafts)'
  BY <1>2, <1>4, KemptEdit DEF BoardInv
<1>6. HistoriesStay
  BY <1>2, GesturesAddNothing DEF BoardInv
<1> QED BY <1>5, <1>6, QuietKeeps DEF Type

\* Replaying is a click with a request of the history.
LEMMA ReplayedIsRequest ==
  ASSUME BoardInv, NEW t \in Tabs, NEW i \in 1 .. Len(mem[t].history)
  PROVE  mem[t].history[i].req \in Requests
<1>1. mem[t].history \in Seq(HistoryItem)
  BY DEF BoardInv, Kempt, Shape, Copy
<1>2. mem[t].history[i] \in HistoryItem
  BY <1>1, ElementOfSeq
<1> QED BY <1>2 DEF HistoryItem

\* The clicks of the dashboard: each adds a call and leaves the rest.
LEMMA ClicksKeep ==
  ASSUME BoardInv, NEW t \in Tabs,
         (\E s \in Requests : CheckOne(t, s)) \/ CheckAll(t) \/ ReplayCheck(t)
  PROVE  BoardInv' /\ calls \subseteq calls' /\ status' = status
<1>1. 0 \in 0 .. Len(Services) /\ 1 \in 0 .. Len(Services) /\ Services[1] \in Requests
  BY ServicesAreRequests
<1>2. /\ [at |-> 0, mounted |-> TRUE] \in Continuations
      /\ [at |-> 0, mounted |-> FALSE] \in Continuations
      /\ [at |-> 1, mounted |-> TRUE] \in Continuations
  BY <1>1
<1>3. CASE \E s \in Requests : CheckOne(t, s)
  BY <1>2, <1>3, ClickKeeps DEF CheckOne
<1>4. CASE CheckAll(t)
  BY <1>1, <1>2, <1>4, ClickKeeps DEF CheckAll
<1>5. CASE ReplayCheck(t)
  BY <1>2, <1>5, ClickKeeps, ReplayedIsRequest DEF ReplayCheck, Replay
<1> QED BY <1>3, <1>4, <1>5

LEMMA BoardStep == BoardInv /\ [Next]_vars => BoardInv'
<1> SUFFICES ASSUME BoardInv, [Next]_vars PROVE BoardInv'
  OBVIOUS
<1>1. ASSUME NEW t \in Tabs, NEW p \in Pages \cup {"login"}, OpenTab(t, p) PROVE BoardInv'
  BY <1>1, OpenTabKeeps
<1>2. ASSUME NEW t \in Tabs, CloseTab(t) PROVE BoardInv'
  BY <1>2, CloseTabKeeps
<1>3. ASSUME NEW t \in Tabs, Effects(t) PROVE BoardInv'
  BY <1>3, KemptSave, GesturesAddNothing, QuietKeeps DEF Effects, BoardInv
<1>4. ASSUME NEW t \in Tabs, Move(t) PROVE BoardInv'
  BY <1>4, MoveKeeps
<1>5. ASSUME NEW t \in Tabs, Type(t) PROVE BoardInv'
  BY <1>5, TypeKeeps
<1>6. ASSUME NEW t \in Tabs,
             (\E s \in Requests : CheckOne(t, s)) \/ CheckAll(t) \/ ReplayCheck(t)
      PROVE  BoardInv'
  BY <1>6, ClicksKeep
<1>7. ASSUME NEW t \in Tabs, Clear(t) PROVE BoardInv'
  <2>1. ClearHistory(t) /\ UNCHANGED <<execVars, status>>
    BY <1>7 DEF Clear, ClearHistory
  <2>2. Kempt(Drafts)' /\ HistoriesStay
    BY <2>1, KemptClear, GesturesAddNothing DEF BoardInv
  <2> QED BY <2>1, <2>2, QuietKeeps
<1>8. ASSUME NEW c \in calls, NEW o \in Outcomes, EndCheck(c, o) PROVE BoardInv'
  BY <1>8, EndCheckKeeps
<1>9. CASE UNCHANGED vars
  <2>1. UNCHANGED <<store, mem, dirty, page, writer, gestures>> /\ UNCHANGED <<execVars, status>>
    BY <1>9 DEF vars, stateVars
  <2>2. Kempt(Drafts)'
    BY <2>1, KemptStutter DEF BoardInv, Kempt, Shape
  <2>3. HistoriesStay
    BY <2>1 DEF HistoriesStay, Histories
  <2> QED BY <2>1, <2>2, <2>3, QuietKeeps
<1> QED BY <1>1, <1>2, <1>3, <1>4, <1>5, <1>6, <1>7, <1>8, <1>9 DEF Next

\* The invariant that the theorems rest on.
THEOREM BoardInvariant == Spec => []BoardInv
BY BoardInit, BoardStep, PTL DEF Spec

-----------------------------------------------------------------------------
(* Theorems                                                                *)

(***************************************************************************)
(* The state of the dashboard keeps its types (the useState calls of       *)
(* AppStateProvider and HealthSection and all their setters).              *)
(***************************************************************************)
THEOREM HealthTypes == Spec => []HealthTypeOK
<1>1. BoardInv => HealthTypeOK
  BY DEF BoardInv, Kempt, Shape, Numbered, HealthTypeOK, Copy, Copies
<1> QED BY <1>1, BoardInvariant, PTL

(***************************************************************************)
(* Reloading the tab that wrote a slot last brings back what it showed     *)
(* (the three effects of AppStateProvider), for any number of tabs.        *)
(***************************************************************************)
THEOREM StoredShown == Spec => []StoredIsShown
<1>1. BoardInv => StoredIsShown
  BY DEF BoardInv, Kempt
<1> QED BY <1>1, BoardInvariant, PTL

\* The statement of BadgesTellOutcomes for one tab and one service.
BadgeTells(t, s) ==
  page[t] = "dashboard" /\ page'[t] = "dashboard" =>
     status'[t][s] =
        IF Ended(t, s) = {} THEN status[t][s]
        ELSE IF \E c \in Ended(t, s), i \in 1 .. Len(mem'[t].history) :
                    mem'[t].history[i].id = c.id /\ mem'[t].history[i].ok
        THEN "ready" ELSE "down"

\* A step that ends no call of tab t must leave its badges alone.
LEMMA NothingEnded ==
  ASSUME NEW t \in Tabs, NEW s \in Requests, status'[t] = status[t],
         \A c \in calls : c.tab = t => \E d \in calls' : c.id = d.id
  PROVE  BadgeTells(t, s)
<1>1. Ended(t, s) = {}
  BY DEF Ended
<1> QED BY <1>1 DEF BadgeTells

\* The step that does: the item of the check is the first of the history, if
\* there is one, and no other item has its number.
LEMMA EndTells ==
  ASSUME BoardInv, NEW c \in calls, NEW o \in Outcomes, EndCheck(c, o),
         NEW t \in Tabs, NEW s \in Requests
  PROVE  BadgeTells(t, s)
<1> DEFINE mine == c.tab = t /\ c.req = s /\ c.then.mounted
           told == \E i \in 1 .. Len(mem'[t].history) :
                      mem'[t].history[i].id = c.id /\ mem'[t].history[i].ok
<1>1. c \in Call /\ c.tab \in Tabs /\ c.req \in Requests /\ c.id \in 1 .. sent /\ sent \in Nat
  BY DEF BoardInv, Numbered, Call
<1>2. \A d \in calls' : d.id # c.id
  <2>1. \A d \in calls' : d \in calls \ {c} \/ d.id = sent + 1
    BY EndCheckKeeps
  <2>2. \A d \in calls : d.id = c.id => d = c
    BY DEF BoardInv, Numbered
  <2>3. c.id # sent + 1
    BY <1>1
  <2> QED BY <2>1, <2>2, <2>3
<1>3. Ended(t, s) = IF mine THEN {c} ELSE {}
  <2>1. \A d \in calls \ {c} : d \in calls'
    BY EndCheckKeeps
  <2> QED BY <1>2, <2>1 DEF Ended
<1>4. \A i \in 1 .. Len(mem[t].history) : mem[t].history[i].id # c.id
  <2>1. mem[t].history \in Histories
    BY DEF Histories
  <2>2. \A i \in 1 .. Len(mem[t].history) : mem[t].history[i] \in Items
    BY <2>1 DEF Items
  <2> QED BY <2>2 DEF BoardInv, ItemsAreOld
<1>5. mine => (told <=> o = "ok")
  <2> SUFFICES ASSUME mine PROVE told <=> o = "ok"
    OBVIOUS
  <2>1. CASE o = "lost"
    <3>1. mem' = mem
      BY <2>1 DEF EndCheck, ShowNothing
    <3> QED BY <1>4, <2>1, <3>1
  <2>2. CASE o # "lost"
    <3> DEFINE ok == o = "ok"
               item == [id |-> c.id, req |-> c.req, ok |-> ok]
               h == mem[t].history
               r == mem'[t].history
    <3>1. Show(c, ok, {}, mem[c.tab].drafts) /\ ok \in BOOLEAN
      BY <2>2 DEF EndCheck
    <3> HIDE DEF ok
    <3>2. item \in HistoryItem /\ h \in Seq(HistoryItem) /\ r = Recorded(h, item)
      BY <1>1, <3>1, ShowRecords DEF BoardInv
    <3>3. item.id = c.id /\ item.ok = ok
      OBVIOUS
    <3> HIDE DEF item, h, r
    <3>4. /\ r \in Seq(HistoryItem) /\ Len(r) >= 1 /\ r[1] = item
          /\ \A i \in 2 .. Len(r) : i - 1 \in 1 .. Len(h) /\ r[i] = h[i - 1]
      <4>1. LET q == Recorded(h, item) IN
            /\ q \in Seq(HistoryItem) /\ Len(q) >= 1 /\ q[1] = item
            /\ \A i \in 2 .. Len(q) : i - 1 \in 1 .. Len(h) /\ q[i] = h[i - 1]
        BY <3>2, RecordedKeeps
      <4> QED BY <3>2, <4>1
    <3>5. 1 \in 1 .. Len(r) /\ \A i \in 1 .. Len(r) : i = 1 \/ i \in 2 .. Len(r)
      BY <3>4
    <3>6. \A i \in 2 .. Len(r) : r[i].id # c.id
      BY <1>4, <3>4 DEF h
    <3>7. (\E i \in 1 .. Len(r) : r[i].id = c.id /\ r[i].ok) <=> ok
      BY <3>3, <3>4, <3>5, <3>6
    <3> QED BY <3>7 DEF r, ok
  <2> QED BY <2>1, <2>2
<1>6. CASE ~mine
  <2>1. status'[t][s] = status[t][s]
    <3>1. status \in [Tabs -> [Requests -> {"unknown", "ready", "down"}]]
      BY DEF BoardInv
    <3>2. CASE c.then.mounted
      <4>1. status' = [status EXCEPT ![c.tab] = Badges(c, o)]
        BY <3>2 DEF EndCheck
      <4>2. CASE c.tab # t
        BY <1>1, <3>1, <4>1, <4>2
      <4>3. CASE c.tab = t /\ c.req # s
        BY <1>1, <3>1, <4>1, <4>3 DEF Badges
      <4> QED BY <1>6, <3>2, <4>2, <4>3
    <3>3. CASE ~c.then.mounted
      BY <3>3 DEF EndCheck
    <3> QED BY <3>2, <3>3
  <2> QED BY <1>3, <1>6, <2>1 DEF BadgeTells
<1>7. CASE mine
  <2>1. status'[t][s] = IF o = "ok" THEN "ready" ELSE "down"
    BY <1>1, <1>7 DEF EndCheck, Badges, BoardInv
  <2>2. Ended(t, s) = {c}
    BY <1>3, <1>7
  <2>3. (\E d \in Ended(t, s), i \in 1 .. Len(mem'[t].history) :
            mem'[t].history[i].id = d.id /\ mem'[t].history[i].ok) <=> told
    BY <2>2
  <2> HIDE DEF told
  <2> QED BY <1>5, <1>7, <2>1, <2>2, <2>3 DEF BadgeTells
<1> QED BY <1>6, <1>7

LEMMA StepTells ==
  ASSUME BoardInv, [Next]_vars, NEW t \in Tabs, NEW s \in Requests
  PROVE  BadgeTells(t, s)
<1>1. ASSUME NEW u \in Tabs, NEW p \in Pages \cup {"login"}, OpenTab(u, p) PROVE BadgeTells(t, s)
  BY <1>1, NothingEnded DEF OpenTab
<1>2. ASSUME NEW u \in Tabs, CloseTab(u) PROVE BadgeTells(t, s)
  <2>1. CASE u = t
    BY <1>2, <2>1 DEF CloseTab, Close, BoardInv, Kempt, Shape, BadgeTells
  <2>2. CASE u # t
    BY <1>2, <2>2, NothingEnded DEF CloseTab, BoardInv
  <2> QED BY <2>1, <2>2
<1>3. ASSUME NEW u \in Tabs, Effects(u) \/ Type(u) \/ Clear(u) PROVE BadgeTells(t, s)
  BY <1>3, NothingEnded DEF Effects, Type, Clear, ClearHistory, execVars
<1>4. ASSUME NEW u \in Tabs, Move(u) PROVE BadgeTells(t, s)
  <2>1. LeaveBoard(u) /\ UNCHANGED <<sent, result>>
    BY <1>4 DEF Move
  <2>2. \A c \in calls : \E d \in calls' : c.id = d.id
    BY <2>1, LeaveBoardKeeps
  <2>3. CASE page[t] = "dashboard" /\ page'[t] = "dashboard"
    <3>1. status'[t] = status[t]
      BY <2>1, <2>3, LeaveBoardKeeps
    <3> QED BY <2>2, <3>1, NothingEnded
  <2>4. CASE ~(page[t] = "dashboard" /\ page'[t] = "dashboard")
    BY <2>4 DEF BadgeTells
  <2> QED BY <2>3, <2>4
<1>5. ASSUME NEW u \in Tabs,
             (\E q \in Requests : CheckOne(u, q)) \/ CheckAll(u) \/ ReplayCheck(u)
      PROVE  BadgeTells(t, s)
  <2>1. calls \subseteq calls' /\ status' = status
    BY <1>5, ClicksKeep
  <2> QED BY <2>1, NothingEnded
<1>6. ASSUME NEW c \in calls, NEW o \in Outcomes, EndCheck(c, o) PROVE BadgeTells(t, s)
  BY <1>6, EndTells
<1>7. CASE UNCHANGED vars
  BY <1>7, NothingEnded DEF vars, execVars
<1> QED BY <1>1, <1>2, <1>3, <1>4, <1>5, <1>6, <1>7 DEF Next

(***************************************************************************)
(* A badge tells the outcome of the check of its own service that ended    *)
(* last while the page was shown (setStatusMap after execute), for any     *)
(* number of checks that overlap, in any number of tabs.                   *)
(***************************************************************************)
THEOREM BadgesTell == Spec => BadgesTellOutcomes
<1>1. BoardInv /\ [Next]_vars => [\A t \in Tabs, s \in Requests : BadgeTells(t, s)]_vars
  BY StepTells
<1>2. [\A t \in Tabs, s \in Requests : BadgeTells(t, s)]_vars
        => [\A t \in Tabs, s \in Requests :
              page[t] = "dashboard" /\ page'[t] = "dashboard" =>
                 status'[t][s] =
                    IF Ended(t, s) = {} THEN status[t][s]
                    ELSE IF \E c \in Ended(t, s), i \in 1 .. Len(mem'[t].history) :
                                mem'[t].history[i].id = c.id /\ mem'[t].history[i].ok
                    THEN "ready" ELSE "down"]_vars
  BY DEF BadgeTells
<1> QED BY <1>1, <1>2, BoardInvariant, PTL DEF Spec, BadgesTellOutcomes
=============================================================================
