--------------------------- MODULE ConsoleProofs ----------------------------
(***************************************************************************)
(* What every page of the console keeps, for any set of tabs, pages and    *)
(* form fields and any limit of the history: its state has its types, and  *)
(* localStorage holds what its last writer shows.  The lemmas are about    *)
(* the actions of ConsoleState and Executor; HealthBoardProofs and         *)
(* BookingFlowsProofs use them for theirs.  D is the set of drafts a page  *)
(* can come to.                                                            *)
(***************************************************************************)
EXTENDS Executor, SequenceTheorems, TLAPS

Copy(D) == [session : Users \cup {Nil}, history : Seq(HistoryItem), drafts : D]

Shape(D) ==
  /\ store \in Copy(D)
  /\ mem \in [Tabs -> Copy(D)]
  /\ dirty \in [Tabs -> SUBSET Slots]
  /\ page \in [Tabs -> Pages \cup {"login", "closed"}]
  /\ writer \in [Slots -> Tabs \cup {Nil}]
  /\ gestures \in 0 .. MaxGestures

\* No history is longer than what the effect would keep of it.
Short ==
  /\ Len(store.history) <= HistoryLimit
  /\ \A t \in Tabs : Len(mem[t].history) <= HistoryLimit

Kempt(D) == Shape(D) /\ Short /\ StoredIsShown

\* Calls and answers are told apart by their number.
Numbered ==
  /\ calls \subseteq Call
  /\ sent \in Nat
  /\ result \in [Tabs -> 0 .. sent]
  /\ \A c \in calls : c.id \in 1 .. sent
  /\ \A c, d \in calls : c.id = d.id => c = d

USE ConsoleAssumption

-----------------------------------------------------------------------------
(* Histories                                                               *)

\* The effect keeps the newest items, and all of a history that is short.
LEMMA LatestKeeps ==
  ASSUME NEW h \in Seq(HistoryItem)
  PROVE  /\ Latest(h) \in Seq(HistoryItem)
         /\ Len(Latest(h)) <= HistoryLimit /\ Len(Latest(h)) <= Len(h)
         /\ Len(h) <= HistoryLimit => Latest(h) = h
         /\ \A i \in 1 .. Len(h) : i <= HistoryLimit => i <= Len(Latest(h))
         /\ \A i \in 1 .. Len(Latest(h)) : i \in 1 .. Len(h) /\ Latest(h)[i] = h[i]
<1> DEFINE n == IF Len(h) < HistoryLimit THEN Len(h) ELSE HistoryLimit
<1>1. Len(h) \in Nat /\ HistoryLimit \in Nat /\ n \in Nat /\ n <= Len(h)
  OBVIOUS
<1>2. \A i \in 1 .. n : h[i] \in HistoryItem
  BY <1>1, ElementOfSeq
<1>3. /\ SubSeq(h, 1, n) \in Seq(HistoryItem)
      /\ Len(SubSeq(h, 1, n)) = IF 1 <= n THEN n - 1 + 1 ELSE 0
      /\ \A i \in 1 .. n - 1 + 1 : SubSeq(h, 1, n)[i] = h[1 + i - 1]
  BY <1>1, <1>2, SubSeqProperties
<1>4. Len(SubSeq(h, 1, n)) = n /\ \A i \in 1 .. n : SubSeq(h, 1, n)[i] = h[i]
  BY <1>1, <1>3
<1>5. Len(h) <= HistoryLimit => n = Len(h)
  BY <1>1
<1>6. Len(h) <= HistoryLimit => SubSeq(h, 1, n) = h
  BY <1>5, SubSeqFull
<1>7. Latest(h) = SubSeq(h, 1, n)
  BY DEF Latest
<1> QED BY <1>1, <1>3, <1>4, <1>6, <1>7

\* A new item comes first, and the others move back by one place.
LEMMA RecordedKeeps ==
  ASSUME NEW h \in Seq(HistoryItem), NEW item \in HistoryItem
  PROVE  /\ Recorded(h, item) \in Seq(HistoryItem)
         /\ Len(Recorded(h, item)) <= HistoryLimit
         /\ Len(Recorded(h, item)) >= 1 /\ Recorded(h, item)[1] = item
         /\ \A i \in 2 .. Len(Recorded(h, item)) :
               i - 1 \in 1 .. Len(h) /\ Recorded(h, item)[i] = h[i - 1]
         /\ \A i \in 1 .. Len(h) : i < HistoryLimit =>
               i + 1 \in 1 .. Len(Recorded(h, item)) /\ Recorded(h, item)[i + 1] = h[i]
<1> DEFINE all == <<item>> \o h
<1>1. <<item>> \in Seq(HistoryItem) /\ Len(<<item>>) = 1 /\ <<item>>[1] = item
  OBVIOUS
<1>2. /\ all \in Seq(HistoryItem) /\ Len(all) = 1 + Len(h)
      /\ \A i \in 1 .. 1 + Len(h) : all[i] = IF i <= 1 THEN item ELSE h[i - 1]
  <2>1. /\ all \in Seq(HistoryItem) /\ Len(all) = Len(<<item>>) + Len(h)
        /\ \A i \in 1 .. Len(<<item>>) + Len(h) :
              all[i] = IF i <= Len(<<item>>) THEN <<item>>[i] ELSE h[i - Len(<<item>>)]
    BY <1>1, ConcatProperties
  <2>2. Len(h) \in Nat
    OBVIOUS
  <2> HIDE DEF all
  <2> QED BY <1>1, <2>1, <2>2
<1>3. Recorded(h, item) = Latest(all)
  BY DEF Recorded
<1> HIDE DEF all
<1>4. Len(h) \in Nat
  OBVIOUS
<1> DEFINE r == Latest(all)
<1>5. /\ r \in Seq(HistoryItem) /\ Len(r) <= HistoryLimit /\ Len(r) <= Len(all)
      /\ \A i \in 1 .. Len(all) : i <= HistoryLimit => i <= Len(r)
      /\ \A i \in 1 .. Len(r) : i \in 1 .. Len(all) /\ r[i] = all[i]
  BY <1>2, LatestKeeps
<1>6. Len(r) \in Nat /\ HistoryLimit \in Nat \ {0}
  BY <1>5
<1> HIDE DEF r
<1>7. Len(r) >= 1 /\ r[1] = item
  BY <1>2, <1>4, <1>5, <1>6
<1>8. \A i \in 2 .. Len(r) : i - 1 \in 1 .. Len(h) /\ r[i] = h[i - 1]
  BY <1>2, <1>4, <1>5, <1>6
<1>9. ASSUME NEW i \in 1 .. Len(h), i < HistoryLimit
      PROVE  i + 1 \in 1 .. Len(r) /\ r[i + 1] = h[i]
  <2>1. i + 1 \in 1 .. Len(all) /\ i + 1 <= HistoryLimit
    BY <1>2, <1>4, <1>6, <1>9
  <2>2. i + 1 \in 1 .. Len(r)
    BY <1>5, <1>6, <2>1
  <2> QED BY <1>2, <1>4, <1>5, <2>1, <2>2
<1>10. Recorded(h, item) = r
  BY <1>3 DEF r
<1> QED BY <1>5, <1>7, <1>8, <1>9, <1>10

-----------------------------------------------------------------------------
(* What keeps the state of the console kempt: one lemma per action.        *)

LEMMA KemptInit ==
  ASSUME NEW D, InitialDrafts \in D, StateInit
  PROVE  Kempt(D)
<1>1. Fresh \in Copy(D) /\ Len(Fresh.history) = 0
  BY DEF Fresh, Copy
<1>2. ASSUME NEW u \in Users \cup {Nil}
      PROVE  LET s == [Fresh EXCEPT !.session = u] IN s \in Copy(D) /\ s.history = Fresh.history
  <2> DEFINE s == [Fresh EXCEPT !.session = u]
  <2>1. s = [session |-> u, history |-> Fresh.history, drafts |-> Fresh.drafts]
    BY DEF Fresh
  <2>2. Fresh.history \in Seq(HistoryItem) /\ Fresh.drafts \in D
    BY <1>1 DEF Copy
  <2> HIDE DEF s
  <2>3. s \in Copy(D) /\ s.history = Fresh.history
    BY <2>1, <2>2 DEF Copy
  <2> QED BY <2>3 DEF s
<1>3. Shape(D)
  BY <1>1, <1>2 DEF StateInit, Shape
<1>4. Short
  BY <1>1, <1>2 DEF StateInit, Short
<1>5. StoredIsShown
  BY DEF StateInit, StoredIsShown, IsOpen
<1> QED BY <1>3, <1>4, <1>5 DEF Kempt

LEMMA KemptStutter ==
  ASSUME NEW D, Kempt(D), UNCHANGED <<store, mem, dirty, page, writer>>, gestures' \in 0 .. MaxGestures
  PROVE  Kempt(D)'
BY DEF Kempt, Shape, Short, StoredIsShown, IsOpen

LEMMA EffortIsBounded ==
  ASSUME NEW n \in Nat, gestures \in 0 .. MaxGestures, Effort(n)
  PROVE  gestures' \in 0 .. MaxGestures
BY DEF Effort

LEMMA GestureIsBounded ==
  ASSUME NEW D, Shape(D), Gesture
  PROVE  gestures' \in 0 .. MaxGestures
BY EffortIsBounded DEF Shape, Gesture

LEMMA KemptOpen ==
  ASSUME NEW D, Kempt(D), NEW t \in Tabs, NEW p \in Pages \cup {"login"}, Open(t, p)
  PROVE  Kempt(D)'
<1>1. gestures' \in 0 .. MaxGestures
  BY GestureIsBounded DEF Kempt, Open
<1>2. Shape(D)'
  <2>1. Landing(store.session, p) \in Pages \cup {"login", "closed"}
    BY DEF Landing
  <2> QED BY <1>1, <2>1 DEF Kempt, Open, Shape
<1>3. Short'
  BY DEF Kempt, Open, Short, Shape
<1>4. StoredIsShown'
  BY DEF Kempt, Open, StoredIsShown, IsOpen, Shape
<1> QED BY <1>2, <1>3, <1>4 DEF Kempt

LEMMA KemptClose ==
  ASSUME NEW D, InitialDrafts \in D, Kempt(D), NEW t \in Tabs, Close(t)
  PROVE  Kempt(D)'
<1>1. gestures' \in 0 .. MaxGestures
  BY GestureIsBounded DEF Kempt, Close
<1>2. Fresh \in Copy(D) /\ Len(Fresh.history) = 0
  BY DEF Fresh, Copy
<1>3. Shape(D)'
  BY <1>1, <1>2 DEF Kempt, Close, Shape
<1>4. Short'
  BY <1>2 DEF Kempt, Close, Short, Shape
<1>5. StoredIsShown'
  BY DEF Kempt, Close, StoredIsShown, IsOpen, Shape
<1> QED BY <1>3, <1>4, <1>5 DEF Kempt

\* What an effect writes is what the tab shows: its history is short already.
LEMMA KemptSave ==
  ASSUME NEW D, Kempt(D), NEW t \in Tabs, Save(t)
  PROVE  Kempt(D)'
<1> DEFINE h == Kept(t, "history")
<1>1. \A k \in Slots : Kept(t, k) = IF k \in dirty[t] THEN mem[t][k] ELSE store[k]
  BY DEF Kept
<1>2. {"session", "history", "drafts"} = Slots
  BY DEF Slots
<1>3. /\ Kept(t, "session") \in Users \cup {Nil}
      /\ h \in Seq(HistoryItem) /\ Len(h) <= HistoryLimit
      /\ Kept(t, "drafts") \in D
  <2>1. store \in Copy(D) /\ mem[t] \in Copy(D)
    BY DEF Kempt, Shape
  <2>2. Len(store.history) <= HistoryLimit /\ Len(mem[t].history) <= HistoryLimit
    BY DEF Kempt, Short
  <2>3. \A k \in Slots : Kept(t, k) \in {mem[t][k], store[k]}
    BY <1>1
  <2>4. h \in {mem[t].history, store.history}
    BY <1>2, <2>3
  <2>5. Kept(t, "session") \in {mem[t].session, store.session}
        /\ Kept(t, "drafts") \in {mem[t].drafts, store.drafts}
    BY <1>2, <2>3
  <2> HIDE DEF h
  <2> QED BY <2>1, <2>2, <2>4, <2>5 DEF Copy
<1>4. Latest(h) = h
  BY <1>3, LatestKeeps
<1>5. store' = [session |-> Kept(t, "session"), history |-> h, drafts |-> Kept(t, "drafts")]
  BY <1>4 DEF Save
<1>6. store' \in Copy(D)
  BY <1>3, <1>5 DEF Copy
<1>7. Shape(D)'
  BY <1>6 DEF Kempt, Save, Shape
<1>8. Short'
  BY <1>3, <1>5 DEF Kempt, Save, Short
<1>9. ASSUME NEW s \in Tabs, NEW k \in Slots, page[s] # "closed", k \notin dirty'[s], writer'[k] = s
      PROVE  store'[k] = mem[s][k]
  <2>1. store'[k] = Kept(t, k)
    BY <1>5 DEF Slots
  <2>2. CASE k \in dirty[t]
    <3>1. s = t
      BY <1>9, <2>2 DEF Save, Kempt, Shape
    <3> QED BY <1>1, <2>1, <2>2, <3>1
  <2>3. CASE k \notin dirty[t]
    <3>1. writer[k] = s /\ k \notin dirty[s]
      BY <1>9, <2>3 DEF Save, Kempt, Shape
    <3> QED BY <1>1, <1>9, <2>1, <2>3, <3>1 DEF Kempt, StoredIsShown, IsOpen
  <2> QED BY <2>2, <2>3
<1>10. StoredIsShown'
  BY <1>9 DEF Save, StoredIsShown, IsOpen
<1> QED BY <1>7, <1>8, <1>10 DEF Kempt

LEMMA KemptLogin ==
  ASSUME NEW D, Kempt(D), NEW t \in Tabs, NEW u \in Users, Login(t, u)
  PROVE  Kempt(D)'
<1>1. gestures' \in 0 .. MaxGestures
  BY GestureIsBounded DEF Kempt, Login
<1>2. Shape(D)'
  BY <1>1 DEF Kempt, Login, Shape, Copy, Slots
<1>3. Short'
  BY DEF Kempt, Login, Short, Shape, Copy
<1>4. StoredIsShown'
  BY DEF Kempt, Login, StoredIsShown, IsOpen, Shape, Copy, Slots
<1> QED BY <1>2, <1>3, <1>4 DEF Kempt

LEMMA KemptLogout ==
  ASSUME NEW D, Kempt(D), NEW t \in Tabs, Logout(t)
  PROVE  Kempt(D)'
<1>1. gestures' \in 0 .. MaxGestures
  BY GestureIsBounded DEF Kempt, Logout
<1>2. Shape(D)'
  BY <1>1 DEF Kempt, Logout, Shape, Copy, Slots
<1>3. Short'
  BY DEF Kempt, Logout, Short, Shape, Copy
<1>4. StoredIsShown'
  BY DEF Kempt, Logout, StoredIsShown, IsOpen, Shape, Copy, Slots
<1> QED BY <1>2, <1>3, <1>4 DEF Kempt

LEMMA KemptGoto ==
  ASSUME NEW D, Kempt(D), NEW t \in Tabs, NEW p \in Pages, Goto(t, p)
  PROVE  Kempt(D)'
<1>1. gestures' \in 0 .. MaxGestures
  BY GestureIsBounded DEF Kempt, Goto
<1>2. Landing(mem[t].session, p) \in Pages \cup {"login"}
  BY DEF Landing
<1>3. Shape(D)'
  BY <1>1, <1>2 DEF Kempt, Goto, Shape
<1>4. Short'
  BY DEF Kempt, Goto, Short
<1>5. StoredIsShown'
  BY DEF Kempt, Goto, StoredIsShown, IsOpen, Shape
<1> QED BY <1>3, <1>4, <1>5 DEF Kempt

\* Whatever changes slots of one open tab and marks them for the effects.
LEMMA KemptChange ==
  ASSUME NEW D, Kempt(D), NEW t \in Tabs, NEW c \in Copy(D), NEW slots \in SUBSET Slots,
         Len(c.history) <= HistoryLimit,
         \A k \in Slots \ slots : c[k] = mem[t][k],
         mem' = [mem EXCEPT ![t] = c],
         dirty' = [dirty EXCEPT ![t] = @ \cup slots],
         UNCHANGED <<store, page, writer>>, gestures' \in 0 .. MaxGestures
  PROVE  Kempt(D)'
<1>1. Shape(D)'
  BY DEF Kempt, Shape
<1>2. Short'
  BY DEF Kempt, Short, Shape
<1>3. StoredIsShown'
  BY DEF Kempt, StoredIsShown, IsOpen, Shape
<1> QED BY <1>1, <1>2, <1>3 DEF Kempt

LEMMA KemptEdit ==
  ASSUME NEW D, Kempt(D), NEW t \in Tabs, NEW f, NEW v,
         [mem[t].drafts EXCEPT ![f] = v] \in D, Edit(t, f, v)
  PROVE  Kempt(D)'
<1> DEFINE c == [mem[t] EXCEPT !.drafts = [mem[t].drafts EXCEPT ![f] = v]]
<1>1. gestures' \in 0 .. MaxGestures
  BY GestureIsBounded DEF Kempt, Edit
<1>2. /\ c \in Copy(D) /\ c.history = mem[t].history
      /\ \A k \in Slots \ {"drafts"} : c[k] = mem[t][k]
  BY DEF Kempt, Shape, Copy, Slots
<1>3. mem' = [mem EXCEPT ![t] = c]
  BY DEF Edit, Kempt, Shape, Copy
<1>4. Len(c.history) <= HistoryLimit
  BY <1>2 DEF Kempt, Short
<1> HIDE DEF c
<1>5. dirty' = [dirty EXCEPT ![t] = @ \cup {"drafts"}] /\ UNCHANGED <<store, page, writer>>
  BY DEF Edit
<1>6. {"drafts"} \in SUBSET Slots
  BY DEF Slots
<1> QED BY <1>1, <1>2, <1>3, <1>4, <1>5, <1>6, KemptChange

LEMMA KemptClear ==
  ASSUME NEW D, Kempt(D), NEW t \in Tabs, ClearHistory(t)
  PROVE  Kempt(D)'
<1> DEFINE c == [mem[t] EXCEPT !.history = <<>>]
<1>1. gestures' \in 0 .. MaxGestures
  BY GestureIsBounded DEF Kempt, ClearHistory
<1>2. /\ c \in Copy(D) /\ Len(c.history) = 0
      /\ \A k \in Slots \ {"history"} : c[k] = mem[t][k]
  <2>1. mem[t] \in Copy(D)
    BY DEF Kempt, Shape
  <2>2. <<>> \in Seq(HistoryItem) /\ Len(<<>>) = 0
    OBVIOUS
  <2>3. c \in Copy(D) /\ c.history = <<>>
    BY <2>1, <2>2 DEF Copy
  <2>4. \A k \in Slots \ {"history"} : c[k] = mem[t][k]
    BY <2>1 DEF Copy, Slots
  <2> QED BY <2>2, <2>3, <2>4
<1>3. mem' = [mem EXCEPT ![t] = c]
  BY DEF ClearHistory, Kempt, Shape, Copy
<1> HIDE DEF c
<1>4. dirty' = [dirty EXCEPT ![t] = @ \cup {"history"}] /\ UNCHANGED <<store, page, writer>>
  BY DEF ClearHistory
<1>5. {"history"} \in SUBSET Slots
  BY DEF Slots
<1>6. Len(c.history) <= HistoryLimit
  BY <1>2
<1> QED BY <1>1, <1>2, <1>3, <1>4, <1>5, <1>6, KemptChange

LEMMA KemptShow ==
  ASSUME NEW D, Kempt(D), NEW c \in calls, c \in Call, c.tab \in Tabs, NEW ok \in BOOLEAN,
         NEW slots \in SUBSET Slots, NEW d \in D, d = mem[c.tab].drafts \/ "drafts" \in slots,
         Show(c, ok, slots, d)
  PROVE  Kempt(D)'
<1> DEFINE t == c.tab
           item == [id |-> c.id, req |-> c.req, ok |-> ok]
           n == [session |-> mem[t].session, history |-> Recorded(mem[t].history, item), drafts |-> d]
<1>1. item \in HistoryItem
  BY DEF HistoryItem, Call
<1> HIDE DEF item
<1>2. mem[t].history \in Seq(HistoryItem) /\ mem[t] \in Copy(D)
  BY DEF Kempt, Shape, Copy
<1>3. Recorded(mem[t].history, item) \in Seq(HistoryItem) /\ Len(Recorded(mem[t].history, item)) <= HistoryLimit
  BY <1>1, <1>2, RecordedKeeps
<1>4. mem' = [mem EXCEPT ![t] = n]
  <2>1. mem' = [mem EXCEPT ![t].history = Recorded(@, item), ![t].drafts = d]
    BY DEF Show, item
  <2> DEFINE r == Recorded(mem[t].history, item)
  <2> HIDE DEF r
  <2>2. [[mem[t] EXCEPT !.history = r] EXCEPT !.drafts = d]
          = [session |-> mem[t].session, history |-> r, drafts |-> d]
    <3> DEFINE e == [session |-> mem[t].session, history |-> r, drafts |-> mem[t].drafts]
    <3>1. [mem[t] EXCEPT !.history = r] = e
      BY <1>2 DEF Copy
    <3>2. [e EXCEPT !.drafts = d] = [session |-> mem[t].session, history |-> r, drafts |-> d]
      OBVIOUS
    <3> QED BY <3>1, <3>2
  <2>3. mem \in [Tabs -> Copy(D)]
    BY DEF Kempt, Shape
  <2>4. mem' = [mem EXCEPT ![t] = [[mem[t] EXCEPT !.history = r] EXCEPT !.drafts = d]]
    BY <2>1, <2>3 DEF r
  <2> QED BY <2>2, <2>4 DEF r
<1>5. dirty' = [dirty EXCEPT ![t] = @ \cup ({"history"} \cup slots)]
  BY DEF Show, Kempt, Shape
<1>6. UNCHANGED <<store, page, writer, gestures>>
  BY DEF Show
<1>7. n \in Copy(D) /\ n.history = Recorded(mem[t].history, item) /\ n.drafts = d /\ n.session = mem[t].session
  BY <1>2, <1>3 DEF Copy
<1>8. {"history"} \cup slots \in SUBSET Slots
  BY DEF Slots
<1>9. \A k \in Slots \ ({"history"} \cup slots) : n[k] = mem[t][k]
  BY <1>7 DEF Slots
<1>10. gestures' \in 0 .. MaxGestures
  BY <1>6 DEF Kempt, Shape
<1> HIDE DEF n
<1> QED BY <1>3, <1>4, <1>5, <1>6, <1>7, <1>8, <1>9, <1>10, KemptChange

-----------------------------------------------------------------------------
(* What is recorded: only an answer that is shown adds to it.              *)

Items == UNION {{h[i] : i \in 1 .. Len(h)} : h \in Histories}

\* No history changes, but by being copied or emptied.
HistoriesStay ==
  /\ store'.history \in Histories \cup {<<>>}
  /\ \A t \in Tabs : mem'[t].history \in Histories \cup {<<>>}

LEMMA ItemsStay ==
  ASSUME HistoriesStay
  PROVE  Items' \subseteq Items
<1>1. \A h \in Histories' : h \in Histories \cup {<<>>}
  BY DEF HistoriesStay, Histories
<1>2. \A i : i \notin 1 .. Len(<<>>)
  OBVIOUS
<1> SUFFICES ASSUME NEW h \in Histories', NEW i \in 1 .. Len(h)
             PROVE  h[i] \in Items
  BY DEF Items
<1> QED BY <1>1, <1>2 DEF Items

LEMMA GesturesAddNothing ==
  ASSUME NEW D, Kempt(D), NEW t \in Tabs,
         \/ \E p \in Pages \cup {"login"} : Open(t, p)
         \/ Close(t)
         \/ Save(t)
         \/ \E u \in Users : Login(t, u)
         \/ Logout(t)
         \/ \E p \in Pages : Goto(t, p)
         \/ \E f, v : Edit(t, f, v)
         \/ ClearHistory(t)
         \/ UNCHANGED <<store, mem>>
  PROVE  HistoriesStay
<1>1. store \in Copy(D) /\ mem \in [Tabs -> Copy(D)]
  BY DEF Kempt, Shape
<1>2. \A s \in Tabs : mem[s].history \in Histories
  BY DEF Histories
<1>3. store.history \in Histories
  BY DEF Histories
<1>4. ASSUME store' = store, NEW c, mem' = [mem EXCEPT ![t] = c], c.history \in Histories \cup {<<>>}
      PROVE  HistoriesStay
  BY <1>1, <1>2, <1>3, <1>4 DEF HistoriesStay
<1>5. ASSUME NEW p \in Pages \cup {"login"}, Open(t, p) PROVE HistoriesStay
  BY <1>3, <1>4, <1>5 DEF Open
<1>6. CASE Close(t)
  BY <1>4, <1>6 DEF Close, Fresh
<1>7. CASE Save(t)
  <2>1. Kept(t, "history") \in {mem[t].history, store.history}
    BY DEF Kept
  <2>2. Kept(t, "history") \in Seq(HistoryItem) /\ Len(Kept(t, "history")) <= HistoryLimit
    <3>1. mem[t].history \in Seq(HistoryItem) /\ store.history \in Seq(HistoryItem)
      BY <1>1 DEF Copy
    <3>2. Len(mem[t].history) <= HistoryLimit /\ Len(store.history) <= HistoryLimit
      BY DEF Kempt, Short
    <3> QED BY <2>1, <3>1, <3>2
  <2>3. store'.history = Kept(t, "history")
    BY <1>7, <2>2, LatestKeeps DEF Save
  <2>4. mem' = mem
    BY <1>7 DEF Save
  <2> QED BY <1>2, <1>3, <2>1, <2>3, <2>4 DEF HistoriesStay
<1>8. ASSUME NEW c \in Copy(D), mem' = [mem EXCEPT ![t] = c], c.history = mem[t].history, store' = store
      PROVE  HistoriesStay
  BY <1>2, <1>4, <1>8
<1>9. ASSUME NEW u \in Users \cup {Nil}, mem' = [mem EXCEPT ![t].session = u], store' = store
      PROVE  HistoriesStay
  <2> DEFINE c == [mem[t] EXCEPT !.session = u]
  <2>1. mem' = [mem EXCEPT ![t] = c]
    BY <1>1, <1>9
  <2>2. c \in Copy(D) /\ c.history = mem[t].history
    BY <1>1 DEF Copy
  <2> QED BY <1>8, <1>9, <2>1, <2>2
<1>10. CASE \E u \in Users : Login(t, u)
  BY <1>9, <1>10 DEF Login
<1>11. CASE Logout(t)
  BY <1>9, <1>11 DEF Logout
<1>12. CASE (\E p \in Pages : Goto(t, p)) \/ UNCHANGED <<store, mem>>
  BY <1>2, <1>3, <1>12 DEF Goto, HistoriesStay
<1>13. ASSUME NEW f, NEW v, Edit(t, f, v) PROVE HistoriesStay
  <2> DEFINE d == [mem[t].drafts EXCEPT ![f] = v]
             c == [mem[t] EXCEPT !.drafts = d]
  <2>1. mem' = [mem EXCEPT ![t] = c]
    BY <1>1, <1>13 DEF Edit, Copy
  <2>2. c.history = mem[t].history
    BY <1>1 DEF Copy
  <2>3. store' = store
    BY <1>13 DEF Edit
  <2> HIDE DEF c
  <2> QED BY <1>2, <1>4, <2>1, <2>2, <2>3
<1>14. CASE ClearHistory(t)
  <2> DEFINE c == [mem[t] EXCEPT !.history = <<>>]
  <2>1. mem' = [mem EXCEPT ![t] = c]
    BY <1>1, <1>14 DEF ClearHistory, Copy
  <2>2. c.history = <<>>
    BY <1>1 DEF Copy
  <2>3. store' = store
    BY <1>14 DEF ClearHistory
  <2> HIDE DEF c
  <2> QED BY <1>4, <2>1, <2>2, <2>3
<1> QED BY <1>5, <1>6, <1>7, <1>10, <1>11, <1>12, <1>13, <1>14

\* What showing an answer does to the tab it comes to, and to the others.
LEMMA ShowRecords ==
  ASSUME NEW D, Kempt(D), NEW c, c \in Call, c.tab \in Tabs, NEW ok \in BOOLEAN, NEW slots, NEW d,
         Show(c, ok, slots, d)
  PROVE  LET item == [id |-> c.id, req |-> c.req, ok |-> ok] IN
         /\ item \in HistoryItem /\ mem[c.tab].history \in Seq(HistoryItem)
         /\ mem'[c.tab].history = Recorded(mem[c.tab].history, item)
         /\ mem'[c.tab].drafts = d
         /\ \A t \in Tabs \ {c.tab} : mem'[t] = mem[t]
         /\ Items' \subseteq Items \cup {item}
<1> DEFINE item == [id |-> c.id, req |-> c.req, ok |-> ok]
           r == Recorded(mem[c.tab].history, item)
           e == [session |-> mem[c.tab].session, history |-> r, drafts |-> mem[c.tab].drafts]
           n == [session |-> mem[c.tab].session, history |-> r, drafts |-> d]
<1>1. item \in HistoryItem
  BY DEF HistoryItem, Call
<1>2. mem' = [mem EXCEPT ![c.tab].history = r, ![c.tab].drafts = d] /\ store' = store
  BY DEF Show
<1> HIDE DEF item
<1>3. store \in Copy(D) /\ mem \in [Tabs -> Copy(D)] /\ mem[c.tab] \in Copy(D)
  BY DEF Kempt, Shape
<1>4. mem[c.tab].history \in Seq(HistoryItem)
  BY <1>3 DEF Copy
<1>5. mem' = [mem EXCEPT ![c.tab] = n]
  <2> HIDE DEF r
  <2>1. mem' = [mem EXCEPT ![c.tab] = [[mem[c.tab] EXCEPT !.history = r] EXCEPT !.drafts = d]]
    BY <1>2, <1>3
  <2>2. [mem[c.tab] EXCEPT !.history = r] = e
    BY <1>3 DEF Copy
  <2>3. [e EXCEPT !.drafts = d] = n
    OBVIOUS
  <2> QED BY <2>1, <2>2, <2>3
<1>6. /\ mem'[c.tab].history = r /\ mem'[c.tab].drafts = d
      /\ \A t \in Tabs \ {c.tab} : mem'[t] = mem[t]
  BY <1>3, <1>5
<1>7. \A i \in 1 .. Len(r) : r[i] \in Items \cup {item}
  <2> SUFFICES ASSUME NEW i \in 1 .. Len(r)
               PROVE  r[i] \in Items \cup {item}
    OBVIOUS
  <2>1. mem[c.tab].history \in Histories
    BY DEF Histories
  <2>2. r \in Seq(HistoryItem) /\ r[1] = item
        /\ \A j \in 2 .. Len(r) : j - 1 \in 1 .. Len(mem[c.tab].history) /\ r[j] = mem[c.tab].history[j - 1]
    BY <1>1, <1>4, RecordedKeeps
  <2> HIDE DEF r
  <2>3. i = 1 \/ i \in 2 .. Len(r)
    BY <2>2
  <2>4. CASE i = 1
    BY <2>2, <2>4
  <2>5. CASE i \in 2 .. Len(r)
    <3> DEFINE h == mem[c.tab].history
               j == i - 1
    <3>1. j \in 1 .. Len(h) /\ r[i] = h[j]
      BY <2>2, <2>5
    <3> HIDE DEF h, j
    <3>2. h \in Histories
      BY <2>1 DEF h
    <3> QED BY <3>1, <3>2 DEF Items
  <2> QED BY <2>3, <2>4, <2>5
<1>8. \A h \in Histories' : h = r \/ h \in Histories
  BY <1>2, <1>6 DEF Histories
<1>9. Items' \subseteq Items \cup {item}
  <2> SUFFICES ASSUME NEW h \in Histories', NEW i \in 1 .. Len(h)
               PROVE  h[i] \in Items \cup {item}
    BY DEF Items
  <2> HIDE DEF r
  <2> QED BY <1>7, <1>8 DEF Items
<1> QED BY <1>1, <1>4, <1>6, <1>9 DEF item

-----------------------------------------------------------------------------
(* Numbers                                                                 *)

\* Calls may be dropped or changed, as long as they keep their numbers.
LEMMA NumberedKept ==
  ASSUME Numbered, sent' = sent, result' \in [Tabs -> 0 .. sent], calls' \subseteq Call,
         \A c \in calls' : \E d \in calls : c.id = d.id,
         \A c, d \in calls' : c.id = d.id => c = d
  PROVE  Numbered'
BY DEF Numbered

LEMMA NumberedReset ==
  ASSUME Numbered, NEW t \in Tabs, ResultReset(t)
  PROVE  result' \in [Tabs -> 0 .. sent]
BY DEF Numbered, ResultReset

LEMMA NumberedSend ==
  ASSUME Numbered, NEW t \in Tabs, NEW req \in Requests, NEW then \in Continuations,
         Send(t, req, then)
  PROVE  Numbered' /\ NewCall(t, req, then).id = sent + 1
<1>1. NewCall(t, req, then) \in Call /\ NewCall(t, req, then).id = sent + 1
  BY DEF NewCall, Call, Numbered
<1>2. calls' = calls \cup {NewCall(t, req, then)} /\ sent' = sent + 1 /\ result' = result
  BY DEF Send
<1> QED BY <1>1, <1>2 DEF Numbered

LEMMA NumberedNext ==
  ASSUME Numbered, NEW c \in calls, c.tab \in Tabs, NEW reqs \in SUBSET Requests,
         \A r, s \in reqs : r = s, NEW then, reqs # {} => then \in Continuations,
         SendNext(c, reqs, then), result' = result \/ result' = [result EXCEPT ![c.tab] = c.id]
  PROVE  Numbered' /\ \A d \in calls' : d \in calls \ {c} \/ d.id = sent + 1
<1>1. sent \in Nat /\ result \in [Tabs -> 0 .. sent] /\ c.id \in 1 .. sent
  BY DEF Numbered
<1>2. CASE reqs = {}
  <2>1. calls' = calls \ {c} /\ sent' = sent
    BY <1>2 DEF SendNext
  <2> QED BY <1>1, <2>1 DEF Numbered
<1>3. CASE reqs # {}
  <2>1. PICK r \in reqs : reqs = {r}
    BY <1>3
  <2>2. calls' = (calls \ {c}) \cup {NewCall(c.tab, r, then)} /\ sent' = sent + 1
    BY <2>1 DEF SendNext
  <2>3. NewCall(c.tab, r, then) \in Call /\ NewCall(c.tab, r, then).id = sent + 1
    BY <1>1, <1>3 DEF NewCall, Call
  <2> QED BY <1>1, <2>2, <2>3 DEF Numbered
<1> QED BY <1>2, <1>3
=============================================================================
