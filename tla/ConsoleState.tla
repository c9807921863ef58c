---------------------------- MODULE ConsoleState ----------------------------
(***************************************************************************)
(* The state of the frontend console that outlives a request: the session, *)
(* the request history and the form drafts.  Every browser tab keeps its   *)
(* own copy in React state, reads the copy in localStorage once, when it   *)
(* is opened, and writes it back in effects that run some time after the   *)
(* change.  Tabs never hear of each other's writes (the code has no        *)
(* listener for the "storage" event), so localStorage holds, slot by slot, *)
(* what the tab that wrote last had in memory.                             *)
(*                                                                         *)
(* Sources: state/AppState.tsx, App.tsx, pages/LoginPage.tsx,              *)
(* pages/AppLayout.tsx.  The modules HealthBoard and BookingFlows add the  *)
(* pages to it; every action here is one gesture of the user, or the run   *)
(* of the pending effects of a tab.                                        *)
(***************************************************************************)
EXTENDS Naturals, Sequences

CONSTANTS
    Tabs,           \* browser tabs with the console
    Users,          \* user names that can log in
    Nil,            \* no session; no writer; no order
    Pages,          \* the pages below /app, "dashboard" among them
    DraftFields,    \* names of the form fields kept in the drafts
    InitialDrafts,  \* their first values (initialDrafts)
    DraftChoices,   \* DraftChoices[f]: what a user types into field f
    HistoryLimit,   \* items the history keeps (100 in the code)
    MaxGestures     \* bound of the model: gestures, of all tabs together

ASSUME ConsoleAssumption ==
    /\ "dashboard" \in Pages
    /\ "login" \notin Pages /\ "closed" \notin Pages
    /\ Nil \notin Users /\ Nil \notin Tabs
    /\ HistoryLimit \in Nat \ {0}
    /\ MaxGestures \in Nat

VARIABLES
    store,      \* localStorage: session, history, drafts
    mem,        \* mem[t]: the same three in the React state of tab t
    dirty,      \* dirty[t]: slots of t changed since its effects last ran
    page,       \* page[t]: the route shown, or "closed"
    writer,     \* observed only: writer[k] is the tab that last wrote slot k
    gestures    \* number of gestures so far

stateVars == <<store, mem, dirty, page, writer, gestures>>

Slots == {"session", "history", "drafts"}

\* safeParse: what a tab starts from when localStorage holds nothing.
Fresh == [session |-> Nil, history |-> <<>>, drafts |-> InitialDrafts]

\* history.slice(0, 100)
Latest(h) == SubSeq(h, 1, IF Len(h) < HistoryLimit THEN Len(h) ELSE HistoryLimit)

\* ProtectedRoutes: without a session every page below /app is the login page.
Landing(session, p) == IF session = Nil THEN "login" ELSE p

IsOpen(t) == page[t] # "closed"

\* A gesture; one that starts a flow counts for two, as its calls are many.
Effort(n) == gestures + n <= MaxGestures /\ gestures' = gestures + n

Gesture == Effort(1)

StateInit ==
    /\ \E u \in Users \cup {Nil} : store = [Fresh EXCEPT !.session = u]
    /\ mem = [t \in Tabs |-> Fresh]
    /\ dirty = [t \in Tabs |-> {}]
    /\ page = [t \in Tabs |-> "closed"]
    /\ writer = [k \in Slots |-> Nil]
    /\ gestures = 0

(***************************************************************************)
(* Opening a tab on a URL: the lazy initialisers read localStorage, and    *)
(* the three effects are due, as they run after the first render too.      *)
(***************************************************************************)
Open(t, p) ==
    /\ ~IsOpen(t)
    /\ Gesture
    /\ mem' = [mem EXCEPT ![t] = store]
    /\ dirty' = [dirty EXCEPT ![t] = Slots]
    /\ page' = [page EXCEPT ![t] = Landing(store.session, p)]
    /\ UNCHANGED <<store, writer>>

\* Closing or leaving the document: effects that are still due never run.
Close(t) ==
    /\ IsOpen(t)
    /\ Gesture
    /\ mem' = [mem EXCEPT ![t] = Fresh]
    /\ dirty' = [dirty EXCEPT ![t] = {}]
    /\ page' = [page EXCEPT ![t] = "closed"]
    /\ UNCHANGED <<store, writer>>

\* The value an effect writes for slot k: the tab's own when the slot changed.
Kept(t, k) == IF k \in dirty[t] THEN mem[t][k] ELSE store[k]

\* The effects of the slots that changed run together after a render.
Save(t) ==
    /\ dirty[t] # {}
    /\ store' = [session |-> Kept(t, "session"),
                 history |-> Latest(Kept(t, "history")),
                 drafts |-> Kept(t, "drafts")]
    /\ writer' = [k \in Slots |-> IF k \in dirty[t] THEN t ELSE writer[k]]
    /\ dirty' = [dirty EXCEPT ![t] = {}]
    /\ UNCHANGED <<mem, page, gestures>>

Login(t, u) ==
    /\ page[t] = "login"
    /\ Gesture
    /\ mem' = [mem EXCEPT ![t].session = u]
    /\ dirty' = [dirty EXCEPT ![t] = @ \cup {"session"}]
    /\ page' = [page EXCEPT ![t] = "dashboard"]
    /\ UNCHANGED <<store, writer>>

Logout(t) ==
    /\ page[t] \in Pages
    /\ Gesture
    /\ mem' = [mem EXCEPT ![t].session = Nil]
    /\ dirty' = [dirty EXCEPT ![t] = @ \cup {"session"}]
    /\ page' = [page EXCEPT ![t] = "login"]
    /\ UNCHANGED <<store, writer>>

\* A navigation link, or the browser's back button, inside the document.
Goto(t, p) ==
    /\ IsOpen(t) /\ page[t] # Landing(mem[t].session, p)
    /\ Gesture
    /\ page' = [page EXCEPT ![t] = Landing(mem[t].session, p)]
    /\ UNCHANGED <<store, mem, dirty, writer>>

\* Typing into a field of a form; the dashboard has none.
Edit(t, f, v) ==
    /\ page[t] \in Pages \ {"dashboard"}
    /\ v # mem[t].drafts[f]
    /\ Gesture
    /\ mem' = [mem EXCEPT ![t].drafts[f] = v]
    /\ dirty' = [dirty EXCEPT ![t] = @ \cup {"drafts"}]
    /\ UNCHANGED <<store, page, writer>>

-----------------------------------------------------------------------------

(***************************************************************************)
(* What localStorage holds of a slot is what the tab that wrote it last    *)
(* shows, unless that tab still owes an effect: a reload of that tab       *)
(* brings back its session, its history and its drafts, whatever other     *)
(* tabs and late answers did in between (the three effects of              *)
(* AppStateProvider and their dependency lists).                           *)
(***************************************************************************)
StoredIsShown ==
    \A t \in Tabs, k \in Slots :
        IsOpen(t) /\ k \notin dirty[t] /\ writer[k] = t => store[k] = mem[t][k]
=============================================================================
