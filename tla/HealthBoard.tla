---------------------------- MODULE HealthBoard ----------------------------
(***************************************************************************)
(* The dashboard of the console: the health badges, with a check of one    *)
(* service and the loop that checks all of them one after the other, and   *)
(* the history panel with its replay and clear buttons.  The badges are    *)
(* local state of the page: they are lost when the user leaves it, while   *)
(* the checks under way go on (and reach no badge any more).               *)
(*                                                                         *)
(* Sources: components/HealthSection.tsx, pages/DashboardPage.tsx,         *)
(* components/HistoryPanel.tsx.  /healthz changes nothing in a service, so *)
(* a service is only the outcome its check ends with.                      *)
(***************************************************************************)
EXTENDS Executor

CONSTANT
    Services        \* the services, in the order the loop checks them

\* What the drafts can come to.
Drafts == [DraftFields -> UNION {DraftChoices[f] : f \in DraftFields}]

ASSUME BoardAssumption ==
    /\ Services \in Seq(Requests) /\ Services # <<>>
    /\ Requests = {Services[i] : i \in 1 .. Len(Services)}
    /\ \A i, j \in 1 .. Len(Services) : Services[i] = Services[j] => i = j
    /\ Continuations = [at : 0 .. Len(Services), mounted : BOOLEAN]
    /\ InitialDrafts \in Drafts

VARIABLE
    status      \* status[t][s]: the badge of service s in tab t

vars == <<stateVars, execVars, status>>

\* What a check ends with: a 2xx answer, another answer, or no answer.
Outcomes == {"ok", "refused", "lost"}

Unknown == [s \in Requests |-> "unknown"]

Init ==
    /\ StateInit
    /\ ExecInit
    /\ status = [t \in Tabs |-> Unknown]

(***************************************************************************)
(* Leaving the dashboard unmounts its badges; a setStatusMap of a call     *)
(* that was sent before has no effect from then on.                        *)
(***************************************************************************)
Unmounted(c) == [c EXCEPT !.then.mounted = FALSE]

LeaveBoard(t) ==
    IF page'[t] = "dashboard" /\ page[t] = "dashboard"
    THEN UNCHANGED <<status, calls>>
    ELSE /\ status' = [status EXCEPT ![t] = Unknown]
         /\ calls' = {IF c.tab = t THEN Unmounted(c) ELSE c : c \in calls}

OpenTab(t, p) ==
    /\ Open(t, p)
    /\ ResultReset(t)
    /\ UNCHANGED <<calls, sent, status>>

\* The browser drops the calls of a closed tab.
CloseTab(t) ==
    /\ Close(t)
    /\ ResultReset(t)
    /\ calls' = {c \in calls : c.tab # t}
    /\ status' = [status EXCEPT ![t] = Unknown]
    /\ UNCHANGED sent

Effects(t) == Save(t) /\ UNCHANGED <<execVars, status>>

Move(t) ==
    /\ \/ \E u \in Users : Login(t, u)
       \/ Logout(t)
       \/ \E p \in Pages : Goto(t, p)
    /\ LeaveBoard(t)
    /\ UNCHANGED <<sent, result>>

Type(t) ==
    /\ \E f \in DraftFields : \E v \in DraftChoices[f] : Edit(t, f, v)
    /\ UNCHANGED <<execVars, status>>

\* A service's own button.
CheckOne(t, s) ==
    /\ Click(t, "dashboard", s, [at |-> 0, mounted |-> TRUE])
    /\ UNCHANGED status

\* The button that checks all: the first turn of the loop.
CheckAll(t) ==
    /\ Click(t, "dashboard", Services[1], [at |-> 1, mounted |-> TRUE])
    /\ UNCHANGED status

ReplayCheck(t) ==
    /\ Replay(t, [at |-> 0, mounted |-> FALSE])
    /\ UNCHANGED status

Clear(t) == ClearHistory(t) /\ UNCHANGED status

\* Mutant: the try stands around the loop, and the first failure ends it.
NextTurnStops(c, o) ==
    IF o = "ok" /\ c.then.at \in 1 .. Len(Services) - 1 THEN {Services[c.then.at + 1]} ELSE {}

\* The next turn of the loop call c belongs to, whatever c ended with.
NextTurn(c, o) ==
    IF c.then.at \in 1 .. Len(Services) - 1 THEN {Services[c.then.at + 1]} ELSE {}

\* Mutant: the map is built from the one the handler saw when the page came up.
BadgesFromFirst(c, o) == [Unknown EXCEPT ![c.req] = IF o = "ok" THEN "ready" ELSE "down"]

\* Mutant: the badge takes the outcome itself.
BadgesRaw(c, o) == [status[c.tab] EXCEPT ![c.req] = o]

\* setStatusMap with the outcome of c: only the badge of its service changes.
Badges(c, o) == [status[c.tab] EXCEPT ![c.req] = IF o = "ok" THEN "ready" ELSE "down"]

\* A check ends with outcome o, and its loop goes on to the next service.
EndCheck(c, o) ==
    /\ IF o = "lost" THEN ShowNothing ELSE Show(c, o = "ok", {}, mem[c.tab].drafts)
    /\ status' = IF c.then.mounted THEN [status EXCEPT ![c.tab] = Badges(c, o)] ELSE status
    /\ SendNext(c, NextTurn(c, o), [c.then EXCEPT !.at = @ + 1])

Next ==
    \/ \E t \in Tabs :
        \/ \E p \in Pages \cup {"login"} : OpenTab(t, p)
        \/ CloseTab(t)
        \/ Effects(t)
        \/ Move(t)
        \/ Type(t)
        \/ \E s \in Requests : CheckOne(t, s)
        \/ CheckAll(t)
        \/ ReplayCheck(t)
        \/ Clear(t)
    \/ \E c \in calls, o \in Outcomes : EndCheck(c, o)

(***************************************************************************)
(* The effects of a tab run, and a fetch ends one way or the other (the    *)
(* proxies in front of the services give up after a while).  The user owes *)
(* nothing.                                                                *)
(***************************************************************************)
EndOf(t, s) == \E c \in calls, o \in Outcomes : c.tab = t /\ c.req = s /\ EndCheck(c, o)

Fairness ==
    /\ \A t \in Tabs : WF_vars(Effects(t))
    /\ \A t \in Tabs, s \in Requests : WF_vars(EndOf(t, s))

Spec == Init /\ [][Next]_vars /\ Fairness
-----------------------------------------------------------------------------

Copies == [session : Users \cup {Nil}, history : Seq(HistoryItem), drafts : Drafts]

HealthTypeOK ==
    /\ store \in Copies /\ mem \in [Tabs -> Copies]
    /\ dirty \in [Tabs -> SUBSET Slots]
    /\ page \in [Tabs -> Pages \cup {"login", "closed"}]
    /\ writer \in [Slots -> Tabs \cup {Nil}]
    /\ gestures \in 0 .. MaxGestures
    /\ calls \subseteq Call /\ sent \in Nat /\ result \in [Tabs -> 0 .. sent]
    /\ status \in [Tabs -> [Requests -> {"unknown", "ready", "down"}]]

\* The checks of service s, sent since the page was shown, that end in this step.
Ended(t, s) == {c \in calls : /\ c.tab = t /\ c.req = s /\ c.then.mounted
                              /\ \A d \in calls' : d.id # c.id}

(***************************************************************************)
(* While the dashboard stays, a badge changes only when a check of its own *)
(* service ends, to ready exactly when that check went into the history as *)
(* ok: checks that overlap, fail or belong to an earlier visit of the page *)
(* never disturb another badge (setStatusMap after execute, in try and in  *)
(* catch).                                                                 *)
(***************************************************************************)
BadgesTellOutcomes ==
    [][\A t \in Tabs, s \in Requests :
          page[t] = "dashboard" /\ page'[t] = "dashboard" =>
             status'[t][s] =
                IF Ended(t, s) = {} THEN status[t][s]
                ELSE IF \E c \in Ended(t, s), i \in 1 .. Len(mem'[t].history) :
                            mem'[t].history[i].id = c.id /\ mem'[t].history[i].ok
                THEN "ready" ELSE "down"]_vars

(***************************************************************************)
(* Once "check all" was clicked every service gets its badge, even after   *)
(* some are down or answer nothing, unless the user leaves the page (the   *)
(* try and catch are inside the loop).                                     *)
(***************************************************************************)
CheckAllReachesEveryService ==
    \A t \in Tabs :
        (\E c \in calls : c.tab = t /\ c.then.at = 1 /\ c.then.mounted)
            ~> (page[t] # "dashboard" \/ \A s \in Requests : status[t][s] # "unknown")
=============================================================================
