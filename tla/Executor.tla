------------------------------ MODULE Executor ------------------------------
(***************************************************************************)
(* The console's requests: useExecutor and request() of api.ts.  A click   *)
(* sends a call and goes on; the answer comes back later, in any order     *)
(* with the answers of other calls, or the fetch fails.  What the code     *)
(* does after "await execute(...)" is the call's continuation, kept in its *)
(* field "then"; the modules of the pages say what it is.  A call has no   *)
(* timeout, is not cancelled when its page is left, and is forgotten by    *)
(* the browser only with its tab.                                          *)
(***************************************************************************)
EXTENDS ConsoleState, FiniteSets

CONSTANTS
    Requests,       \* the requests (service, method, path and body)
    Continuations,  \* what can be left to do once a call has ended
    MaxCalls        \* bound of the model: calls under way when another is sent

VARIABLES
    calls,      \* calls on their way, or answered and not yet handled
    sent,       \* number of calls sent; the id of a call is its number
    result      \* result[t]: the call the result panel shows, 0 for "Ready"

execVars == <<calls, sent, result>>

Call == [id : Nat, tab : Tabs \cup {Nil}, req : Requests, then : Continuations]

HistoryItem == [id : Nat, req : Requests, ok : BOOLEAN]

ExecInit ==
    /\ calls = {}
    /\ sent = 0
    /\ result = [t \in Tabs |-> 0]

NewCall(t, req, then) == [id |-> sent + 1, tab |-> t, req |-> req, then |-> then]

\* fetch(): the call leaves, and nothing else changes until it ends.
Send(t, req, then) ==
    /\ Cardinality(calls) < MaxCalls
    /\ calls' = calls \cup {NewCall(t, req, then)}
    /\ sent' = sent + 1
    /\ UNCHANGED result

\* A handler on page p sends a request; effort is what it counts for.
Start(t, p, effort, req, then) ==
    /\ page[t] = p
    /\ Effort(effort)
    /\ Send(t, req, then)
    /\ UNCHANGED <<store, mem, dirty, page, writer>>

Click(t, p, req, then) == Start(t, p, 1, req, then)

\* The call ends, and what follows it in the same handler is sent at once.
SendNext(c, reqs, then) ==
    /\ calls' = (calls \ {c}) \cup {NewCall(c.tab, r, then) : r \in reqs}
    /\ sent' = IF reqs = {} THEN sent ELSE sent + 1

Recorded(h, item) == Latest(<<item>> \o h)

\* All that is recorded somewhere.
Histories == {store.history} \cup {mem[t].history : t \in Tabs}

\* setResult and setHistory of an answer, whatever its status is; slots and
\* drafts are what the continuation sets besides.
Show(c, ok, slots, drafts) ==
    LET item == [id |-> c.id, req |-> c.req, ok |-> ok] IN
    /\ result' = [result EXCEPT ![c.tab] = c.id]
    /\ mem' = [mem EXCEPT ![c.tab].history = Recorded(@, item),
                          ![c.tab].drafts = drafts]
    /\ dirty' = [dirty EXCEPT ![c.tab] = @ \cup {"history"} \cup slots]
    /\ UNCHANGED <<store, page, writer, gestures>>

\* A fetch that fails rejects before anything is shown or recorded.
ShowNothing == UNCHANGED <<store, mem, dirty, page, writer, gestures, result>>

\* HistoryPanel on the dashboard: send an item's request again, without onSuccess.
Replay(t, then) ==
    \E i \in 1 .. Len(mem[t].history) :
        Click(t, "dashboard", mem[t].history[i].req, then)

\* Mutant: the history is cleared on the screen and its effect does not run.
ClearHistoryUnsaved(t) ==
    /\ page[t] = "dashboard"
    /\ Gesture
    /\ mem' = [mem EXCEPT ![t].history = <<>>]
    /\ UNCHANGED <<store, dirty, page, writer, execVars>>

ClearHistory(t) ==
    /\ page[t] = "dashboard"
    /\ Gesture
    /\ mem' = [mem EXCEPT ![t].history = <<>>]
    /\ dirty' = [dirty EXCEPT ![t] = @ \cup {"history"}]
    /\ UNCHANGED <<store, page, writer, execVars>>

\* A tab that is opened or closed starts from an empty result panel.
ResultReset(t) == result' = [result EXCEPT ![t] = 0]
=============================================================================
