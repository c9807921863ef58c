---------------------------- MODULE HoldTracking ----------------------------
(***************************************************************************)
(* How holds come to their end (infrastructure/ttl/holds_store.go and the  *)
(* loop that polls it).  Memory forgets a hold only when somebody says so, *)
(* and for a caller that never comes back only Redis remembers to.  Redis  *)
(* knows a hold by its id, whoever made it, so what one life of an id      *)
(* leaves behind is at work in the next one.                               *)
(*                                                                         *)
(* To the service this adds a history variable: the ids of which Redis can *)
(* still be relied upon.                                                   *)
(***************************************************************************)
EXTENDS InventoryService

VARIABLE
  fresh             \* history: ids of which nothing is left, or one hold that was
                    \* made of such an id and has lost nothing since

trackVars == <<serviceVars, fresh>>

HeldOnly(k, h) == \A j \in Keys : Held(part[j], h) <=> j = k

Tracked(k, h) == value[h] = k /\ delay[h] # "none"

CallsOn(h) == {w \in Callers : call[w] # NoCall /\ call[w].hold = h}

\* Neither memory nor Redis, no request and no round of the loop knows the id.
Traceless(h) ==
  /\ \A k \in Keys : ~Held(part[k], h)
  /\ value[h] = Nil /\ delay[h] = "none"
  /\ CallsOn(h) = {}
  /\ h \notin poller.ids \cup {poller.cur} \cup {v.hold : v \in poller.polled}

\* What makes a hold one that Redis may have lost: its value lapses, the request
\* that makes or repeats it cannot store it, or the process dies before it is stored.
MayBeLost(h) ==
  \/ ValueLapses(h)
  \/ \E w \in CallsOn(h) : SaveHoldFails(w)
  \/ restarts' # restarts /\ ~\E k \in Keys : Tracked(k, h) /\ HeldOnly(k, h)'

TrackInit == ServiceInit /\ fresh = HoldIDs

TrackNext ==
  /\ ServiceNext
  /\ fresh' = {h \in HoldIDs :
                 \/ Traceless(h)'
                 \/ h \in fresh /\ (\E k \in Keys : HeldOnly(k, h)') /\ ~MayBeLost(h)}

TrackSpec == TrackInit /\ [][TrackNext]_trackVars

\* A request that was begun goes on, the loops run, and time passes.  Nobody
\* has to make a request, and nothing has to fail or to lapse.
FairTrackSpec ==
  /\ TrackSpec
  /\ \A w \in Callers : WF_serviceVars(Proceed(w))
  /\ \A h \in HoldIDs : WF_serviceVars(BecomesDue(h))
  /\ WF_serviceVars(PollerStep)
  /\ WF_serviceVars(ServiceWriter)

-----------------------------------------------------------------------------
(* Properties                                                              *)

BeingSaved(k, h) == \E w \in CallsOn(h) : call[w].at = "save" /\ call[w].key = k

\* A hold has a value and an entry of the delay queue, which will release it, or
\* the request that made it is about to store them (service.go:127-150) -- be it
\* repeated, ended in a full queue or polled meanwhile, and be its id used before.
\* Excepted are holds whose value lapsed, that could not be stored, and those of
\* an id of which something older was left.
HoldsAreTracked ==
  \A k \in Keys, h \in fresh : Held(part[k], h) => Tracked(k, h) \/ BeingSaved(k, h)

\* src/README.md:145 promises that a hold that times out is released by way of the
\* delay queue.  That is so unless its value lapses before the loop comes by: a
\* hold ends, or somebody asks for it once more and it is stored again, or it has
\* lost its value or its id.
HoldsEnd ==
  \A k \in Keys, h \in HoldIDs :
    Held(part[k], h) /\ h \in fresh ~>
      ~Held(part[k], h) \/ h \notin fresh \/ BeingSaved(k, h)

=============================================================================
