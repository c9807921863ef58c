-------------------------- MODULE InventoryService --------------------------
(***************************************************************************)
(* The inventory service as its callers see it                             *)
(* (internal/inventory/application/service.go): a request is a command to  *)
(* the partition manager followed by calls to Redis, which keeps a value   *)
(* with a time to live and an entry of a delay queue for every hold        *)
(* (infrastructure/ttl/holds_store.go).  A loop polls the delay queue and  *)
(* releases what is due.  Requests and the loop interleave between any two *)
(* of these calls, and a restart forgets all of them but not Redis.        *)
(***************************************************************************)
EXTENDS InventoryLog

CONSTANTS
  Callers,            \* requests in progress at a time
  Nil,                \* no value, no hold at hand
  SnapshotOps,        \* snapshotOpsThreshold
  RedisMayFail        \* BOOLEAN: Redis calls return errors, in effect or not

ASSUME ServiceAssumption ==
  /\ Nil \notin Keys \cup HoldIDs
  /\ SnapshotOps \in Nat \ {0}
  /\ RedisMayFail \in BOOLEAN

VARIABLES
  call,               \* what each request has yet to do
  value,              \* inventory:hold:<id>: the partition of the hold
  delay,              \* its entry in the delay queue: none, waiting or due
  poller,             \* the TTL loop: where it is and what it has read
  ops                 \* opCounter, up to the threshold it is compared with

redisVars == <<value, delay>>
serviceVars == <<logVars, call, redisVars, poller, ops>>

NoCall == [at |-> "idle"]

PollerIdle == [at |-> "idle", ids |-> {}, polled |-> {}, cur |-> Nil]

ServiceInit ==
  /\ LogInit
  /\ call = [w \in Callers |-> NoCall]
  /\ value = [h \in HoldIDs |-> Nil]
  /\ delay = [h \in HoldIDs |-> "none"]
  /\ poller = PollerIdle
  /\ ops = 0

CountOp == ops' = IF ops < SnapshotOps THEN ops + 1 ELSE ops

-----------------------------------------------------------------------------
(* Redis.  A pipeline that fails took effect not at all, in part or whole. *)

\* Mutant: the entry of the delay queue is forgotten.
SaveValueOnly(h, k) ==
  /\ value' = [value EXCEPT ![h] = k]
  /\ UNCHANGED delay

Save(h, k) ==
  /\ value' = [value EXCEPT ![h] = k]
  /\ delay' = [delay EXCEPT ![h] = "waiting"]

SaveFails(h, k) ==
  /\ RedisMayFail
  /\ \/ UNCHANGED redisVars
     \/ value' = [value EXCEPT ![h] = k] /\ UNCHANGED delay
     \/ Save(h, k)

Remove(h) ==
  \/ /\ value' = [value EXCEPT ![h] = Nil]
     /\ delay' = [delay EXCEPT ![h] = "none"]
  \/ RedisMayFail /\ UNCHANGED redisVars
  \/ RedisMayFail /\ value' = [value EXCEPT ![h] = Nil] /\ UNCHANGED delay

\* Time passes.  The score of an entry is cut to whole seconds, so it is due up to
\* a second before the value lapses; the loop polls once a second.
BecomesDue(h) ==
  /\ delay[h] = "waiting"
  /\ delay' = [delay EXCEPT ![h] = "due"]
  /\ UNCHANGED <<logVars, call, value, poller, ops>>

\* An ordinary tick of the loop may find the entry due and the value gone.
ValueLapses(h) ==
  /\ value[h] # Nil
  /\ delay[h] # "waiting"
  /\ value' = [value EXCEPT ![h] = Nil]
  /\ UNCHANGED <<logVars, call, delay, poller, ops>>

-----------------------------------------------------------------------------
(* Requests.                                                               *)

\* The part of the state that a command of the manager leaves alone.
OnlyManager == UNCHANGED <<writerVars, snapVars, restarts>>

\* A TryHold that the manager grants goes on to Redis; so does one for a hold
\* that exists already.
CallTryHold(w, k, h, q, c) ==
  /\ call[w] = NoCall
  /\ \/ TryHold(k, h, q, c)
     \/ TryHoldRefused(k, h, q, c)
     \/ TryHoldRepeated(k, h, q)
  /\ call' = IF Held(part'[k], h) /\ ~InsufficientStock(GetOrInit(part[k], c), q)
             THEN [call EXCEPT ![w] = [at |-> "save", key |-> k, hold |-> h]]
             ELSE call
  /\ OnlyManager /\ UNCHANGED <<redisVars, poller, ops>>

SaveHold(w) ==
  /\ call[w].at = "save"
  /\ Save(call[w].hold, call[w].key)
  /\ CountOp
  /\ call' = [call EXCEPT ![w] = NoCall]
  /\ UNCHANGED <<logVars, poller>>

SaveHoldFails(w) ==
  /\ call[w].at = "save"
  /\ SaveFails(call[w].hold, call[w].key)
  /\ call' = [call EXCEPT ![w].at = "undo"]
  /\ UNCHANGED <<logVars, poller, ops>>

\* Mutant: the hold is taken out of memory and the log is not told.
UndoTryHoldUnlogged(w) ==
  LET k == call[w].key
      h == call[w].hold
  IN
  /\ call[w].at = "undo"
  /\ part' = IF Held(part[k], h) THEN [part EXCEPT ![k] = DoRelease(@, h)] ELSE part
  /\ call' = [call EXCEPT ![w].at = "undoRemove"]
  /\ OnlyManager /\ UNCHANGED <<walQueue, redisVars, poller, ops>>

\* Mutant: the seat is given back without asking whether the hold still exists.
UndoTryHoldBlind(w) ==
  /\ call[w].at = "undo"
  /\ part' = [part EXCEPT ![call[w].key] = UndoHold(@, call[w].hold, 1)]
  /\ call' = [call EXCEPT ![w].at = "undoRemove"]
  /\ OnlyManager /\ UNCHANGED <<walQueue, redisVars, poller, ops>>

\* The hold is released again, and an error of that is ignored: it is gone, the
\* WAL queue is full, or the context of the request ended before the command was
\* sent, and then the hold stays.
UndoTryHold(w) ==
  /\ call[w].at = "undo"
  /\ \/ ReleaseHold(call[w].key, call[w].hold)
     \/ UNCHANGED managerVars
  /\ call' = [call EXCEPT ![w].at = "undoRemove"]
  /\ OnlyManager /\ UNCHANGED <<redisVars, poller, ops>>

UndoRemove(w) ==
  /\ call[w].at = "undoRemove"
  /\ Remove(call[w].hold)
  /\ call' = [call EXCEPT ![w] = NoCall]
  /\ UNCHANGED <<logVars, poller, ops>>

\* ReleaseHold and ConfirmHold of the service: nothing follows an error.
CallEnd(w, k, h) ==
  /\ call[w] = NoCall
  /\ ReleaseHold(k, h) \/ ConfirmHold(k, h)
  /\ call' = IF Held(part'[k], h) THEN call
             ELSE [call EXCEPT ![w] = [at |-> "remove", key |-> k, hold |-> h]]
  /\ OnlyManager /\ UNCHANGED <<redisVars, poller, ops>>

RemoveHold(w) ==
  /\ call[w].at = "remove"
  /\ Remove(call[w].hold)
  /\ CountOp
  /\ call' = [call EXCEPT ![w] = NoCall]
  /\ UNCHANGED <<logVars, poller>>

-----------------------------------------------------------------------------
(* The TTL loop.  The entries are read first, then the value of each; a    *)
(* value that is gone means the entry is deleted and the hold forgotten.   *)

PollRange ==
  /\ poller.at = "idle"
  /\ \E h \in HoldIDs : delay[h] = "due"
  /\ poller' = [PollerIdle EXCEPT !.at = "round",
                                  !.ids = {h \in HoldIDs : delay[h] = "due"}]
  /\ UNCHANGED <<logVars, call, redisVars, ops>>

\* Mutant: a value that is gone is taken like any other.
PollValueUnchecked(h) ==
  /\ poller.at = "round" /\ h \in poller.ids
  /\ poller' = [poller EXCEPT !.ids = @ \ {h},
                              !.polled = @ \cup {[key |-> value[h], hold |-> h]}]
  /\ UNCHANGED <<logVars, call, redisVars, ops>>

PollValue(h) ==
  /\ poller.at = "round" /\ h \in poller.ids
  /\ poller' = IF value[h] # Nil
               THEN [poller EXCEPT !.ids = @ \ {h},
                                   !.polled = @ \cup {[key |-> value[h], hold |-> h]}]
               ELSE [poller EXCEPT !.ids = @ \ {h}, !.at = "zrem", !.cur = h]
  /\ UNCHANGED <<logVars, call, redisVars, ops>>

DropEntry ==
  /\ poller.at = "zrem"
  /\ \/ delay' = [delay EXCEPT ![poller.cur] = "none"]
     \/ RedisMayFail /\ UNCHANGED delay
  /\ poller' = [poller EXCEPT !.at = "round", !.cur = Nil]
  /\ UNCHANGED <<logVars, call, value, ops>>

\* A Redis error ends the round before anything is released.
PollFails ==
  /\ RedisMayFail
  /\ poller.at = "round" /\ poller.ids # {}
  /\ poller' = PollerIdle
  /\ UNCHANGED <<logVars, call, redisVars, ops>>

\* Mutant: the entry is removed although the release failed.
ReleaseExpiredAnyway(v) ==
  /\ poller.at = "round" /\ poller.ids = {} /\ v \in poller.polled
  /\ \/ ReleaseHold(v.key, v.hold)
     \/ ~Held(part[v.key], v.hold) /\ UNCHANGED managerVars
  /\ poller' = [poller EXCEPT !.polled = @ \ {v}, !.at = "removeAgain", !.cur = v.hold]
  /\ OnlyManager /\ UNCHANGED <<call, redisVars, ops>>

\* The hold is released; or it was not found, and only its entry goes; or the
\* WAL queue is full, and it waits for the next round.
ReleaseExpired(v) ==
  /\ poller.at = "round" /\ poller.ids = {} /\ v \in poller.polled
  /\ \/ ReleaseHold(v.key, v.hold)
     \/ ~Held(part[v.key], v.hold) /\ UNCHANGED managerVars
  /\ poller' = [poller EXCEPT
       !.polled = @ \ {v},
       !.at = IF Held(part'[v.key], v.hold) THEN "round"
              ELSE IF Held(part[v.key], v.hold) THEN "remove" ELSE "removeAgain",
       !.cur = IF Held(part'[v.key], v.hold) THEN Nil ELSE v.hold]
  /\ OnlyManager /\ UNCHANGED <<call, redisVars, ops>>

\* ReleaseHold of the service removes the entry, and so does the loop.
RemoveExpired ==
  /\ poller.at = "remove"
  /\ Remove(poller.cur)
  /\ CountOp
  /\ poller' = [poller EXCEPT !.at = "removeAgain"]
  /\ UNCHANGED <<logVars, call>>

RemoveExpiredAgain ==
  /\ poller.at = "removeAgain"
  /\ Remove(poller.cur)
  /\ poller' = [poller EXCEPT !.at = "round", !.cur = Nil]
  /\ UNCHANGED <<logVars, call, ops>>

EndRound ==
  /\ poller.at = "round" /\ poller.ids = {} /\ poller.polled = {}
  /\ poller' = PollerIdle
  /\ UNCHANGED <<logVars, call, redisVars, ops>>

-----------------------------------------------------------------------------
(* The loops of the log, as the service runs them.                         *)

ServiceWriter == WriterStep /\ UNCHANGED <<call, redisVars, poller, ops>>

\* The snapshot loop exports once enough operations were counted, and whatever
\* came of it the counter starts again, forgetting what was counted meanwhile.
ServiceSnapshot ==
  /\ ~Exporting => ops >= SnapshotOps
  /\ SnapshotStep
  /\ ops' = IF Exporting' THEN ops ELSE 0
  /\ UNCHANGED <<call, redisVars, poller>>

ServiceRestart ==
  /\ Restart
  /\ call' = [w \in Callers |-> NoCall]
  /\ poller' = PollerIdle
  /\ ops' = 0
  /\ UNCHANGED redisVars

\* What a caller does next with a request it has begun.
Proceed(w) ==
  SaveHold(w) \/ SaveHoldFails(w) \/ UndoTryHold(w) \/ UndoRemove(w) \/ RemoveHold(w)

PollerStep ==
  \/ PollRange \/ DropEntry \/ PollFails \/ RemoveExpired \/ RemoveExpiredAgain \/ EndRound
  \/ \E h \in HoldIDs : PollValue(h)
  \/ \E v \in poller.polled : ReleaseExpired(v)

ServiceNext ==
  \/ \E w \in Callers, k \in Keys, h \in HoldIDs :
       \/ \E q \in Qtys, c \in Capacities : CallTryHold(w, k, h, q, c)
       \/ CallEnd(w, k, h)
  \/ \E w \in Callers : Proceed(w)
  \/ \E h \in HoldIDs : BecomesDue(h) \/ ValueLapses(h)
  \/ PollerStep
  \/ ServiceWriter
  \/ ServiceSnapshot
  \/ ServiceRestart

ServiceSpec == ServiceInit /\ [][ServiceNext]_serviceVars

-----------------------------------------------------------------------------
(* Properties                                                              *)

ServiceTypeOK ==
  /\ LogTypeOK
  /\ \A w \in Callers :
       call[w] = NoCall \/
       call[w] \in [at: {"save", "undo", "undoRemove", "remove"}, key: Keys, hold: HoldIDs]
  /\ value \in [HoldIDs -> Keys \cup {Nil}]
  /\ delay \in [HoldIDs -> {"none", "waiting", "due"}]
  /\ poller \in [at: {"idle", "round", "zrem", "remove", "removeAgain"},
                 ids: SUBSET HoldIDs, polled: SUBSET [key: Keys, hold: HoldIDs],
                 cur: HoldIDs \cup {Nil}]
  /\ ops \in 0..SnapshotOps

=============================================================================
