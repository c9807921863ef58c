# Verification of the 12306 ticketing system

TLA+ models of the Go services under `src/ticketing` and of the console under
`src/frontend`, the TLC runs that check them and the TLAPS proofs about them.
Paths of services are relative to `src/ticketing`, those of the console
(`*.ts`, `*.tsx`) to `src/frontend/src`, unless they start with `src/`.

Contents: [1 the system](#1-the-system) - [2 the modules](#2-the-modules) -
[3 the runs](#3-the-runs) - [4 fairness](#4-fairness) -
[5 what is proved](#5-what-is-proved) -
[6 where code and documents part](#6-where-code-and-documents-part) -
[7 not modelled](#7-not-modelled) - [8 plan](#8-plan)

## 1. The system

A user reserves a seat on a train, pays and gets a ticket. Five processes take
part; they share MySQL, Redis and Kafka. The client that the repository has is a
console in the browser, from which an operator runs flows and single requests.

```
 console -> gateway -> order service --HTTP--> inventory service -- Redis (TTL of holds)
                          |   ^                    |   \-- MySQL (inventory_wal, inventory_snapshot)
                       MySQL  | payment callback   Kafka (inventory events)
                   (orders, payments, outbox)
                          |
                       Kafka (order events) -> ticket worker -> seat allocator (C++)
                                                    |-- MySQL (tickets, ticket_outbox)
                                                  Kafka (ticket events)
                          query service <- order and ticket events; read model, cache
```

| Part | State | Operations | Correct when |
|---|---|---|---|
| Partition manager (`internal/inventory/infrastructure/partition/manager.go`) | per partition: capacity, available, confirmed, sequence number, holds; the bounded channel `walQueue` | try-hold, release, confirm, availability, restore, replay, export | seats are conserved; a mutation and its record are accepted together; records are numbered without gaps |
| Inventory log (`internal/inventory/application/service.go`, `wal/`, `snapshot/`, `event/`) | rows of `inventory_wal` and `inventory_snapshot`, the record in the writer's hand, the copies of the snapshot loop | write a record, publish it, export and store snapshots, recover | memory can be rebuilt; nothing is announced before it is durable; numbers are never reused |
| Inventory service and TTL (`application/service.go`, `ttl/holds_store.go`) | requests in progress, a Redis value and a delay-queue entry per hold, the poller | TryHold, ReleaseHold, ConfirmHold with their Redis calls; poll and release | a hold has what will release it; holds and entries end |
| Order service (`internal/order`) | rows of orders, payments and outbox; requests in progress; calls given up | create, reserve, pay, cancel, publish the outbox | the row lives the domain's lifecycle; outbox and payments agree with it; a paid order has a seat |
| Ticket worker (`internal/ticket`) | tickets, `ticket_outbox`, consumer position | handle OrderPaid, publish with retries | one ticket per paid order; every ticket is announced |
| Query service (`internal/query`) | read model, consumed-message table, cache, two consumer positions | consume two topics, answer, rebuild | the view follows the order; nothing is applied twice or skipped |
| Seat allocator (`seat-allocator/src/main.cc`) | a 64-bit mask per seat, one mutex | allocate | no two orders share a segment of a seat |
| Console state (`state/AppState.tsx`, `App.tsx`, `pages/LoginPage.tsx`, `pages/AppLayout.tsx`) | session, history and form drafts: one copy per tab, one in localStorage; the route | open, close, reload, log in and out, navigate, edit, write back in effects | a reload brings back what the tab showed |
| Console requests (`hooks/useExecutor.ts`, `api.ts`, `components/HistoryPanel.tsx`) | calls under way, the result shown, the history | send, answer, fail, replay, clear | what is recorded as ok is done; a replay does nothing again; late answers overwrite nothing |
| Health board (`components/HealthSection.tsx`) | a badge per service | check one, check all | a badge tells how its own check ended; checking all reaches all |
| Booking flows and forms (`components/WorkflowSection.tsx`, `OrderSection.tsx`, `InventorySection.tsx`, `QuerySection.tsx`, their pages) | the locals of each running handler, the polling flag and interval | run a flow, send a form, poll | flows side by side do not mix; one interval per tab |
| Gateway (`gateway-nginx`) | a request counter per trace id | rate limit, routing | no more than the limit pass |

Around these: plumbing (`internal/common`), a second packaging of the services
(`src/ticketing(go-zero)`), tools and station data.

**How they interact.** Within the inventory service, a request sends a command
through a channel to the shard goroutine that owns the partition and waits for
the answer; the shard sends the record of the mutation to `walQueue` without
waiting (`select` with `default`) and rolls back when the queue is full; the
writer goroutine takes records one at a time. The order service calls the
inventory service over HTTP with a three-second timeout, between reading the
order and updating it. Everything after that is asynchronous: outbox rows,
Kafka, consumers. The console calls the services over HTTP, through the proxy of
its server, without a timeout and without cancelling anything; its tabs share
localStorage and nothing else.

**What is hard.** The WAL record is accepted by a channel, not by the table, so
the answer comes before durability. Records, snapshots and memory advance at
different speeds and recovery has to join them. A request of the inventory
service is a command followed by Redis calls, and the TTL loop works from lists
it read earlier. A request of the order service reads, calls and updates without
a lock, and only the guard on the status stands between two of them. Calls
time out and are run later; commits fail after taking effect; processes die between
any two steps. Behind the outbox everything is delivered at least once and not
always in order, two topics are read independently, and a consumer's commit is
sent once a second and covers what was passed over. In the console, every handler
awaits answers that come late, out of order or never, while the user types, leaves
the page or starts the same flow again; each `setState` after an `await` works on a
state that has moved on; effects write to a store that other tabs write to.

`PROJECT.json` lists every hazard at its line, with the property that looks for it.

## 2. The modules

| Module | Stands for |
|---|---|
| `StockLedger` | abstract: what callers may rely on about the seats of a stock |
| `PartitionManager` | the shards and `walQueue`; implements `StockLedger` |
| `InventoryLog` | extends the manager with writer, snapshots, tables and recovery |
| `InventoryService` | extends the log with requests, Redis and the TTL loop |
| `HoldTracking` | adds a history variable to the service: the ids of which Redis has lost nothing; how holds end |
| `InventoryProofs` | theorems about the manager, the log and the service |
| `OrderLifecycle` | abstract: the life of an order, from the domain object |
| `OrderService` | the order service over an inventory of one seat per hold, where every request names its hold; implements `OrderLifecycle` |
| `OrderServiceProofs` | theorems about it |
| `SeatAllocator` | the C++ allocator: first fit over segments |
| `TicketWorker` | extends the allocator with the consumer of `order.events` and its transaction |
| `TicketWorkerProofs` | theorems about it |
| `TicketOutbox` | the publisher loops of the workers over `ticket_outbox` |
| `TicketOutboxProofs` | theorems about it |
| `OrderEvents` | from the steps of an order over the outbox to the topics |
| `QueryModel` | extends `OrderEvents` with consumers, read model, cache and rebuild |
| `QueryModelProofs` | theorems about it |
| `ConsoleState` | the state of the console in every tab and in localStorage, and the gestures on it |
| `Executor` | extends `ConsoleState` with requests, answers, history, replay |
| `HealthBoard` | extends `Executor` with the dashboard: badges and checks |
| `BookingFlows` | extends `Executor` with flows, forms and polling, over the interface of the order and inventory services |
| `ConsoleProofs` | what every page of the console keeps; lemmas about `ConsoleState` and `Executor` |
| `HealthBoardProofs`, `BookingFlowsProofs` | theorems about the two modules |
| `MC*` | instances for TLC |

`InventoryLog` and `InventoryService` are compositions: they reuse the actions
of the module below and add the state they share with it, so a run of
`InventoryService` executes manager, writer, snapshot loop, recovery, requests
and poller together. In the same way `TicketWorker` runs with the allocator and
`QueryModel` with the publisher of the order service.

The modules meet at the database: `OrderService` checks that every step of an
order writes its outbox row, and `OrderEvents` starts from that; `TicketWorker`
checks that a ticket writes exactly one row of `ticket_outbox`, and `TicketOutbox`
starts from that. `BookingFlows` stands on what `OrderService` and `PartitionManager`
show at HTTP: an order that is created once per key, only moves forward, and takes a
transaction once.

### PartitionManager

`part[k]` is the `PartitionState` of a partition and `walQueue` the channel. A
shard runs one command at a time on state no other goroutine touches, so a
command is one action. `TryHold` looks whether the queue is full before it
changes anything; then all three commands change the state, offer the record in
a `select` and undo the change when the queue does not take it, which can still
happen to `TryHold` because another shard may fill the queue in between. The
early refusal leaves the same state as the undo (or there is a bug in the undo),
so `SendOrUndo` always goes through the mutation and its undo: the rollback is
in every run that fills the queue, and is proved to restore the state.

Two encodings: a partition that does not exist is the record `Blank` of zeroes,
and a hold that does not exist has quantity 0. Both are sound because
`getOrInit` never creates a partition without capacity and the handlers refuse
a quantity `<= 0`. A `TryHold` that is refused still creates its partition, as
in the code.

### InventoryLog

`writer` is the local state of `walWriterLoop` (idle, inserting, publishing).
A failed insert drops the record, whether or not the row was written, as the
loop does (`application/service.go:189-195`); `dropped` is a history variable of those records. The snapshot loop copies shards one after
the other (`toExport`) and stores the copies (`exported`) until one fails.
`Restart` is recovery: `Recovered(k)` replays the rows of `inventory_wal` over
the snapshot, in order of their numbers and skipping what the snapshot covers.
Recovery only reads the tables and ends before anything else starts, so it is
one step.

### InventoryService

`call[w]` says what request `w` has yet to do after its command: save, undo or
remove Redis records. `value[h]` and `delay[h]` are the two Redis records of a
hold, keyed by the hold's id alone, as in the code. `poller` is the TTL loop
with what it has read: `PollRange`, one `PollValue` per entry, then one
`ReleaseExpired` per value, each a separate step. Time is the action
`BecomesDue`; the score is in whole seconds and the value has the full TTL, so
an entry is due up to a second before its value lapses (`ValueLapses`). As the loop
polls once a second, an ordinary tick may find the entry due and the value gone:
`ValueLapses` is always possible, no error and no switch. Callers use an id again as they
like, as the order service does when a reserve is repeated. `UndoTryHold` is the compensation of a
failed save, whose error is ignored: the hold is released, or it is gone, or the queue is full, or the
context of the request ended before the command was sent, and the hold stays.

`HoldTracking` adds `fresh`, the ids of which nothing is left, or one hold that was
made of such an id and has lost nothing since (`MayBeLost`: its value lapsed, it could not be stored,
or the process died before it was). That is what its properties are about.

### OrderService

`req[r]` says how far a request is: every step between two calls is an action
of its own. A transaction is one step, because `UpdateStatusTx` is guarded by
the status and the row is locked until commit; `CommitFails` reports an error
with or without effect. The inventory is reduced to `avail`, `held` and `sold`
with the outcomes a caller can see: 2xx, 404, conflict, or no answer with the
command run, never run, or still to come (`late`). The ticket worker's
transaction is `TicketOrder`, the inventory's TTL loop is `Expire`.

Every reserve, callback and cancel takes `partition_key` and `hold_id` from its own request, and
what is left out is the default partition and the order's id (`resolveHoldConfig`). In the model a
request names any member of `Holds`, an id in a partition (`PartitionOf`); so the requests of an order
may name different holds, and two orders may name one. A hold is of one seat: quantity and
capacity are left out. `Forget` is a restart of the inventory service that loses the record of a
hold it had granted or confirmed; the loss of a release only gives back a hold that nobody asks for.

Two history variables: `owner[h]` is the order whose request was first to name hold `h`, and `troubled`
are the orders a hold of which expired, was lost or was up for cancellation, for which a call or the
database failed, or whose requests clashed (`Clash`: they named a second hold, or that of another order).

### SeatAllocator and TicketWorker

`occupied` is the mask of every seat, as a set of segments. The worker is
configured with one route, so one `RouteInventory` is all there is; two workers
may have different `from_index` and `to_index` (`Trip`). `Allocate` is the whole
call, as it runs under one lock; it does not know the order.

Workers are members of a consumer group. One of them owns the partition;
`Rebalance` and `RestartWorker` give it to another, which begins at the committed
offset while the first may still be busy. `FlushOffset` is the commit that
`ReadMessage` of the library sends once a second for all that was handed out,
whatever became of it. `work[w]` walks through `handleMessage`: allocate, begin the
transaction and check the status (`CheckPaid`), insert and commit
(`InsertTicket`). The last is one step: the unique key of `tickets` decides, and the
other two statements follow in the same transaction. A call or a transaction may
fail, in effect or not.

### TicketOutbox

Each worker lists the due rows, then publishes and marks them one by one. A batch is a
set of ids, and its least is the next (`IsCurrent`), since rows are listed by id. A row in
`BACKOFF` waits for its `next_retry_at`; that `BackoffEnds` is time passing. `MarkRow` is
blind, as in the code: one loop's `MarkRetry` may follow another's `MarkPublished`. The
number of retries only sets the length of the pause and is left out.

### OrderEvents and QueryModel

`outbox` holds the events an order's transactions wrote. `sender` is the batch of
`StartOutboxPublisher`; a failed publish goes on with the next row and leaves this one
for a later round. A topic is one partition, since the order is the message key.
`Handle` is `consumeOnce` up to the commit: the transaction with the table
of consumed events and the upsert of the row, or an error, after which the consumer
fetches the next message. Invalidation of the cache and the commit are steps of
their own. A restart reads the orders in one step and writes them one by one, before
consumers and readers start (`cmd/query-service/main.go:64-68`), while the rest of the
system goes on. `GetOrderView` of a reader is two steps, reading the row and caching it.
`failed` is a history variable: events whose publishing or handling reported an error.

### ConsoleState and Executor

`mem[t]` is the React state of the provider in tab `t` (session, history, drafts) and
`store` is localStorage. A change of a slot makes its effect due (`dirty[t]`); `Save(t)`
is the run of the effects that are due, which React does together, some time after the
render. Opening a tab reads all slots and makes all effects due, since each runs after
the first render too. A gesture of the user is an action: `Login`, `Logout`, `Goto`
(a link or the back button, through `ProtectedRoutes`), `Edit`, `Open`, `Close`. A
reload is `Close` and `Open`; it loses effects that are still due. `writer[k]` is
observed only: the tab that wrote slot `k` last.

`execute` is split at its `await`: `Send` puts a call into `calls` with what its handler
does afterwards (`then`, the continuation with its local variables), and the end of the
call is an action of the page's module, which uses `Show` for an answer of any status and
`ShowNothing` for a fetch that rejects. `Show` is the synchronous part after the
`await`: result, history, the drafts the continuation sets, and their effects due.
`SendNext` sends what follows in the same handler. A call's `id` is its number, and
identifies its history item, as the random id of the code does.

### HealthBoard

The page's badges are local state (`status`). Leaving the dashboard unmounts them, and
`then.mounted` of the calls under way becomes FALSE: their `setStatusMap` reaches no
component, but the loop of "check all" goes on (`then.at`), and its answers still go to
the history. Replaying sends the item's request without the badge's continuation.
`/healthz` has no effect on a service, so a service is just an outcome.

### BookingFlows

A flow is a chain of calls with one continuation: `NextRequest` says which request follows
which. Keys and transactions of a flow end in `Date.now()`, a pair here; two flows within
one millisecond share them, as in the code (`now` may stand still). Forms read the drafts at
the click. `PollEffect` is the effect of `BookingPage` with its clean-up. It depends on `execute`,
which is a new function at every render, so it runs again and again; with the same order it only starts
the three seconds anew, and how much of them is over is not in the model. `PollTick` is one firing of the
interval.

The services are behind `Serve`: one moment at which the request is done or refused, and an
answer. An error may be answered although the request was done (the read after the commit
fails), a request may be refused although it could be done, and a call may be lost before or
after it is served (`Lose`, and `CloseTab` for all calls of a tab), each of them a trouble.
An order is named by the idempotency key it was created with, as `CreateOrder` gives one order
per key; PAID stands for TICKETED. Canceling and expiry of orders cannot be reached from
the console and are in `OrderService`.

## 3. The runs

| Run | Question |
|---|---|
| `manager` | Are seats conserved, records numbered and changes recorded when two partitions share a queue that fills? Does each partition behave as a ledger? |
| `service` | With ids used again, repeated requests and values that may lapse before the poll, while Redis, database and broker answer: does a hold that has lost nothing have what will release it, does it end unless it is asked for again, and does every accepted record become durable? |
| `service_faults` | With Redis errors, lapsed values, ids used again, repeated requests, failing inserts, upserts and publishes and two restarts: do the books of memory and snapshots balance, do snapshots, log, records in flight and dropped records determine memory, is what a restart loses exactly what was in flight, are numbers fresh, is what is published durable, do snapshots only advance? |
| `order` | With every fault: does the row live the domain's lifecycle, does the outbox tell it exactly, do payments match paid orders? With requests that name any hold: does a paid order whose requests agreed on one hold of its own have its seat, unless that hold expired, was lost or cancelled, or something failed for it? |
| `tickets` | With redelivery, rebalances, failing calls and transactions and an allocator that restarts: one ticket and one event per order, final, and never two on one segment of a seat? |
| `announce` | With two loops, errors and restarts: is a row marked only after its event is in the topic, and is every ticket announced? |
| `views` | With lost commits, repeated and failed messages, restarts and racing readers: is everything shown true at some time, and does the view agree with the order in the end? |
| `console` | With two tabs and two services: does localStorage hold what its last writer shows? Does a badge tell how its own check ended, however checks overlap and pages are left? Does "check all" reach every service after failures? |
| `flows` | With flows, forms, replays, polling, edits, lost and wrong answers: do flows stay apart, is what a history shows as ok done, does a replay change nothing, does a late answer leave other fields and items alone, is there one interval at most? |
| `log_oversold`, `order_expiry`, `views_lost` | Findings, section 6 |

**Bounds.** `MaxSeq` caps the mutations of a partition, in a form that never
keeps an existing hold from ending (`WithinBound`), so liveness is not an
artefact of it. `MaxQty` and `Capacities` are small: the arithmetic is linear,
and one or two seats make the last-seat cases frequent. `WALBuffer` of 1 or 2
makes the full queue, another shard's record in between and a drained queue all
happen. Two holds suffice for the pairs that interfere in the manager (`manager`); in `service` and
`service_faults`, where Redis keys by the id, what interferes is one life of an id with the next, so
they have one id, used again and again, and two requests. Their capacity is two and a hold takes one
seat, so that a `TryHold` can be repeated, which is refused when fewer seats are left than it asks for.
Two partitions matter only where they share the queue (`manager`), so the other runs have one; the
order in which `ExportShard` and `UpsertSnapshot` take several shards is in the model, and
no run distinguishes it, since no property relates two partitions' snapshots. `MaxSeq` of 3
and `MaxRestarts` of 2 in `service_faults` let a restart follow a restart that lost numbers;
`MaxSeq` of 4 in `service` lets an id live twice. In `order`, the two holds are the ids of the two orders,
in one partition, so a request names its own order's hold or the other's; `MaxLate` of 1 is the number of
calls given up and still to be run at a time. Two
concurrent requests reach every pairwise race, and two seats let two reserves of one order both get through to the hold, since the
seats left are compared before the hold is looked up.

`tickets`: two orders, two workers whose trips overlap in one of two segments,
two seats, three messages (so that each order is paid and one event comes twice)
and two lives of the allocator. `announce`: two orders, two loops, two restarts;
errors are not bounded. `views`: one order, since no two orders share a row or an
event; three rows and three messages take it from INIT to PAID, or have one of them
repeated; `MaxFaults` of 3 is the number of errors, lost commits and restarts
together. Fewer than three would not let a restart follow a lost commit and a lost
mark.

`console`: two tabs, since every hazard of localStorage is between two of them; two
services make a loop with a second turn; a history of two items is full after two
answers; four gestures of both tabs together are enough to open both, and to check,
leave or replay; three calls may overlap. `flows`: one tab (what tabs share is in `console`);
five gestures, of which a flow takes two, so that two flows may run next to each other,
or one flow next to edits and a replay; two calls under way when another is sent; two readings
of the clock, so that two flows get the same key or different ones; one trouble (lost
call, refusal, or error after the fact). What a user types is one or two values per
field; amounts, quantities and partition keys decide nothing in the console.

The runs use symmetry only where no liveness property is checked. Deadlock checking
is off: with nobody calling, the services rest, and the bounds stop the rest.

**Assumptions of single runs**, each a named constant:

* `AppendMayFail = FALSE` in `service`: the database and the broker answer, as
  `AcceptedIsDurable` is about that case. `service_faults` lifts it. With failures, a
  recovered partition can be oversold (`log_oversold`, which takes four mutations), so
  `service_faults` does not ask for `SeatsConserved`, which it would find only because its
  bound is three; it checks what is left of it, `SeatsBalance`: no seat is lost or counted
  twice, though fewer than none may be available. That seats are conserved through restarts as
  long as the tables take what they are given is proved (`RestartsKeepSeats`). A dropped record
  is part of what memory rests on.
* `service`: `RedisMayFail` is `FALSE` and `MaxRestarts` is 0, since a `TryHold` that fails
  and a crash before the save take a hold out of what its properties speak of, and only make the run
  larger; `HoldsStayTracked` is proved with both. Values may lapse and ids are used again here as in
  every run. The poll takes at most 100 entries; no instance has that many. One partition:
  Redis keys by hold id, and `fresh` holds of an id are in one partition only.

## 4. Fairness

* `FairTrackSpec`: weak fairness of what a request has begun (a goroutine of
  the HTTP server runs its handler to the end), of the passing of time for each
  entry, of the poller (ticker of one second) and of the writer, a goroutine that
  loops on a receive: once a record is there, it is taken, inserted and published. No
  fairness is assumed of callers, the snapshot loop, errors, lapses or restarts. Nobody stops a
  caller that asks for the same hold for ever, and each time it is stored its time starts
  anew: `HoldsEnd` says that a hold ends or is asked for again.
* `HealthBoard!Spec`: weak fairness of the effects of each tab (React runs them after
  the render), and of the end of each service's calls (a fetch ends with an answer or
  rejects, since the development server's proxy and the browser give up on a dead
  connection). The outcome is free, and the user owes nothing. `BookingFlows` states no
  liveness and no fairness.
* `FairOutboxSpec`: weak fairness of listing and marking for each worker (ticker of
  half a second; a call ends within two seconds) and of the passing of time.
  Strong fairness of publishing each row: a message that is sent again and again
  is accepted at last. Marking may fail for ever, and `TicketsAreAnnounced` still
  holds. Restarts are bounded: workers that do nothing but restart announce
  nothing.

## 5. What is proved

In `InventoryProofs`, for all sets of partitions, holds and requests, all
capacities, quantities, queue sizes and numbers of restarts (`ManagerAssumption`,
`LogAssumption`, `ServiceAssumption`):

| Theorem | Statement |
|---|---|
| `TypeCorrect` | `Spec => []TypeOK` |
| `SeatsAreConserved` | `Spec => []SeatsConserved`: available + confirmed + held = capacity, and available >= 0 |
| `ImplementsLedger` | `Spec => LedgerSpec`: the manager implements `StockLedger` |
| `ChangesRecorded` | `Spec => ChangesAreRecorded`: no seat moves without a record whose replay gives the same move |
| `LogTypeCorrect` | `LogSpec => []LogTypeOK` |
| `FreshNumbers` | `LogSpec => []NumbersAreFresh` |
| `MemoryReplayable` | `LogSpec => []MemoryIsReplayable` |
| `PublishedDurable` | `LogSpec => []PublishedIsDurable` |
| `SnapshotsOnlyAdvance` | `LogSpec => SnapshotsAdvance` |
| `RestartsLoseOnlyInFlight` | `LogSpec => RestartLosesOnlyInFlight` |
| `SeatsBalanced` | `LogSpec => []SeatsBalance`: with every failure, no seat is lost or counted twice |
| `RestartsKeepSeats` | if `~AppendMayFail`: `LogSpec => []SeatsConserved`, with any number of restarts |
| `ServiceRunsLog` | `ServiceSpec => LogSpec`, so all of the above about the log holds of the service |
| `ServiceTypeCorrect` | `ServiceSpec => []ServiceTypeOK` |
| `HoldsStayTracked` | `TrackSpec => []HoldsAreTracked`, with no assumption on what fails |
| `ServiceKeepsSeats` | if `MaxRestarts = 0`: the service keeps what is proved of `Spec`, whatever else fails |

*The manager.* The inductive invariant is `SafeState`: every partition is a `GoodState`, that
is, typed, blank unless it has a capacity, of a known capacity, and conserved.
Type and conservation need each other: a rollback restores the state only if it
is typed, and the seats of a hold are as many as `HeldSeats` loses only if the
hold's quantity is in range; the known capacity is what the ledger's `Take` asks
for. The argument has four layers: counting (`SeatsOfHold`,
`SeatsOfEndedHold`: a hold of q seats is a block of q pairs in `HeldSeats`), the
mutations (`DoHoldEffect` ... field by field, `DoHoldBalances` ... in sum), the rollbacks
(`UndoHoldRestores` ...: undo after do is the identity), and one lemma per
command. Conservation also gives the ledger's guards: that a hold's seats are
among those taken and not sold follows from the conserved state after it.

*Replay.* `Replay` recurses over the numbers of the records, and the induction theorems of
the library cannot be instantiated here (they take an operator). So induction is said with a set
for the formula: `LeastNumber` (a set of naturals that is not empty has a least element, from the
well-foundedness of `<`) and `Induction` from it. With these, `ReplayRecursion` shows that the
recursion defines a function, `ReplayCovers` what its n-th state covers, `ReplaysAgree` that two
replays in the same state that see the same records stay together. What the rest uses are three
facts: a replay depends only on the records it needs (`ReplayOfNeeded`), a log can be replayed in
two parts (`ReplayInParts`), and appending a record applies it (`ReplayOfAppend`).

*The log.* The invariant is `LogInv`. None of the properties is inductive alone: that a number
is fresh depends on the order of all records under way (`NumbersOrdered`: the queue is sorted,
the writer's record comes before the queue and after the table, and no record is ahead of memory).
`Recoverable(k)` says of the snapshot *and of the copy the loop is about to store* that the records
rebuild memory from it (`Rebuilds`), since the copy becomes the snapshot after memory has moved on.
The accepted records (`Accepted`) change only with a command and at a restart; writer steps pass
them on (`PassesOn`). A partition that has no mutation yet is a case of its own: a refused
`TryHold` gives it a capacity that no record tells.

*Seats through recovery.* `SeatsBalanced` needs no more than that a record, whether or not it fits,
leaves the sum as it was (`ApplyRecoveredBalances`). `RestartsKeepSeats` has to look at every state a
replay goes through, not only at the last: a restart forgets what is in flight, so memory goes back to
a state that replaying *all* accepted records passes on the way. `OnTheWay` says that all those
states are good; a command adds one to them (`OnTheWayOneMore`), and since what is in flight has
larger numbers than what is in the table, the table alone leads to one of them
(`RestartLosesNothing`). The hypothesis is needed: with failing inserts `log_oversold` is the
counterexample.

*The service.* `HoldsStayTracked` assumes nothing: Redis may fail, values lapse before the poll, ids
are used again, the process restarts. The property itself names the holds it is not about, those
that are not `fresh`. Its invariant is `Minding`: a fresh id has left nothing behind (`Traceless`),
or has one hold that everybody minds (`Minded`): a request that knows it is about to store it, the loop
is not about to delete it and knows its partition, and Redis has lost nothing it was told. A step keeps
that part by part: what a step does to the holds of memory (`Rests`, `Takes`, `Ends`, of which only a
granted `TryHold` takes, `HoldsMove`), then one lemma for a caller that goes on (`ProceedMinds`), for the
loop (`PollerMinds`), for a new hold (`GrantMinds`) and for a restart (`RestartMinds`). The exceptions are
needed, each of them: section 6 tells how such holds come to stay.

In `TicketWorkerProofs`, for all sets of orders and workers, all trips, all numbers
of seats and segments, and any bound on messages and lives (`WorkerAssumption`,
`AllocatorAssumption`):

| Theorem | Statement |
|---|---|
| `WorkerTypeCorrect` | `WorkerSpec => []WorkerTypeOK` |
| `TicketsMatch` | `WorkerSpec => []TicketsMatchOrders`: TICKETED, a ticket and one outbox row go together |
| `SeatsExclusive` | `WorkerSpec => []SeatsAreExclusive`: no seat is sold twice over a segment |
| `TicketsFinal` | `WorkerSpec => TicketsAreFinal`: a ticket is never changed or taken back |

The inductive invariant is `SafeTickets`. `SeatsAreExclusive` is not inductive: a
ticket gets its seat from a worker that took it some steps ago, when the
tickets may have been others. So the invariant follows the seat. `AllMarked`
says that a seat in hand or on a ticket of this life is marked in `occupied` for its
whole trip, hence what `Allocate` finds free clashes with none of them; `Apart`
says that hands and tickets do not clash with each other, hence moving a seat
from hand to ticket (`TicketIssued`) makes no clash. A restart of the allocator
makes every place one of an earlier life, and `AllMarked` holds of it for that
reason alone. `InHand` says that a worker about to insert has an order that is
PAID or TICKETED, because nothing leads from there back to RESERVED; with
`TicketsMatchOrders` this leaves PAID if there is no ticket yet.

In `OrderServiceProofs`, for all sets of orders, requests, transactions, holds and partitions, any number
of seats and any of the faults (`OrderAssumption`):

| Theorem | Statement |
|---|---|
| `OrderTypes` | `OrderSpec => []OrderTypeOK`, with no more seats of a partition sold, held and available than there are |
| `OrdersLiveTheLife` | `OrderSpec => LifecycleSpec`: the guarded updates implement the domain object's life |
| `OutboxFollows` | `OrderSpec => []OutboxTellsStatus` |
| `PaymentsMatch` | `OrderSpec => []PaymentsMatchOrders` |
| `PaidOrdersHaveSeats` | `OrderSpec => []UntroubledPaidHasSeat` |

`OrdersLiveTheLife`, `OutboxFollows` and `PaymentsMatch` are about the database alone. `DbStep` lists what a transaction can be, whoever
runs it and whether or not its result is seen; it keeps `RowsAgree` and is a step of the
lifecycle. All that is needed of the requests is that a cancel updates from INIT or RESERVED.
`PaidOrdersHaveSeats` is about what runs side by side, and its requests choose their holds freely. What it
needs of them is in `OneHold` and `Named`: an order that is not in trouble owns one hold, and every
request that names this hold is for this order. `ReqOK` says what a request may rely on while its
order is untroubled: one that is about to move the order to RESERVED has it covered (a hold, or a
seat that was sold) *if the order is still in INIT*; one that compensates has an order that is past
RESERVED, so no reserve loses the hold it is about to rely on; one that records a payment has
had its seat sold. `WorldStep` is what any step may change of the rest, `ReqStable` that
`ReqOK` of a request survives it, and `StepKeepsInv` puts them together, so that each action has to
be looked at for its own request only (`ReserveCompensateFits`, `PayConfirmFits`, ...). In
`PayConfirmFits` lies the reason why "hold not found" may be taken for success as long as the requests
agree: the order is covered, so if the hold is gone, the seat was sold. That a restart of the inventory loses
a hold puts the order that owns it in trouble, and no other (`ForgetFits`).

The bound on the seats in `OrderTypeOK` rests on a sum over all holds of a partition. `OrderTypes` tells it by
counting: `SeatsTaken(p)` has an element for every seat of `p` that is held or sold, commands add one, take one
away or swap one for another (`RunCounts`, `UnconfirmedCounts`), and `avail[p]` with its cardinality is
`Seats` always.

In `TicketOutboxProofs`, for any orders, workers and restarts, `OutboxTypes` and
`PublishedAreAnnounced` (`OutboxSpec => []PublishedIsAnnounced`). The invariant adds
`SentIsAnnounced`: the row that a loop is about to mark is announced. It speaks of the loop's
memory only, so it holds whatever other loops have made of the row meanwhile.

In `QueryModelProofs`, for any orders, bounds and faults (`EventsAssumption`, `QueryAssumption`):

| Theorem | Statement |
|---|---|
| `QueryTypes` | `QuerySpec => []QueryTypeOK` |
| `ViewsAreTrue` | `QuerySpec => []ViewIsNeverAhead` |
| `CommitsAreConsumed` | `QuerySpec => []CommittedIsConsumed` |
| `SeatsStayKnown` | `QuerySpec => SeatStaysKnown` |
| `ViewsSettle` | `QuerySpec => []ViewSettles` |

An order only moves on, so what was true of it stays true (`PastGrows`, `TruthStays`). `NewsIsTrue`
says it of everything on its way to the view: rows of the outbox, messages of both topics, rows
that a restart is still copying. `UpdateIsTrue` is the step at which news becomes the view.
`PassedIsConsumed` is `CommittedIsConsumed` for all that a consumer has passed and not only for what
it has committed, which a commit needs.

`ViewSettles` speaks of a moment of rest and is the end of a long argument. `SettleInv` follows it:
the rows of an order are in the order of its life and the last tells its status (`OutboxOK`); a row
that has not failed is sent for the first time only after those before it (`SenderOK`: what is
marked was sent, and the batch goes in order); a consumer handles them in that order too, so the
last news consumed is the last that was sent, and the view tells it (`ViewOK`). A repeated message
changes nothing because it was consumed; a rebuild is harmless because the copy of an order is
never older than what was consumed before it (`CopiesTell`).

`ConsoleProofs` holds what every page of the console keeps, as lemmas about the actions
of `ConsoleState` and `Executor`, for any sets of tabs, users, pages and fields, any limit
of the history and any set `D` of drafts: `Kempt(D)` is the types, no history longer than its
limit, and `StoredIsShown`; `Numbered` says that calls are told apart by their numbers. The
limit matters for `StoredIsShown`: the effect writes `Latest` of the history, which is what the
tab shows only because the tab's own copy was cut already. Two theorem modules rest on it.

In `HealthBoardProofs`, for any services (`BoardAssumption`) and any number of checks:

| Theorem | Statement |
|---|---|
| `HealthTypes` | `Spec => []HealthTypeOK` |
| `StoredShown` | `Spec => []StoredIsShown`: localStorage holds what its last writer shows |
| `BadgesTell` | `Spec => BadgesTellOutcomes`: a badge tells how the check of its service that ended now has ended |

`BoardInv` adds that the number of a call under way is in no history yet (`ItemsAreOld`). Without
it the ok item that the property looks for could be of another call, and the badge's
outcome would not follow from the history.

In `BookingFlowsProofs`, for any keys, transactions, holds and fields (`FlowAssumption`) and any
number of flows, troubles and calls:

| Theorem | Statement |
|---|---|
| `FlowTypes` | `Spec => []FlowTypeOK`, with one polled order per tab at most |
| `FlowsApart` | `Spec => []FlowsAreApart`: a flow's calls name what is its own and follow steps that are done |
| `OkDone` | `Spec => []OkMeansDone`: what is shown as ok is done |
| `ReplayNothing` | `Spec => ReplayChangesNothing`: only a request that no history shows as ok changes an order or a payment |
| `AnswersKeep` | `Spec => AnswersKeepTheRest`: a late answer overwrites no other field and drops only the oldest item |

None of these is inductive: an item is recorded when its answer arrives, and done when it was
served, steps earlier. `FlowInv` follows the fact along its way: `ServerOK` (whoever paid is
PAID, which makes a repeated payment harmless), `AnswersOK` (an ok answer's request is done, and
there is one answer per call at most), `ItemsDone` (the same of an item), and `Apart` (the
property of `FlowsAreApart` for one call). What holds it together is `Grows`: orders only move
forward and a transaction, once taken, stays, so what is done is never undone (`MadeStays`).
`NextRequestKeeps` is the step of a flow: the order in an ok answer to a create is the
one the key names, so the next request is the flow's own. `DoKeeps` gives `ReplayNothing`: doing
again what is done changes no order and no payment.

Only model-checked is liveness (`AcceptedIsDurable`, `HoldsEnd`, `TicketsAreAnnounced`,
`CheckAllReachesEveryService`), which the prover does not handle. Every other property of a passing
run is stated by a theorem.

## 6. Where code and documents part

`src/README.md:133-146` and `docs/architecture/overview.md:29-34` describe the flow
and its guarantees. Three runs show executions of the code that break them:

* `log_oversold` - a failed insert is skipped; recovery then replays past the
  missing release and the recovered partition has fewer than no seats.
* `order_expiry` - the callback reads 404 as "confirmed before", so an order
  whose hold expired becomes PAID without a seat.
* `views_lost` - a message whose handling failed is not committed, but the next one
  is fetched all the same and its commit covers both: the failed one is never
  consumed, although its comment says that it can be retried.

The models contain more that no run is kept for; each was seen as a
counterexample when what excludes it was lifted, or is a step of a
module that can be read there:

* A confirmation (or a hold) is answered once its record is in the in-memory queue; a crash
  before the insert takes the sale back (`Forget` in `OrderService`; "memory state must not advance without
  durable WAL/outbox acceptance", says the overview). `RestartLosesOnlyInFlight` says
  that no more than this is lost.
* `src/README.md:145` promises that a hold that times out is released by way of the Redis delay queue. The
  score of its entry is cut to whole seconds, the value lives for the full TTL and the loop polls once a
  second (`ttl/holds_store.go:42-45`), so the value is often gone when the loop comes by. The loop then
  drops the entry and forgets the hold, which stays in memory with its seats until somebody confirms or
  releases it (`ttl/holds_store.go:78`). In `HoldTracking`: `CallTryHold`, `SaveHold`, `BecomesDue`,
  `PollRange`, `ValueLapses`, `PollValue`, `DropEntry`. This is ordinary timing, and `HoldsEnd` holds only
  because it excepts it.
* Every request of an order names its hold for itself (`order/application/service.go:401-425`). A callback that
  leaves out the hold id or the partition that the reserve gave, or gives another, confirms nothing: the 404
  is taken for success and the order becomes PAID without a seat while its hold waits to expire. Two
  orders that name one hold are both RESERVED and PAID by it, with one seat. Nothing fails in either;
  `troubled` has such orders for that reason alone (`Clash`).
* A crash between hold and save leaves a hold that recovery restores and no
  entry releases; the late Remove of a release deletes the records of a new hold
  with the same id; when Redis fails and the queue is full, a `TryHold` that
  reports an error keeps its seats, and so it does when the context of its request ended before the
  compensation was sent; when Redis fails during a retry, the
  compensation releases the hold that the first call was granted.
* A repeated `TryHold` for an existing hold is refused when fewer seats are left
  than it holds (`manager.go:235` comes before `:238`).
* A reserve that was overtaken by another reserve and a payment makes a second
  hold, finds the order RESERVED and leaves it; a retried callback sells it.
* A commit that fails after taking effect makes the reserve release the hold of
  a reserved order; a cancellation racing a callback cancels an order whose seat
  was just sold.
* An OrderPaid whose handling failed in the ticket worker is not handled again: the
  reader has committed it. A seat allocated for an event that is redelivered, or
  whose transaction fails, is never given back. A restarted allocator gives the same
  seats again, so tickets of different lives may clash.
* An event whose publishing failed is sent after later ones of its order, and the
  view then stays at the older status; a TicketIssued handled before OrderPaid leaves
  it at PAID, with the seat.
* The payment form sends the transaction of the drafts unchanged. Sent for a second order, it is
  answered 200 with that order still RESERVED, and the history shows ok: `OkMeansDone` has
  to allow for it (`Settled`).
* The result panel is titled "显示最近一次请求的完整响应" (the full response of the latest
  request) and shows the answer that arrived last; the history, "调用顺序" (call order), is in
  the order of answers, and a call whose fetch failed is in neither.
* Replaying a try-hold after its confirmation takes seats again, as the hold id is free by then:
  `ReplayChangesNothing` is about orders and payments only.
* Tabs do not hear of each other: a logout or an edit in one is unknown in the other, whose next
  effect writes its own slot over it. `StoredIsShown` says no more than that the last
  writer finds its own.

## 7. Not modelled

* Routing at the gateway, logging, metrics, tracing, middleware, configuration and
  start-up: no state the services depend on.
* `src/ticketing(go-zero)`: a second packaging of the same services. Its core
  packages repeat the same logic; no line of it is mapped.
* Of the console: the panels that only display (`ResultPanel`, `SectionCard`), the overall badge,
  the request previews, timings and raw bodies, and the number fields and partition key of the
  drafts, on which no branch depends. React's StrictMode, which runs effects twice in
  development builds, and an unavailable localStorage are left out.
* Tools and station data: files.
* Payment signatures, validation of request fields, message formats: pure
  checks at the edge that no property is about.
* The rate limit of the gateway: one atomic call increments the counter and sets
  its expiry, and nothing interleaves with it.
* The mock of the seat allocator that a worker runs with when it is not configured
  for the real one.

## 8. Plan

Done, in this order, the heart of the system first: `StockLedger`,
`PartitionManager`, `InventoryLog`, `InventoryService`, `HoldTracking`, `OrderLifecycle`,
`OrderService`, `SeatAllocator`, `TicketWorker`,
`TicketWorkerProofs`, `TicketOutbox`, `OrderEvents`, `QueryModel`; then the console:
`ConsoleState`, `Executor`, `HealthBoard`, `BookingFlows`, `ConsoleProofs`,
`HealthBoardProofs`, `BookingFlowsProofs`; then `OrderServiceProofs`,
`TicketOutboxProofs`, `QueryModelProofs`, `InventoryProofs`.

Next in the model:

1. An abstract specification of delivery, "every event reaches its reader once or
   more often, and not before it was written", that both `TicketOutbox` and
   `OrderEvents` implement.
2. An abstract specification of ticketing, "a paid order gets at most one ticket",
   that `TicketWorker` implements, and of the view that `QueryModel` implements.
3. The services behind `BookingFlows` as an abstract specification that `OrderService`
   implements, so that the two are joined by a refinement and not by reading.
4. A run of `views` with a second order, when a fairness argument for the consumers
   is added.

Next proofs, each for all constants:

1. The refinements of the abstract specifications above, as they are written.
2. That `HoldTracking` with fairness ends holds is liveness and stays with TLC; an abstract specification
   of a hold's life, which it implements, would carry its safety part.
