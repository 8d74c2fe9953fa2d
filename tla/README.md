# A TLA+ verification of gokeel

gokeel is a set of Go packages for event-driven services: transactions with
Spring's propagation rules (`transaction`), an in-process event bus with a
queueing broker (`eventbus`), a transactional outbox (`outbox`), a durable
multi-node message bus on a SQL database (`sqlbus`), hierarchical log levels
(`logging`) and a configuration loader (`conf`). This directory models the parts
whose correctness depends on interleavings, crashes, clocks and failures, checks
them with TLC on small instances and proves the central results with TLAPS for
every value of the constants.

Run a check with `tlc -config <X>.cfg <MC module>`, the proofs of a module with
`tlapm <M>Proofs.tla`, where `<M>` is `SqlBus`, `Dispatcher`, `Registration`, `Outbox`,
`Transaction`, `MemoryBroker`, `LogLevels` or `Conf`.

## 1. Inventory

| Component | State it keeps | Operations | Talks to |
|---|---|---|---|
| sqlbus delivery (`bridge.go`, `dispatcher.go`, `store_sql.go`) | tables `event_message`, `event_message_consumer` (start boundary, frontier), `event_message_delivery` (status, attempts, claim date, token, next date); attachments in memory | Publish, dispatchLocal, pass (materialize, advance, batches of claim - deliver - settle), Resubmit | the database shared by all nodes, the in-memory bus, `transaction` through after-commit callbacks |
| sqlbus dispatcher loops (`dispatcher.go`) | one goroutine per node, its pass, batch and context | Start, pass, the select between passes, stop | the store, the bridge, the listeners |
| sqlbus registration and upkeep (the same files) | `event_message_listener` (mode row), the consumer rows, `last_seen` | Attach, Detach, heartbeat, maintain (expire, retain, cap, sweep) | the delivery passes of every node, through the tables |
| outbox (`registry.go`, `publisher.go`, `resubmitter.go`, `store_sql.go`) | publication rows (status, attempts generation, dates), archive rows | Publish, Dispatch, ResubmitIncomplete, MarkCompleted by update, delete or archive | the business transaction, the bus, other instances through the table |
| transaction (`manager.go`, `context.go`, `definition.go`) | unit of work: database transaction, savepoints, six callback lists, rollback-only and completed flags | Run (new, joined, nested), Register*, MarkRollbackOnly, hooks of `ExecutionListener` (`listener.go`) | database/sql; outbox and sqlbus register callbacks |
| eventbus memory broker (`broker_memory.go`, `bus.go`), an engine of the `Broker` interface (`broker.go`) | queue, condition variable, stopped flags, timers, dead letters | Subscribe, Publish, work, scheduleRetry, park, Resubmit, Stop | listeners, called by its workers |
| logging (`manager.go`, `configuration.go`, `name.go`, `level.go`, `handler.go`) | immutable level tree behind an atomic pointer, groups, known names | options, SetLevel, ResetLevel, Apply, Handler | log/slog |
| conf (`loader.go`, `placeholder.go`, `binder.go`) | the merged tree and the target while a Load runs | Load: read, decode and merge the sources, resolve placeholders, bind | files, environment |

What is hard here:

* **concurrency**: several nodes run claims, settlements, heartbeats and
  maintenance against the same rows, one SQL statement at a time; within a
  process workers, timers, publishers and Stop share a queue;
* **failure**: nodes crash between any two statements; savepoints, callbacks and
  archive transactions fail half way;
* **time**: leases, retry delays, the materialization grace, retention and
  consumer expiry are decided on clocks of different nodes;
* **ordering**: a FIFO listener must see publication order across retries, dead
  letters, resubmission, late commits and clock skew.

What makes each component correct:

* sqlbus: no message is passed over by the frontier, a live lease is exclusive, a
  completed delivery stays completed, exhaustion is exact, ordered listeners run
  in order and serially, nothing unpublished runs;
* registration: nodes agree on a listener's mode, upkeep takes nothing from a
  live consumer, a reaped live node comes back;
* outbox: at-least-once delivery of exactly the committed publications, settled
  only by the generation that delivered them;
* transaction: the outcome a caller is told is the outcome of the database,
  doomed or undone work never commits, no transaction stays open, callbacks run
  in their order and phase, observers are told the truth;
* dispatcher loops: every committed message is handled to the end by the nodes that
  live, Stop ends and leaves no claim that must wait for its lease;
* memory broker: no delivery lost or duplicated, no lost wakeup, exact budgets, every
  event settled, Stop returns;
* logging: nearest configured ancestor decides, a document overlays exactly what
  it names;
* conf: the last source that names a key decides, exactly the endless references are
  circular, and the target holds what was said of it, whatever the iteration order.

The complete hazard list, with the line where each one bites and the property
that would catch it, is in `PROJECT.json`.

## 2. Modules

`Mx` below is the module, `MCMx` its instance for TLC. Names of actions are the
names of the functions they model.

### SqlBus, SqlBusProofs

One competing listener, any number of nodes. `msg` is the message table with the
publications still open, `consumer` the consumer row, `delivery` the delivery
table, `worker` the dispatcher loop of every node and the fast path of every
publication, `attached` the attachments in memory, `now` real time. A step is one
SQL statement or the clock reading and control flow between two statements;
`Clock(n) = now + Skew[n]` is `time.Now()` on node `n`.

* `BeginPublish`, `CommitPublish`, `RollbackPublish`, `DiscardPublish` model
  `Publisher.Publish` inside a transaction (the last one is the after-commit
  callback that survives the rollback of a nested scope); `StoreMessage`,
  `StoreDeliveries`, `StoreDeliveriesFails` a publication without one.
* `StartPass`, `MaterializeDeliveries`, `AdvanceFrontier`, `FindDueDeliveries`,
  `Dispatch`, `EndBatch`, `AbortPass` are `Dispatcher.processAttachment`.
* `ClaimDelivery`, `ClaimDeliveryInOrder` (SQLite: one atomic statement),
  `SnapshotInOrder` / `WriteInOrder` (PostgreSQL READ COMMITTED: the subqueries
  see the statement's snapshot, the row's own condition is evaluated again when it
  is written), `CompleteDelivery`, `FailDelivery`, `Abandon` are
  `Bridge.dispatchDelivery`.
* `ResubmitDelivery` is the operator, `Crash` loses a node's memory, `Tick` is time.

Data left out of SqlBus: payloads, errors, several listeners and event types, the jitter
and the wake signal (a pass may start at any time), the limit of 16 batches per
pass (a pass may end after any batch).

### Dispatcher, DispatcherProofs

The loops around that protocol, from the side of progress: `Start`, the passes over the
attachments in their order, the select between two passes (`Wait`), the bounded batches,
`StatementFails`, and the function that stops a loop. Clocks are replaced by ages, so that
behaviours go on for ever: `ripe` says that a lease or a retry delay is over (`Ripen`),
`horizon` which messages are older than the grace (`Age`). The rows, conditions and
settlements are those of SqlBus; what is added is that an answer may be lost. `ClaimFails` and
`Abandon` may have had their effect in the database, which leaves a row processing that
nobody works on; `orphaned` remembers it. A settlement runs on a context that survives the
stop, as `settlementContext` provides. The loop is stopped (`Stop`), dies (`Crash`), and
is started again (`Start`); a pass of a node without attachments ends where it begins
(`Begins`). The module implements `AtLeastOnce`, the promise it shares with
the outbox.

### Registration, RegistrationProofs

The same tables seen from the other side: the mode row, consumer rows with their
boundary and `last_seen`, and what maintenance does to them. Attach, Detach, the
heartbeat, a delivery pass and the maintenance duties of another node are threads
that advance one statement at a time with the clock value they read earlier
(`MaxStall` bounds how old it can be). The claim protocol, verified in SqlBus, is
collapsed to its outcome. `cluster` is the deployment of a behaviour: which nodes host,
what they ask for, who maintains, and the bounds.

### Outbox, AtLeastOnce, OutboxProofs

`row` is the publication table, `archive` the archive table, `worker` the
dispatch of a publisher or a resubmitter. Each store method is one action with
its `WHERE` clause as guard (`GenerationCondition`, `ClaimCondition`,
`ResubmitCondition`); archiving is three (read, copy, delete with commit or rollback).
`AtLeastOnce` is the promise: an event is published or discarded with its
transaction, deliveries happen only for published events, and a publication is
settled only after a delivery of it. `Outbox` implements it under the mapping
in `Abstract`.

### Transaction, TransactionProofs

`stack` holds the active Runs, `phase` where the outermost one is. The work is
arbitrary code: it writes, registers callbacks of the six kinds with any order,
sets the mark, calls Run again (joined or nested), returns errors that roll back or
do not, swallows them, panics and recovers. Settlement is step by step: before
commit, before completion, commit or rollback (either may fail), after commit,
after completion. `hooks` records what an `ExecutionListener` is told and when. `Expire` is the
timeout or the caller's cancellation, after which database/sql has rolled back by itself.
`Outcome` is the set of errors that what Run returns wraps.

### MemoryBroker, BrokerContract, MemoryBrokerProofs

`BrokerContract` is the `Broker` interface for one consumer of an engine in one process:
an event is pending, being handled, handled, parked or, once the engine is stopped, given up;
its handler runs at most `MaximumAttempts` times per budget; under FIFO an event blocks the
others while it retries. `MemoryBroker` implements it under the mapping in `Contract`: an
event is where its one delivery is (`EventPlace`), and has spent the attempts that delivery
counts (`Spent`).

One consumer. A step is one critical section, one wakeup, one handler call or one
clock reading; `Signal` after the unlock and the two halves of Resubmit are steps of
their own, and a condition variable wakes whom it wants. `Publish` dates an event with
`time.Now().UTC()`, which strips the monotonic reading, and `enqueue` sorts by these dates.
They are therefore readings of the wall clock, which may be set back between two calls:
`BeginPublish` takes any of the `Readings` of its event.

### LogLevels, LogLevelsProofs

Names are sequences of tokens (text pieces, separators, blanks), so that trimming,
the root alias, whole-segment cuts and siblings with a common prefix are all
there. Writers hold one mutex and readers load one pointer, so an operation is a
step. `ParseLevel` is the table of tokens. A chain is indexed by how many tokens are cut off a
name, so its order is that of the code; the two loops of `Apply` over the sorted keys are
recursive functions over the positions of `Spelled` (`WithGroups`, `Assignments`).

### Conf, Placeholders

`Conf` is `Load` step by step: `ReadSource` reads, decodes and merges one source (`MergeTree`),
`EndSources` drops the key of the schema, `Resolve` is `resolveTree` (`ResolveTree`, its errors
`Reports`), `BindValue` binds one value after the other in any order of the keys
(`FieldOf`, `Converted`). Between two steps a file may be edited, and a second Load may
reuse the target.

Which field a key means is decided in three steps. `Visible` is `reflect.VisibleFields`: of the
fields of a struct and those it promotes, one that shares its Go name with another that lies
no deeper is gone, whatever the tags say and whether or not the other one can be bound.
`Collected` is the walk of `structFields`, which leaves out what is excluded, unexported, only
promoting, or inside an embedded struct that a tag names or excludes. Among the rest
`DominantField` decides for each document name.

A document is the function from the paths of its nodes to what they are, so what the code does
by recursion on a tree is said of the paths above and below a path: a merge keeps a node of the
base unless something above it, or the node itself, meets a node of the overlay and the two are
not both objects; `bind` keeps a list of the paths it has still to do, the innermost first, where
the code has its call stack. How a single text is resolved is the parameter `Resolution` of
`Conf`. `Placeholders` extends `Conf` and gives it its value, `ResolveAlone`: the environment before
the document, defaults, composed names and the set of names being resolved (`ResolveText`,
`ResolvePlaceholder`). A text is a sequence of literals and placeholders, parsed already.

The properties compare these algorithms with definitions of another shape: the last document
with a say at a path, unfolding without bookkeeping of cycles, and the value each collected field
is due when the field that dominates its name is the one bound.

## 3. Runs

Every passing run checks a distinct question; `PROJECT.json` lists the mutants, one per
property and run, that show the property can fail.

| Run (cfg) | Instance | Shows |
|---|---|---|
| `SqlBusLease` | 2 nodes, both may crash, 1 message published with or without a transaction, budget 2, lease 1, PostgreSQL, either ordering, time 0..3 | `TypeOK`, `LeaseProtects`, `ExhaustionExact`, `RunsPublishedOnly`, `CompletedIsFinal` |
| `SqlBusOrder` | 2 nodes with clocks 1 apart publishing in turns, 2 messages, FIFO, SQLite, grace 2 = longest transaction + skew, budget 2, one node may crash, time 0..3 | `FrontierComplete`, `NoLateCommit`, `SerialWithinLease`, `FifoInOrder` |
| `DispatcherProgress` | 2 nodes, one always started again, 1 listener: FIFO with 2 messages and 1 disturbance, or unordered with 1 message and 2; budget 2, batches of 1, 2 per pass; fair | `StoppedLeavesNoClaim`, `ImplementsAtLeastOnce`, `EventuallySettled`, `StopTerminates` |
| `OutboxDelivery` | 1 publication, its publisher and 2 resubmitters, each with its own completion mode, 3 faults, fair | `OneHolderPerGeneration`, `ArchivedOnceSettled`, `SettledByItsDelivery`, `ImplementsAtLeastOnce`, `EventuallySettled` |
| `TransactionUnit` | depth 3, 2 rows, 2 callbacks of 6 kinds and 2 orders, panics recovered or not, timeout or cancellation at any point | `OutcomeTruthful`, `DoomedNeverCommits`, `FailedNestedNeverCommits`, `NoLeakedTransaction`, `AfterCallbacksRun`, `CallbacksInOrder`, `HooksTellTheOutcome` |
| `MemoryBroker` | 2 events, 2 workers, budget 2, 1 resubmission, either ordering, one event dated before, with or after the other whichever is published first, Stop at any point, fair | `ExactlyOnePlace`, `NoReadyWorkBesideBlockedWorker`, `FifoInPublishOrder`, `ImplementsBroker`, `EventuallySettled`, `StopTerminates` |
| `RegistrationUpkeep` | four deployments: 2 nodes configured differently with 3 failed or retried statements and 2 detaches when no one else hosts; 1 host of a broadcast listener, 1 maintainer and 1 message, time 0..4, or 0..3 with a fault; the same for a competing listener, time 0..3; fair heartbeat | `ModesAgree`, `CoveredKept`, `ResurrectedOnlyAfterRemoval`, `Rejoins` |
| `LogLevels` | 6 spellings, 5 documents, behaviours of 4 operations | `HandlersFollowTree`, `DocumentOverlaid` |
| `ConfLoad` | 3 layered sources read twice with an edit in between; 3 texts of 7 forms that refer to each other and 4 environments; bindings of every kind with five sets of fields that compete for a name or share a Go name; 4-bit integers | `LastWordWins`, `ResolvedAsUnfolded`, `BoundByName` |

The type invariant of the other modules is stated in each (`TypeOK`) and is a theorem of every
one.

Three runs show the code disagreeing with what the repository says of it; each is a
finding in `PROJECT.json` with the quoted line:

| Run (cfg) | What happens |
|---|---|
| `SqlBusPostgres` | two nodes claim two rows of one ordered listener at once under READ COMMITTED |
| `TransactionMark` | a mark set inside a before-commit or before-completion callback is ignored |
| `RetentionFrontier` | a consumer reaped and re-registered inside a pass gets a frontier past unscanned messages |

The modules state ten more properties, taken from a comment or a guide, that the code
does not have. Each has a cfg of its own that makes TLC print the counterexample:

| cfg | Property | What happens |
|---|---|---|
| `SqlBusBudget` | `AttemptBudget` | a node that keeps crashing in the handler makes a delivery start more attempts than `MaximumAttempts` |
| `OutboxFresh` | `FreshAttemptKept` | a resubmission fences an attempt claimed after the observation, because claiming does not change the generation |
| `TransactionPanic` | `PanicAborts` | the panic of a nested Run, recovered by the work around it, leaves the nested writes to be committed |
| `TransactionRegister` | `BeforeCommitRuns` | a before-commit callback registered by a before-commit callback is accepted and dropped |
| `TransactionTimeout` | `TimeoutTold` | a timeout that elapses after the work, or that the work swallows, ends in a failed commit or a rollback whose error wraps `ErrTransactionSystem` or `ErrRollbackOnly` and not `ErrTransactionTimedOut` (`definition.go:133`) |
| `RegistrationDetach` | `ModesAgree` | Detach on one node lets a later Attach choose another mode while a third node still runs the old one |
| `RetentionResurrect` | `NoResurrection` | a completed delivery of a reaped consumer is materialized again |
| `MemoryBrokerClock` | `FifoStrictly` | a wall clock set back between two calls of Publish makes a FIFO consumer handle the later event first (`broker.go:13`; the comment at `broker_memory.go:76` takes the dates for ascending) |
| `ConfFields` | `RefusedAsByJson` | two promoted fields of one Go name cancel each other in `reflect.VisibleFields`, even if a tag tells them apart or one of them lies in a struct embedded under a name, so a key that `encoding/json` binds fails with `ErrUnknownKey` (`binder.go:142`) |
| `LogLevelsGroups` | `GroupNameReceivesNone` | a group that is a member of another group receives a level of its own |

Four remarks of the repository were met that the code does not follow, too small for a property:
`definition.go:117` and `:123` say of the isolation level and of ReadOnly that they have "no
effect when the call joins", while `validateJoin` refuses such a call with
`ErrIncompatibleJoin`; `decodeDocument` accepts one stray closing bracket after the object,
where a document "must hold exactly one JSON object" (`loader.go:192`); and binding a map
replaces it as a whole, so that entries which the document does not mention do not keep
their values.

**Bounds.** Two nodes and one row already produce every race of the claim
protocol (holder, thief, zombie settlement); a second row is needed only where rows are
compared, so `SqlBusOrder` has two. `SqlBusLease` uses the PostgreSQL form of the
ordered claim, which has the SQLite form's behaviours and the split of statement
snapshot and row write besides. `MaxTime = 3` lets a lease expire, be stolen and expire
again; with a budget of 2 the last attempt can be reached by crash, failure and
resubmission. One outbox publication suffices because no store method compares two of
them, and three holders give an owner, a thief and a zombie; the archive and the update
mode meet each other because the instances are configured differently (deletion in one
statement is the update with another final status). Registration
needs one message and one host against one maintainer, and time enough for expiry,
retention and the age cap to fire in one behaviour (4; 5 in the runs with larger expiry).
DispatcherProgress has two nodes, so that one may hold what the other needs or leave it
behind; batches of one make every batch full, and with two of them to a pass a second message
and its retries need further passes. What two listeners add is only the order of the attachments in
a pass. In the memory broker two events and two workers give every pair of a blocked worker
and a wakeup that another one takes; one event is always dated 1 and the other 0, 1 or 2, since
only the order of dates counts. ConfLoad has a scenario per stage of Load: what the stages pass
on to each other is a tree, and the scenarios reach every error. Its sets of fields differ in
what decides a name: the depth, the tag, nothing (two tags of one depth), and a Go name shared
with a promoted field or with one inside a named embedded struct. Three Runs inside each other give a nested
Run inside a joined one and the reverse; two callbacks are enough for order and for
registration from within. Faults are bounded (`MaxFaults`, `MaxResubmits`,
`MaxCallbacks`, `MaxOperations`, the fields of `Clusters`, `Deployments` and `Scenarios`), never forbidden at a particular point.
Deadlock is checked in the SqlBus runs; the other systems may come to rest.

**Fairness.** Outbox: weak fairness of each resubmitter's pass (a ticker starts it), of the
steps of a started dispatch (goroutines are scheduled), and of ageing (time passes).
Listener failures and crashes are bounded, the premise of any delivery guarantee.
MemoryBroker: weak fairness of each worker, timer, signal and of Stop once called, that is,
of the Go scheduler, and of a Publish or Resubmit already under way; none of starting either
or of calling Stop. Dispatcher: weak fairness of every started loop, listeners returning; of starting
a steady node again, the premise that somebody delivers at all; of ageing and of the end of
leases and delays. Crashes, stops, failing statements and resubmissions are bounded, a listener
outlasts its lease only as one of them. Registration: weak fairness of the heartbeat loop of a live host. Nothing assumes strong fairness.

## 4. Proofs

`SqlBusProofs` proves, for any sets of nodes and messages, any clocks, lease, grace, budget,
ordering and dialect that satisfy the assumptions of `SqlBus`:

* `TypeCorrect`: `Spec => []TypeOK`.
* `FrontierIsComplete`, `CommitsAreNeverLate`: `FrontierComplete` is not inductive, because
  a pass scans in one statement and advances in another. `FrontierInv` adds that every
  frontier and every ceiling a pass carries lies at least `MaxTx` behind every clock
  (`CeilingsBehind`), that an open publication is at most `MaxTx` old
  (`OpenIsRecent`), and that below a ceiling whose scan is done nothing is missing
  (`ScannedBelow`). What becomes visible later was open, and so is dated above every
  ceiling. This uses `GraceAssumption`: the grace covers the longest publishing
  transaction plus the distance between any two clocks; the mutants of `SqlBusOrder` that
  drop the grace fail.
* `LeaseIsProtected`, `ExhaustionIsExact`, `OnlyPublishedRuns`, `CompletionIsFinal`:
  `FenceInv` says of every running dispatch that it either owns its row exactly as claimed
  (token, claim date, attempts + 1) or has lost it to a claim that saw its lease expired
  (`Ownership`), that rows exist only for visible messages (`RowsPublished`), and that the
  clock a dispatch carries was read on its own node (`ClockPast`).
* `OrderedIsSerial`, `OrderedIsInOrder`: the two FIFO properties, for the SQLite dialect and
  ordered listeners; under PostgreSQL the first is false, as the run `SqlBusPostgres` shows.
  `OrderInv` joins `FrontierInv` and `FenceInv`: the claim compares rows, so nothing may become
  visible behind them afterwards, and what it compares must be what its owner believes. It
  adds that what a dispatcher has found lies below the frontier (`BelowFrontier`) and that there
  is no fast path and no split claim (`Ordered`).

`OutboxProofs` proves, for any events, listeners, resubmitting instances and completion modes,
of an event that has listeners:

* `TypeCorrect`: `Spec => []TypeOK`.
* `ClaimsAreExclusive`, `SettlementIsFenced`, `ArchiveIsAtomic`: none of the three properties
  is inductive, because each relies on what a dispatcher holds while others move the row on.
  `FenceInv` adds that whoever has claimed a generation holds at most the row's, and that a
  row at that generation can not be claimed again (`Fenced`), that whoever is about to settle
  has delivered (`Succeeded`), that an event which is not published has no rows
  (`Unpublished`), and that generations count from one (`Seeded`).
* `OutboxImplementsAtLeastOnce`: `Spec => Abstract!Spec`, from the same invariant. A commit
  maps to `Publish`, a success of the listener to `Accept`, a settlement by the holder to
  `Settle`; claims, failures, resubmissions and fenced statements are invisible.

`DispatcherProofs` proves, for any nodes, attachments, messages, budget and bounds on batches
and faults:

* `TypeCorrect`: `Spec => []TypeOK`.
* `StopLeavesNothing`: `StoppedLeavesNoClaim` speaks of loops that have ended. `LoopInv` says of
  every loop, running or not, that each row it could still settle is the head of its batch or is
  remembered as orphaned (`Claims`), that a batch is a set of rows that exist (`Batched`), that
  whoever is about to settle has delivered (`Succeeded`), and that a message that is not
  committed has no row (`Unpublished`).
* `ImplementsPromise`: `Spec => ImplementsAtLeastOnce`, from the same invariant. Loops that have
  been overtaken deliver again, and settle nothing.

`TransactionProofs` proves, for any rows, callbacks, orders, depth of Runs and bounds:

* `TypeCorrect`, and all seven invariants of a unit of work: `OutcomeIsTruthful`, `DoomIsFinal`,
  `FailedNestedIsUndone`, `CallbacksRunInOrder`, `TransactionsAreSettled`, `AfterCallbacksAllRun`,
  `HooksAreTruthful`. They share one invariant, `UnitInv`, since each depends on where the
  outermost Run is: what the database has decided by then (`Settlement`), that a doomed
  transaction is marked while the work runs and bound to be rolled back afterwards (`Doom`),
  which callbacks of which phase have run (`Phased`, `AfterRun`), and exactly what the execution
  listeners have been told (`Told`). That a failed nested Run stays undone needs an
  invariant of the whole stack of savepoints: the set each one protects grows inwards
  and holds nothing that has failed, unless the transaction is doomed (`Protected`).

`RegistrationProofs` proves, for any hosts, maintainers, messages, deployments and times:

* `TypeCorrect`: `Spec => []TypeOK`.
* `FirstRegistrationWins`: `ModesAgree`, when Detach is called only for a listener that nobody
  hosts (`LiveDetach = FALSE`; the run `RegistrationDetach` shows what a live one does).
  `Arbitrated` adds that whoever goes on after reading the mode row wants what the row says, and
  that the row is there as long as somebody relies on it.
* `RetentionKeepsCovered`, `CompletedStaysCompleted`: `UpkeepInv` bounds the age of every clock
  value in flight by `MaxStall` (`Clocks`), so that a message deleted as settled is older than the
  boundary any registration under way can still write (`Outlived`); it adds that a host that is
  attached has a consumer row or had one removed (`Enlisted`), and that completed deliveries of a
  consumer that was never removed are remembered (`Remembered`). The assumption is
  `RetentionAssumption`: the retention covers the grace and the longest stall.

`MemoryBrokerProofs` proves, for any events, finite set of workers, budgets and either ordering:

* `TypeCorrect`, and `ExactlyOnce`: `ExactlyOnePlace`. `Placed` says that every delivery in the
  queue, with a worker, in a timer, parked or being resubmitted belongs to an accepted open
  event, is the only one of that event in all these places, and that every accepted open event
  has one.
* `EnqueuesAreObserved`: no wakeup is lost. The proof counts: blocked workers, signals under way
  and workers about to look, against the deliveries in the queue.
* `FifoKeepsPublishOrder`: `FifoInPublishOrder` holds for any dates, in whatever order the wall
  clock gives them out. A FIFO consumer has one worker that waits its backoffs out itself
  (`OneAtATime`), a delivery carries the date of its Publish (`Accepted`) and the queue is sorted by
  dates (`Sorted`), dead letters put back included. Among equal dates the order is that of the calls:
  whoever preceded had returned before the other was dated (`Preceding`), and events that
  preceded are in front, dead letters apart (`InOrder`).
* `ImplementsContract`: `Spec => ImplementsBroker`. Each step moves one delivery between two
  places or none; `Budgets` says how many attempts a delivery may have behind it at each place,
  which makes parking exact.

`LogLevelsProofs` proves, for any spellings, member lists, documents and bounds:

* `TypeCorrect`: `Spec => []TypeOK`.
* `HandlersFollow`: `HandlersFollowTree`. The invariant adds that a handler carries the chain of
  its own name (`Chained`); the rest is a lemma about names, `WalkFindsNearest`: the first
  assigned name of the chain is the longest configured whole-segment prefix, because a
  canonical name never ends in a separator (`TrimFacts`, `CanonicalFacts`).
* `DocumentsOverlay`: `DocumentOverlaid`. What the loops of `Apply` have collected after each key
  is stated in `Collected` and shown by the smallest position at which it would be wrong, as is
  that the loops come to their ends (`GroupScan`, `LevelScan`).

`ConfProofs` proves, for any documents, struct types, environments, edits, widths and bounds, and
whatever the resolution of a text is:

* `TypeCorrect`: `Spec => []TypeOK`. A merge, the dropped key of the schema and `resolveTree` leave
  well-formed documents (`MergeWellFormed`, `SchemaDropped`, `ResolvedWellFormed`): every node
  lies under an object or, when its last step is an index, under a list without gaps.
* `LastDocumentWins`: `LastWordWins` speaks of the moment the merge is over and the schema key gone.
  `SourcesInv` says the same, `Heard`, of every path after each source, also of paths that no
  document has named yet; one more document either has a say at a path, and decides it
  (`SpeakerDecides`), or leaves it as it was (`SilentLeaves`).
* `BindingByName`: `BoundByName` speaks of a Load that is over. `BindInv` says of one
  that binds: the paths on the work list lie apart from each other (`Separate`) and are reached
  through containers (`Reached`), every path that is not pending any more fits, and a field holds
  what it did before the call while its path is pending and what it is due from then on
  (`Settled`). `Moved` says what a step takes off the list, `OneField` that no two fields are bound
  to one name, and `DominantFacts` that `dominantField` finds the field that is shallower than all
  others, or as deep and the only tagged one, for any finite set of candidates.
* `JsonRuleWhenApart`: when no two fields of one struct share a Go name, a key is refused as unknown
  only where the rules of `encoding/json` have no field for it. `VisibleFields` then drops nothing
  (`SameRules`); the counterexample of `ConfFields` needs a shared name.

The assumption is `ScenariosAssumption`: what a file holds decodes to a well-formed document, and the
fields of the target are those that reflection finds on the way, each once in its struct, each
promoted one inside its embedded struct, with a memory cell of its own where it is collected
(`TypeAssumption`). `LastWordWins` needs besides that "$schema" is no index of a list.

Each preservation proof has one case per action; steps that do not touch the relevant state
are handled together through a summary (`SteadyStep`, `CalmStep` and their like).

Only model-checked: `ResolvedAsUnfolded`, whose two sides are recursive operators on texts, which
is induction over data that the provers used here do not do (the proofs about `Conf` hold for
every resolution instead); the properties of `Placeholders` therefore rest on `ConfLoad`; and every
liveness property (`EventuallySettled`, `StopTerminates`, `Rejoins`): fairness and ENABLED are
outside TLAPS as used here.

## 5. Not modelled

Serializers (encoding; a decoding error is a failing step of the modules that deserialize), schema,
generated table descriptors and migrators (startup I/O), `conf/schema.go` (generates a document),
the broker adapter of sqlbus (forwards to the bridge and the dispatcher), and the bus
conformance kit (tests).

Within modelled components:

* sqlbus: broadcast instances of deliveries (Registration has their consumer rows), several event
  types, the wake signal and the jitter (a pass may start at any time), a listener attached twice on
  one node by concurrent retries of Attach;
* clocks of sqlbus and outbox: their dates are wall-clock readings too (`bridge.go:487`,
  `dispatcher.go:240`, `registry.go:67`). `SqlBus` lets the clocks of two nodes differ by `Skew`,
  `Registration` lets a reading be `MaxStall` old, but neither lets the clock of one node be set
  back while the system runs, so their results hold for clocks that never step back.
  `Dispatcher` and `Outbox` have ages in place of dates, which only grow;
* transaction: Supports and Never without a unit of work, which only call the work; the refusal of a join is
  an error that changes nothing;
* memory broker: several consumers (they share no state but the broker's flags), a second concurrent
  Stop, registration on the bus;
* logging: the parsing of documents and of level lists, the decoration of the delegate handler;
* conf: how the text of a placeholder is cut into parts, durations, unsigned and floating
  numbers, TextUnmarshaler targets, the allocation of embedded pointers (fields promoted through one
  count as promoted by the struct it points to), concurrent Loads. A struct that embeds itself through a
  pointer is not in the scenarios.

## 6. Plan

What is left, in the order of importance:

1. Composition of Transaction with Outbox: after-commit callbacks against nested rollback.
2. Broadcast instances of deliveries in SqlBus, several listeners of one event.
