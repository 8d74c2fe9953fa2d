------------------------------- MODULE SqlBus -------------------------------
(***************************************************************************)
(* The durable message bus of package sqlbus, seen from one competing      *)
(* consumer: publication inside or outside a transaction, materialization  *)
(* of delivery rows behind a frontier, and the claim / lease / settle      *)
(* protocol that the dispatcher loops of several nodes and the publishers' *)
(* after-commit fast path run against the shared delivery table.           *)
(*                                                                         *)
(* One step is one SQL statement, or the clock reading and control flow    *)
(* between two statements.  Nodes read their own clocks: `now' is real     *)
(* time and Clock(n) what time.Now() returns on node n.                    *)
(***************************************************************************)
EXTENDS Integers, FiniteSets

CONSTANTS
    Nodes,        \* processes that publish events
    Hosts,        \* the nodes that attach the listener and run a Dispatcher
    Messages,     \* message identifiers; they break ties between dates
    Publisher,    \* Publisher[m]: the node that publishes message m
    PublishModes, \* "open": in a transaction; "auto": each statement by itself
    Faulty,       \* the nodes that may crash
    Skew,         \* Skew[n]: how far node n's clock is ahead of real time
    Grace,        \* WithMaterializationGrace
    Lease,        \* WithLeaseDuration
    MaxTx,        \* longest time from reading the publication date to the commit
    MaxAttempts,  \* the attempt budget of the listener
    RetryDelays,  \* the values the configured retry delay may return
    BatchSize,    \* deliveries one FindDueDeliveries query returns at most
    Orderings,    \* what an Attach may ask for: "FIFO", "UNORDERED"
    Dialect,      \* "sqlite" or "postgres"
    MaxTime       \* bound on real time

\* The identifiers are naturals so that they are totally ordered, as the
\* textual UUIDs of the message table are.
ASSUME MessagesAssumption ==
    Messages \subseteq Nat /\ Messages # {} /\ IsFiniteSet(Messages)

ASSUME NodesAssumption ==
    /\ Hosts \subseteq Nodes /\ Faulty \subseteq Nodes /\ Nodes \cap Messages = {}
    /\ Publisher \in [Messages -> Nodes]

ASSUME TimesAssumption ==
    /\ Skew \in [Nodes -> Nat]
    /\ Grace \in Nat /\ Lease \in Nat /\ MaxTx \in Nat /\ MaxTime \in Nat
    /\ RetryDelays \subseteq Nat

ASSUME PolicyAssumption ==
    /\ MaxAttempts \in Nat \ {0} /\ BatchSize \in Nat \ {0}
    /\ PublishModes \subseteq {"open", "auto"}
    /\ Orderings \subseteq {"FIFO", "UNORDERED"}
    /\ Dialect \in {"sqlite", "postgres"}

\* What WithMaterializationGrace asks of its caller, with the clocks made
\* explicit: the grace covers the longest publishing transaction plus the
\* distance between any two clocks.
ASSUME GraceAssumption ==
    \A n, p \in Nodes : MaxTx + Skew[p] - Skew[n] <= Grace

VARIABLES
    now,       \* real time
    msg,       \* the message table, and the publications still open
    consumer,  \* the listener and consumer rows: ordering, start boundary, frontier
    attached,  \* the hosts whose Bridge holds the attachment in memory
    delivery,  \* the delivery table, one potential row per message
    worker     \* the dispatcher loop of every node, the fast path of every message

vars == <<now, msg, consumer, attached, delivery, worker>>

\* A dispatcher loop is named by its node, a fast path by its message.
Workers == Nodes \cup Messages

Incomplete == {"PENDING", "PROCESSING", "FAILED"}

Statuses == Incomplete \cup {"ABSENT", "COMPLETED", "EXHAUSTED"}

\* "open": inserted by a transaction that has not ended; "auto": dated by a
\* publication without a transaction; "stored": its message row is visible, its
\* delivery rows not yet written; "visible": published; "lost": rolled back.
MessageStates == {"none", "open", "auto", "stored", "visible", "lost"}

Phases == {"idle", "materialize", "advance", "find", "batch",
           "claim", "write", "run"}

\* An entry of the slice FindDueDeliveries returns: the delivery and the
\* attempts its row showed.
Work == [msg : Messages, attempts : Nat]

MessageRecord == [state : MessageStates, date : Int, local : BOOLEAN]

ConsumerRecord == [registered : BOOLEAN, ordering : {"FIFO", "UNORDERED"},
                   boundary : Int, frontier : Int]

DeliveryRecord == [status : Statuses, attempts : Nat, token : Workers,
                   claimDate : Int, nextDate : Int]

WorkerRecord == [phase : Phases, msg : Messages, attempts : Nat,
                 clock : Int, due : SUBSET Work]

\* The type invariant: attempt counters never go below zero, every row and every
\* loop is in one of its states.
TypeOK ==
    /\ now \in Nat
    /\ msg \in [Messages -> MessageRecord]
    /\ consumer \in ConsumerRecord
    /\ attached \in SUBSET Hosts
    /\ delivery \in [Messages -> DeliveryRecord]
    /\ worker \in [Workers -> WorkerRecord]

-----------------------------------------------------------------------------
(* Clocks, positions and the conditions of the SQL statements.             *)

Clock(n) == now + Skew[n]

\* Variant: a ceiling without the grace.
CeilingWithoutGrace(n) == Clock(n)

\* How far node n may look back for open publications: a start boundary or a
\* frontier ceiling, now minus the materialization grace.
Ceiling(n) == Clock(n) - Grace

\* The process a worker runs in.
Home(w) == IF w \in Messages THEN Publisher[w] ELSE w

Visible(m) == msg[m].state \in {"stored", "visible"}

\* The total order (publication_date, message_id).
Before(m, k) ==
    \/ msg[m].date < msg[k].date
    \/ msg[m].date = msg[k].date /\ m < k

\* Variant: a processing row is due whatever its claim date.
DueIgnoringLease(m, clock) ==
    delivery[m].status \in {"PENDING", "FAILED", "PROCESSING"}

\* dueCondition.  Zero stands for a NULL date; it is never compared, because
\* each comparison follows the status that implies a value.
Due(m, clock) ==
    LET row == delivery[m] IN
    \/ row.status = "PENDING"
    \/ row.status = "FAILED" /\ row.nextDate <= clock
    \/ row.status = "PROCESSING" /\ row.claimDate < clock - Lease

\* earlierIncompleteExists.
EarlierIncompleteExists(m) ==
    \E k \in Messages : Before(k, m) /\ delivery[k].status \in Incomplete

\* concurrentProcessingExists.
ConcurrentProcessingExists(m, clock) ==
    \E k \in Messages \ {m} :
        /\ delivery[k].status = "PROCESSING"
        /\ delivery[k].claimDate >= clock - Lease

\* claimCondition, at the attempts and the clock worker w carries.
ClaimCondition(w) ==
    /\ delivery[worker[w].msg].attempts = worker[w].attempts
    /\ Due(worker[w].msg, worker[w].clock)

\* Variant: the ordered claim trusts the find for the head-of-line condition.
InOrderWithoutHead(w) ==
    ~ConcurrentProcessingExists(worker[w].msg, worker[w].clock)

\* Variant: the ordered claim only re-verifies the head-of-line condition.
InOrderWithoutSerial(w) == ~EarlierIncompleteExists(worker[w].msg)

\* The two subqueries ClaimDeliveryInOrder adds.
InOrder(w) ==
    /\ ~EarlierIncompleteExists(worker[w].msg)
    /\ ~ConcurrentProcessingExists(worker[w].msg, worker[w].clock)

\* Variant: a settlement fenced by the status but not by the token.
SettlementWithoutToken(w) == delivery[worker[w].msg].status = "PROCESSING"

\* settlementCondition.  A worker runs one dispatch at a time, so the worker
\* itself stands for the fresh UUID token of its current dispatch.
SettlementCondition(w) ==
    /\ delivery[worker[w].msg].status = "PROCESSING"
    /\ delivery[worker[w].msg].token = w

\* What the dispatch-local variables of a worker hold outside a dispatch.
Resting(phase, due) ==
    [phase |-> phase, msg |-> CHOOSE m \in Messages : TRUE, attempts |-> 0,
     clock |-> 0, due |-> due]

\* Variant: the insert overwrites the row it conflicts with.
InsertedOver(row) == [row EXCEPT !.status = "PENDING"]

\* A fresh row, as CreateDeliveries and MaterializeDeliveries insert it under
\* ON CONFLICT DO NOTHING: an existing row is left alone.
Inserted(row) ==
    IF row.status = "ABSENT" THEN [row EXCEPT !.status = "PENDING"] ELSE row

\* FindDueDeliveries: the claimable deliveries worker w's node sees, for a FIFO
\* consumer only below the frontier and only the head of the queue.
Claimable(clock) ==
    {m \in Messages :
        /\ Due(m, clock)
        /\ consumer.ordering = "FIFO" =>
              msg[m].date < consumer.frontier /\ ~EarlierIncompleteExists(m)}

\* The LIMIT of the query, in the total order.
FirstOf(found) ==
    {m \in found : Cardinality({k \in found : Before(k, m)}) < BatchSize}

-----------------------------------------------------------------------------
(* Publication.                                                            *)

\* Publisher.Publish schedules dispatchLocal, which skips a FIFO listener.
FastPath(m, keys) ==
    IF keys /\ consumer.ordering = "UNORDERED"
    THEN Resting("batch", {[msg |-> m, attempts |-> 0]})
    ELSE worker[m]

\* Variant: the delivery rows are written past the caller's transaction.
BeginPublishOutsideTransaction(m, how) ==
    /\ msg[m].state = "none"
    /\ msg' = [msg EXCEPT ![m] = [state |-> how, date |-> Clock(Publisher[m]),
                                  local |-> Publisher[m] \in attached]]
    /\ delivery' = IF Publisher[m] \in attached
                   THEN [delivery EXCEPT ![m] = Inserted(@)] ELSE delivery
    /\ UNCHANGED <<now, consumer, attached, worker>>

\* Bridge.Publish dates the event from the publisher's clock.  Inside a
\* transaction ("open") the message and its local delivery rows stay invisible
\* until the commit; without one ("auto") each statement is durable by itself.
BeginPublish(m, how) ==
    /\ msg[m].state = "none"
    /\ msg' = [msg EXCEPT ![m] = [state |-> how, date |-> Clock(Publisher[m]),
                                  local |-> Publisher[m] \in attached]]
    /\ UNCHANGED <<now, consumer, attached, delivery, worker>>

\* The outermost transaction commits: its rows appear together, then the
\* after-commit callback starts the fast path.
CommitPublish(m) ==
    /\ msg[m].state = "open"
    /\ msg' = [msg EXCEPT ![m].state = "visible"]
    /\ delivery' = IF msg[m].local
                   THEN [delivery EXCEPT ![m] = Inserted(@)] ELSE delivery
    /\ worker' = [worker EXCEPT ![m] = FastPath(m, msg[m].local)]
    /\ UNCHANGED <<now, consumer, attached>>

\* The transaction rolls back, or the statement of a publication without one
\* fails: nothing was published and no callback runs.
RollbackPublish(m) ==
    /\ msg[m].state \in {"open", "auto"}
    /\ msg' = [msg EXCEPT ![m].state = "lost"]
    /\ UNCHANGED <<now, consumer, attached, delivery, worker>>

\* The publication happened inside a nested transaction whose savepoint was
\* rolled back, and the outer transaction commits.  A nested rollback keeps the
\* callbacks, so the fast path starts for rows that do not exist.
DiscardPublish(m) ==
    /\ msg[m].state = "open"
    /\ msg' = [msg EXCEPT ![m].state = "lost"]
    /\ worker' = [worker EXCEPT ![m] = FastPath(m, msg[m].local)]
    /\ UNCHANGED <<now, consumer, attached, delivery>>

\* CreateMessage outside a transaction.
StoreMessage(m) ==
    /\ msg[m].state = "auto"
    /\ msg' = [msg EXCEPT ![m].state = "stored"]
    /\ UNCHANGED <<now, consumer, attached, delivery, worker>>

\* localDeliveryKeys and CreateDeliveries outside a transaction: another node
\* may have materialized, claimed or completed the row already.
StoreDeliveries(m) ==
    /\ msg[m].state = "stored"
    /\ LET local == Publisher[m] \in attached IN
       /\ msg' = [msg EXCEPT ![m].state = "visible", ![m].local = local]
       /\ delivery' = IF local THEN [delivery EXCEPT ![m] = Inserted(@)]
                               ELSE delivery
       /\ worker' = [worker EXCEPT ![m] = FastPath(m, local)]
    /\ UNCHANGED <<now, consumer, attached>>

\* CreateDeliveries fails: Publish reports the error and dispatches nothing,
\* but the message is out.
StoreDeliveriesFails(m) ==
    /\ msg[m].state = "stored"
    /\ msg' = [msg EXCEPT ![m].state = "visible"]
    /\ UNCHANGED <<now, consumer, attached, delivery, worker>>

-----------------------------------------------------------------------------
(* Attachment and the materialization half of a dispatch pass.             *)

\* Bridge.Attach: the first registration decides the ordering and writes the
\* boundary, a later one only refreshes the heartbeat.
Attach(n) ==
    /\ n \notin attached
    /\ attached' = attached \cup {n}
    /\ IF consumer.registered THEN UNCHANGED consumer
       ELSE \E ordering \in Orderings :
              consumer' = [registered |-> TRUE, ordering |-> ordering,
                           boundary |-> Ceiling(n), frontier |-> Ceiling(n)]
    /\ UNCHANGED <<now, msg, delivery, worker>>

\* processAttachment captures the frontier ceiling before it scans.
StartPass(n) ==
    /\ n \in attached
    /\ worker[n].phase = "idle"
    /\ worker' = [worker EXCEPT ![n].phase = "materialize",
                                ![n].clock = Ceiling(n)]
    /\ UNCHANGED <<now, msg, consumer, attached, delivery>>

\* MaterializeDeliveries: one pending row for every visible message at or above
\* the durable frontier that has none.
MaterializeDeliveries(n) ==
    /\ worker[n].phase = "materialize"
    /\ delivery' = [m \in Messages |->
                      IF Visible(m) /\ msg[m].date >= consumer.frontier
                      THEN Inserted(delivery[m]) ELSE delivery[m]]
    /\ worker' = [worker EXCEPT ![n].phase = "advance"]
    /\ UNCHANGED <<now, msg, consumer, attached>>

\* Variant: the ceiling is read after the scan instead of before it.
AdvanceFrontierPastScan(n) ==
    /\ worker[n].phase = "advance"
    /\ consumer' = IF consumer.frontier < Ceiling(n)
                   THEN [consumer EXCEPT !.frontier = Ceiling(n)] ELSE consumer
    /\ worker' = [worker EXCEPT ![n] = Resting("find", {})]
    /\ UNCHANGED <<now, msg, attached, delivery>>

\* AdvanceFrontier, monotonic across nodes.
AdvanceFrontier(n) ==
    /\ worker[n].phase = "advance"
    /\ consumer' = IF consumer.frontier < worker[n].clock
                   THEN [consumer EXCEPT !.frontier = worker[n].clock]
                   ELSE consumer
    /\ worker' = [worker EXCEPT ![n] = Resting("find", {})]
    /\ UNCHANGED <<now, msg, attached, delivery>>

\* A statement of the pass fails, or the dispatcher is stopped between two:
\* the pass ends and the next one starts over.
AbortPass(n) ==
    /\ worker[n].phase \in {"materialize", "advance", "find", "batch"}
    /\ worker' = [worker EXCEPT ![n] = Resting("idle", {})]
    /\ UNCHANGED <<now, msg, consumer, attached, delivery>>

-----------------------------------------------------------------------------
(* The delivery half: find, claim, run, settle.                            *)

\* FindDueDeliveries; an empty batch ends the pass.
FindDueDeliveries(n) ==
    /\ worker[n].phase = "find"
    /\ LET found == FirstOf(Claimable(Clock(n))) IN
       worker' = [worker EXCEPT ![n] =
                    Resting(IF found = {} THEN "idle" ELSE "batch",
                            {[msg |-> m, attempts |-> delivery[m].attempts]
                             : m \in found})]
    /\ UNCHANGED <<now, msg, consumer, attached, delivery>>

\* The batch is worked off.  A dispatcher queries again or ends its pass: the
\* bound of sixteen batches and the short-batch test are left open.  A fast
\* path is over.
EndBatch(w) ==
    /\ worker[w].phase = "batch" /\ worker[w].due = {}
    /\ \E phase \in IF w \in Nodes THEN {"find", "idle"} ELSE {"idle"} :
         worker' = [worker EXCEPT ![w] = Resting(phase, {})]
    /\ UNCHANGED <<now, msg, consumer, attached, delivery>>

\* dispatchDelivery begins on the first delivery of the batch: it draws a token
\* and reads the clock, which becomes the claim date.
Dispatch(w) ==
    /\ worker[w].phase = "batch"
    /\ \E x \in worker[w].due :
         /\ \A y \in worker[w].due \ {x} : Before(x.msg, y.msg)
         /\ worker' = [worker EXCEPT ![w] =
                         [phase |-> "claim", msg |-> x.msg,
                          attempts |-> x.attempts, clock |-> Clock(Home(w)),
                          due |-> worker[w].due \ {x}]]
    /\ UNCHANGED <<now, msg, consumer, attached, delivery>>

\* The UPDATE of a claim took effect.
Claimed(w) ==
    /\ delivery' = [delivery EXCEPT ![worker[w].msg] =
                      [@ EXCEPT !.status = "PROCESSING", !.token = w,
                                !.claimDate = worker[w].clock,
                                !.attempts = worker[w].attempts + 1]]
    /\ worker' = [worker EXCEPT ![w].phase = "run"]

\* Zero affected rows, or a failed statement: on to the next delivery.
NotClaimed(w) ==
    /\ worker' = [worker EXCEPT ![w] = Resting("batch", @.due)]
    /\ UNCHANGED delivery

\* ClaimDelivery: the update re-evaluates the row's own condition, so it is
\* atomic under both dialects.
ClaimDelivery(w) ==
    /\ worker[w].phase = "claim" /\ consumer.ordering = "UNORDERED"
    /\ \/ ClaimCondition(w) /\ Claimed(w)
       \/ NotClaimed(w)
    /\ UNCHANGED <<now, msg, consumer, attached>>

\* ClaimDeliveryInOrder on SQLite, where statements are serial.
ClaimDeliveryInOrder(w) ==
    /\ worker[w].phase = "claim" /\ consumer.ordering = "FIFO" /\ Dialect = "sqlite"
    /\ \/ ClaimCondition(w) /\ InOrder(w) /\ Claimed(w)
       \/ NotClaimed(w)
    /\ UNCHANGED <<now, msg, consumer, attached>>

\* ClaimDeliveryInOrder on PostgreSQL under READ COMMITTED.  The subqueries are
\* judged on the statement's snapshot ...
SnapshotInOrder(w) ==
    /\ worker[w].phase = "claim" /\ consumer.ordering = "FIFO" /\ Dialect = "postgres"
    /\ \/ /\ InOrder(w)
          /\ worker' = [worker EXCEPT ![w].phase = "write"]
          /\ UNCHANGED delivery
       \/ NotClaimed(w)
    /\ UNCHANGED <<now, msg, consumer, attached>>

\* ... and the row is then locked and its own condition re-checked.
WriteInOrder(w) ==
    /\ worker[w].phase = "write"
    /\ \/ ClaimCondition(w) /\ Claimed(w)
       \/ NotClaimed(w)
    /\ UNCHANGED <<now, msg, consumer, attached>>

\* The listener returned without error; CompleteDelivery is fenced by the token.
CompleteDelivery(w) ==
    /\ worker[w].phase = "run"
    /\ delivery' = IF SettlementCondition(w)
                   THEN [delivery EXCEPT ![worker[w].msg].status = "COMPLETED"]
                   ELSE delivery
    /\ worker' = [worker EXCEPT ![w] = Resting("batch", @.due)]
    /\ UNCHANGED <<now, msg, consumer, attached>>

\* The event could not be restored or the listener failed; FailDelivery decides
\* on exhaustion from the attempts this dispatch claimed with.
FailDelivery(w) ==
    /\ worker[w].phase = "run"
    /\ \E delay \in RetryDelays :
         LET attempt == worker[w].attempts + 1 IN
         delivery' = IF SettlementCondition(w)
                     THEN [delivery EXCEPT ![worker[w].msg] =
                             [@ EXCEPT !.status = IF attempt >= MaxAttempts
                                                  THEN "EXHAUSTED" ELSE "FAILED",
                                       !.nextDate = Clock(Home(w)) + delay]]
                     ELSE delivery
    /\ worker' = [worker EXCEPT ![w] = Resting("batch", @.due)]
    /\ UNCHANGED <<now, msg, consumer, attached>>

\* The dispatch ends without a settlement: the caller was shutting down when
\* the listener failed, or the settlement statement itself failed.
Abandon(w) ==
    /\ worker[w].phase = "run"
    /\ worker' = [worker EXCEPT ![w] = Resting("batch", @.due)]
    /\ UNCHANGED <<now, msg, consumer, attached, delivery>>

\* Variant: the resubmission refunds one budget instead of starting a fresh one.
ResubmitRefunding(m) ==
    /\ delivery[m].status \in {"FAILED", "EXHAUSTED"}
    /\ delivery' = [delivery EXCEPT ![m] =
                      [@ EXCEPT !.status = "PENDING", !.nextDate = 0,
                                !.attempts = @ - MaxAttempts]]
    /\ UNCHANGED <<now, msg, consumer, attached, worker>>

\* Bridge.Resubmit by an operator: a fresh budget, no backoff; the token and the
\* claim date of the last claim stay in the row.
ResubmitDelivery(m) ==
    /\ delivery[m].status \in {"FAILED", "EXHAUSTED"}
    /\ delivery' = [delivery EXCEPT ![m] =
                      [@ EXCEPT !.status = "PENDING", !.attempts = 0,
                                !.nextDate = 0]]
    /\ UNCHANGED <<now, msg, consumer, attached, worker>>

-----------------------------------------------------------------------------
(* The environment.                                                        *)

\* Node n dies: its open publications roll back, a publication between its two
\* statements leaves its message behind, and its memory is gone.
Crash(n) ==
    /\ n \in attached \/ \E m \in Messages :
                            Publisher[m] = n /\ msg[m].state \in {"open", "auto", "stored"}
    /\ attached' = attached \ {n}
    /\ msg' = [m \in Messages |->
                 IF Publisher[m] # n THEN msg[m]
                 ELSE [msg[m] EXCEPT !.state =
                         CASE @ \in {"open", "auto"} -> "lost"
                           [] @ = "stored" -> "visible"
                           [] OTHER -> @]]
    /\ worker' = [w \in Workers |->
                    IF Home(w) = n THEN Resting("idle", {}) ELSE worker[w]]
    /\ UNCHANGED <<now, consumer, delivery>>

\* Real time passes; no publication stays open longer than MaxTx.
Tick ==
    /\ now < MaxTime
    /\ \A m \in Messages : msg[m].state \in {"open", "auto"} =>
                             now < msg[m].date - Skew[Publisher[m]] + MaxTx
    /\ now' = now + 1
    /\ UNCHANGED <<msg, consumer, attached, delivery, worker>>

Init ==
    /\ now = 0
    /\ msg = [m \in Messages |-> [state |-> "none", date |-> 0, local |-> FALSE]]
    /\ consumer = [registered |-> FALSE, ordering |-> "UNORDERED", boundary |-> 0,
                   frontier |-> 0]
    /\ attached = {}
    /\ delivery = [m \in Messages |-> [status |-> "ABSENT", attempts |-> 0, token |-> m,
                                      claimDate |-> 0, nextDate |-> 0]]
    /\ worker = [w \in Workers |-> Resting("idle", {})]

Publication(m) ==
    \/ \E how \in PublishModes : BeginPublish(m, how)
    \/ CommitPublish(m) \/ RollbackPublish(m) \/ DiscardPublish(m)
    \/ StoreMessage(m) \/ StoreDeliveries(m) \/ StoreDeliveriesFails(m)

Pass(n) ==
    \/ Attach(n) \/ StartPass(n) \/ MaterializeDeliveries(n)
    \/ AdvanceFrontier(n) \/ AbortPass(n) \/ FindDueDeliveries(n)

Delivering(w) ==
    \/ EndBatch(w) \/ Dispatch(w)
    \/ ClaimDelivery(w) \/ ClaimDeliveryInOrder(w)
    \/ SnapshotInOrder(w) \/ WriteInOrder(w)
    \/ CompleteDelivery(w) \/ FailDelivery(w) \/ Abandon(w)

Next ==
    \/ \E m \in Messages : Publication(m) \/ ResubmitDelivery(m)
    \/ \E n \in Hosts : Pass(n)
    \/ \E w \in Workers : Delivering(w)
    \/ \E n \in Faulty : Crash(n)
    \/ Tick

Spec == Init /\ [][Next]_vars

-----------------------------------------------------------------------------
(* Properties.                                                             *)

\* Below the frontier the queue is complete: every visible message the consumer
\* covers has its delivery row (AdvanceFrontier only covers ground the scan of
\* MaterializeDeliveries has seen), so no later scan needs to look there.
FrontierComplete ==
    \A m \in Messages :
        Visible(m) /\ consumer.registered
        /\ consumer.boundary <= msg[m].date /\ msg[m].date < consumer.frontier
        => delivery[m].status # "ABSENT"

\* The grace keeps the frontier behind every publication whose transaction is
\* still open, whichever node's clock dated it and whichever advanced the
\* frontier: a late commit can neither be missed nor slot in front of the head.
NoLateCommit ==
    \A m \in Messages :
        msg[m].state \in {"open", "auto"} /\ consumer.registered
        => consumer.frontier <= msg[m].date

\* The lease of worker w's claim has expired on no host's clock.
LeaseLive(w) == \A n \in Hosts : worker[w].clock >= Clock(n) - Lease

\* While its lease is live on every clock, the row of a running delivery belongs
\* to the dispatch that claimed it, with the attempts it counted: nobody else
\* runs the delivery and its settlement will not be fenced out.
LeaseProtects ==
    \A w \in Workers :
        worker[w].phase = "run" /\ LeaseLive(w)
        => SettlementCondition(w)
           /\ delivery[worker[w].msg].attempts = worker[w].attempts + 1

\* FailDelivery decides on exhaustion without reading the row; the token fence
\* and the attempts guard of the claim make that decision agree with the row: a
\* failed delivery has budget left and a dead letter has spent it.
ExhaustionExact ==
    \A m \in Messages :
        /\ delivery[m].status = "FAILED" => delivery[m].attempts < MaxAttempts
        /\ delivery[m].status = "EXHAUSTED" => delivery[m].attempts >= MaxAttempts

\* A listener only ever runs for a published event: not for a rolled back
\* transaction, an open one, or a publication undone by a savepoint whose
\* after-commit callback still runs.
RunsPublishedOnly ==
    \A w \in Workers :
        worker[w].phase = "run" => msg[worker[w].msg].state \in {"stored", "visible"}

\* A completed delivery stays completed, whatever zombies, late fast paths,
\* operators and materializations do to its row afterwards.
CompletedIsFinal ==
    [][\A m \in Messages : delivery[m].status = "COMPLETED"
                            => delivery'[m].status = "COMPLETED"]_delivery

\* FIFO order: when a delivery starts, every covered event before it in the
\* order (publication_date, message_id) is completed or parked as a dead letter,
\* and none is still waiting to commit.
FifoInOrder ==
    [][\A w \in Workers :
         worker[w].phase # "run" /\ worker'[w].phase = "run"
         => \A k \in Messages :
              /\ Before(k, worker[w].msg)
              /\ msg[k].date >= consumer.boundary
              /\ msg[k].state \notin {"none", "lost"}
              => delivery[k].status \in {"COMPLETED", "EXHAUSTED"}]_vars

\* FIFO execution is serial: within a live lease, two deliveries of one ordered
\* listener never run concurrently.
SerialWithinLease ==
    \A w, v \in Workers :
        /\ worker[w].phase = "run" /\ LeaseLive(w)
        /\ worker[v].phase = "run" /\ LeaseLive(v)
        => w = v

\* The attempt budget bounds how many attempts one event may consume.
AttemptBudget == \A m \in Messages : delivery[m].attempts <= MaxAttempts
=============================================================================
