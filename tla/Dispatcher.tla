----------------------------- MODULE Dispatcher -----------------------------
(***************************************************************************)
(* The dispatcher loops of package sqlbus, seen from their work: passes    *)
(* over the attached competing listeners, the bounded batches of a pass,   *)
(* failing statements, crashes, restarts and Stop.  Module SqlBus has the  *)
(* clocks; here time is kept as an age, so that what must eventually       *)
(* happen can be stated: `ripe' says that the lease of a claim or the      *)
(* retry delay of a failure has passed, `horizon' which messages are older *)
(* than the materialization grace.                                         *)
(*                                                                         *)
(* One step is one SQL statement, one listener call or one decision of the *)
(* loop.                                                                   *)
(***************************************************************************)
EXTENDS Integers, FiniteSets, Sequences

CONSTANTS
    Nodes,       \* processes that run a Dispatcher, all with the same attachments
    Steady,      \* the nodes somebody always starts again
    Attachments, \* the attached listeners, in the order of their attachment
    Deployments, \* the registered ordering of every listener, with the bounds of the
                 \* behaviours considered
    LastMessage, \* messages are numbered by (publication_date, message_id)
    Budget,      \* maximumAttempts
    BatchSize,   \* WithBatchSize
    MaxBatches   \* maximumBatchesPerPass

Listeners == {Attachments[i] : i \in DOMAIN Attachments}

Messages == 1..LastMessage

ASSUME LoopsAssumption ==
    /\ Steady \subseteq Nodes /\ Nodes # {}
    /\ LastMessage \in Nat /\ Budget \in Nat \ {0} /\ BatchSize \in Nat \ {0}
    /\ MaxBatches \in Nat \ {0}
    /\ Attachments \in Seq(Listeners)

\* published: the last message that may be published; faults: how many crashes,
\* stops, failing statements, overlong listeners and resubmissions there may be.
ASSUME DeploymentsAssumption ==
    Deployments \subseteq [ordering : [Listeners -> {"FIFO", "UNORDERED"}],
                           published : 0..LastMessage, faults : Nat]

VARIABLES
    deployment, \* never changes
    visible,    \* the committed messages
    horizon,    \* messages up to here are older than the materialization grace
    frontier,   \* the frontier of every consumer row: the last message below it
    row,        \* the delivery table
    loop,       \* the delivery loop of every node
    stopping,   \* the nodes whose stop function has been called
    accepted,   \* history: the deliveries whose listener has returned nil
    orphaned,   \* history: claims whose dispatch could not settle them, by node
    faults      \* disturbances the environment may still cause

vars == <<deployment, visible, horizon, frontier, row, loop, stopping, accepted, orphaned, faults>>

Deliveries == Messages \X Listeners

Incomplete == {"PENDING", "PROCESSING", "FAILED"}

Settled == {"COMPLETED", "EXHAUSTED"}

\* `holder' stands for the claim token: a node runs one dispatch at a time.
RowRecord == [status : Incomplete \cup Settled \cup {"ABSENT"}, attempts : Nat,
              holder : Nodes, ripe : BOOLEAN]

\* "off": not started, or gone; "wait": between two passes; otherwise the statement
\* or call that comes next.
Phases == {"off", "wait", "materialize", "advance", "find", "claim", "deliver", "settle"}

\* An entry of FindDueDeliveries.
Work == [msg : Messages, attempts : Nat]

LoopRecord == [phase : Phases, next : Nat, ceiling : 0..LastMessage, batches : Nat,
               due : SUBSET Work, full : BOOLEAN]

\* The type invariant.
TypeOK ==
    /\ deployment \in Deployments
    /\ visible \in SUBSET Messages
    /\ horizon \in 0..LastMessage
    /\ frontier \in [Listeners -> 0..LastMessage]
    /\ row \in [Deliveries -> RowRecord]
    /\ loop \in [Nodes -> LoopRecord]
    /\ stopping \in SUBSET Nodes
    /\ accepted \in SUBSET Deliveries
    /\ orphaned \in SUBSET (Nodes \X Deliveries)
    /\ faults \in Nat

-----------------------------------------------------------------------------
(* The conditions of the SQL statements.                                   *)

\* The listener of the attachment node n is working on.
Listener(n) == Attachments[loop[n].next]

\* Variant: a processing row is never claimable again.
DueUnlessClaimed(x) ==
    \/ row[x].status = "PENDING"
    \/ row[x].status = "FAILED" /\ row[x].ripe

\* dueCondition.
Due(x) ==
    \/ row[x].status = "PENDING"
    \/ row[x].status \in {"FAILED", "PROCESSING"} /\ row[x].ripe

\* earlierIncompleteExists.
EarlierIncompleteExists(x) ==
    \E k \in 1..(x[1] - 1) : row[<<k, x[2]>>].status \in Incomplete

\* concurrentProcessingExists.
ConcurrentProcessingExists(x) ==
    \E k \in Messages \ {x[1]} :
        row[<<k, x[2]>>].status = "PROCESSING" /\ ~row[<<k, x[2]>>].ripe

\* The deliveries FindDueDeliveries may return, before its LIMIT.
Claimable(l) ==
    {m \in Messages :
        /\ Due(<<m, l>>)
        /\ deployment.ordering[l] = "FIFO" => m <= frontier[l] /\ ~EarlierIncompleteExists(<<m, l>>)}

\* The LIMIT: the first ones in publication order.
FirstOf(found) == {m \in found : Cardinality({k \in found : k < m}) < BatchSize}

\* The delivery at the head of the batch.
WorkOf(n) == CHOOSE x \in loop[n].due : \A y \in loop[n].due : x.msg <= y.msg

Current(n) == <<WorkOf(n).msg, Listener(n)>>

\* The WHERE clause of ClaimDelivery, and of ClaimDeliveryInOrder.
ClaimCondition(n) ==
    LET x == Current(n) IN
    /\ row[x].attempts = WorkOf(n).attempts /\ Due(x)
    /\ deployment.ordering[x[2]] = "FIFO" => ~EarlierIncompleteExists(x) /\ ~ConcurrentProcessingExists(x)

\* Variant: a settlement is not fenced at all.
Unfenced(n, x) == TRUE

\* settlementCondition.
SettlementCondition(n, x) == row[x].status = "PROCESSING" /\ row[x].holder = n

RowWith(status, attempts, holder, ripe) ==
    [status |-> status, attempts |-> attempts, holder |-> holder, ripe |-> ripe]

\* A row of CreateDeliveries or MaterializeDeliveries; an existing one stays.
Inserted(x) == IF row[x].status = "ABSENT" THEN [row[x] EXCEPT !.status = "PENDING"] ELSE row[x]

Fault == faults > 0 /\ faults' = faults - 1

-----------------------------------------------------------------------------
(* The loop.                                                               *)

\* The loop goes on to another phase of the same attachment.
Phase(n, phase) == loop' = [loop EXCEPT ![n].phase = phase]

At(phase, next) ==
    [phase |-> phase, next |-> next, ceiling |-> 0, batches |-> 0, due |-> {}, full |-> FALSE]

\* processAttachment begins with the attachment number `next', if there is one: its
\* frontier ceiling is read before its scan.
Begins(next) ==
    IF next > Len(Attachments) THEN At("wait", 1)
    ELSE [At("materialize", next) EXCEPT !.ceiling = horizon]

\* Where pass goes on.
Turn(n, next) == IF n \in stopping THEN At("wait", 1) ELSE Begins(next)

\* processAttachment returns, with or without an error: pass takes the next one.
EndAttachment(n) == loop' = [loop EXCEPT ![n] = Turn(n, @.next + 1)]

Rows == UNCHANGED <<deployment, visible, horizon, frontier, accepted>>

\* Start: the first pass begins at once.
Start(n) ==
    /\ loop[n].phase = "off"
    /\ stopping' = stopping \ {n}
    /\ loop' = [loop EXCEPT ![n] = Begins(1)]
    /\ UNCHANGED <<row, orphaned, faults>> /\ Rows

\* Variant: a closed context only ends the pass.
WaitPolling(n) ==
    /\ loop[n].phase = "wait"
    /\ loop' = [loop EXCEPT ![n] = Turn(n, 1)]
    /\ UNCHANGED <<row, stopping, orphaned, faults>> /\ Rows

\* The select between two passes: the timer, a wake signal or the end.
Wait(n) ==
    /\ loop[n].phase = "wait"
    /\ loop' = [loop EXCEPT ![n] = IF n \in stopping THEN At("off", 1) ELSE Turn(n, 1)]
    /\ UNCHANGED <<row, stopping, orphaned, faults>> /\ Rows

MaterializeDeliveries(n) ==
    /\ loop[n].phase = "materialize" /\ n \notin stopping
    /\ row' = [x \in Deliveries |->
                 IF x[2] = Listener(n) /\ x[1] \in visible /\ x[1] > frontier[x[2]]
                 THEN Inserted(x) ELSE row[x]]
    /\ Phase(n, "advance")
    /\ UNCHANGED <<stopping, orphaned, faults>> /\ Rows

AdvanceFrontier(n) ==
    /\ loop[n].phase = "advance" /\ n \notin stopping
    /\ frontier' = [frontier EXCEPT ![Listener(n)] = IF @ < loop[n].ceiling
                                                     THEN loop[n].ceiling ELSE @]
    /\ loop' = [loop EXCEPT ![n] = At("find", loop[n].next)]
    /\ UNCHANGED <<deployment, visible, horizon, row, stopping, accepted, orphaned, faults>>

\* The batch of the deliveries found, each with its version.
Batch(n, found) ==
    [loop[n] EXCEPT !.phase = "claim", !.batches = @ + 1, !.full = Cardinality(found) = BatchSize,
       !.due = {[msg |-> m, attempts |-> row[<<m, Listener(n)>>].attempts] : m \in found}]

\* The head of the batch loop: at most so many batches, none without due rows.
FindDueDeliveries(n) ==
    /\ loop[n].phase = "find" /\ n \notin stopping
    /\ LET found == FirstOf(Claimable(Listener(n))) IN
       IF loop[n].batches = MaxBatches \/ found = {}
       THEN EndAttachment(n)
       ELSE loop' = [loop EXCEPT ![n] = Batch(n, found)]
    /\ UNCHANGED <<row, stopping, orphaned, faults>> /\ Rows

\* A statement of a pass fails, or is called in vain because its context is over:
\* the attachment is given up, the pass goes on.
StatementFails(n) ==
    /\ loop[n].phase \in {"materialize", "advance", "find"}
    /\ IF n \in stopping THEN UNCHANGED faults ELSE Fault
    /\ EndAttachment(n)
    /\ UNCHANGED <<row, stopping, orphaned>> /\ Rows

-----------------------------------------------------------------------------
(* One delivery.                                                           *)

\* dispatchDelivery returns: the next delivery of the batch, unless the dispatcher is
\* stopping; a short batch of an unordered listener is the last one.
EndDelivery(n) ==
    LET rest == loop[n].due \ {WorkOf(n)}
        again == deployment.ordering[Listener(n)] = "FIFO" \/ loop[n].full IN
    loop' = [loop EXCEPT ![n] =
               IF IF rest = {} THEN ~again ELSE n \in stopping THEN Turn(n, @.next + 1)
               ELSE [@ EXCEPT !.phase = IF rest = {} THEN "find" ELSE "claim", !.due = rest]]

Claimed(n) == row' = [row EXCEPT ![Current(n)] =
                        RowWith("PROCESSING", WorkOf(n).attempts + 1, n, FALSE)]

\* ClaimDelivery or ClaimDeliveryInOrder.
ClaimDelivery(n) ==
    /\ loop[n].phase = "claim" /\ n \notin stopping
    /\ IF ClaimCondition(n)
       THEN Claimed(n) /\ Phase(n, "deliver") /\ orphaned' = orphaned \ {<<n, Current(n)>>}
       ELSE EndDelivery(n) /\ UNCHANGED <<row, orphaned>>
    /\ UNCHANGED <<stopping, faults>> /\ Rows

\* The claim reports an error.  It may have taken effect all the same: then the row
\* is processing and nobody works on it.
ClaimFails(n) ==
    /\ loop[n].phase = "claim"
    /\ IF n \in stopping THEN UNCHANGED faults ELSE Fault
    /\ EndDelivery(n)
    /\ \/ UNCHANGED <<row, orphaned>>
       \/ ClaimCondition(n) /\ Claimed(n) /\ orphaned' = orphaned \cup {<<n, Current(n)>>}
    /\ UNCHANGED stopping /\ Rows

\* The listener returns nil.
Succeed(n) ==
    /\ loop[n].phase = "deliver"
    /\ accepted' = accepted \cup {Current(n)}
    /\ Phase(n, "settle")
    /\ UNCHANGED <<deployment, visible, horizon, frontier, row, stopping, orphaned, faults>>

\* Variant: the settlement uses the context of the caller.
CompleteInContext(n) ==
    /\ loop[n].phase = "settle"
    /\ row' = IF SettlementCondition(n, Current(n)) /\ n \notin stopping
              THEN [row EXCEPT ![Current(n)].status = "COMPLETED"] ELSE row
    /\ EndDelivery(n)
    /\ UNCHANGED <<stopping, orphaned, faults>> /\ Rows

\* CompleteDelivery, on a context that survives the stop.
CompleteDelivery(n) ==
    /\ loop[n].phase = "settle"
    /\ row' = IF SettlementCondition(n, Current(n))
              THEN [row EXCEPT ![Current(n)].status = "COMPLETED"] ELSE row
    /\ EndDelivery(n)
    /\ UNCHANGED <<stopping, orphaned, faults>> /\ Rows

\* The listener fails or panics; FailDelivery with or without a retry delay.
FailDelivery(n) ==
    /\ loop[n].phase = "deliver" /\ n \notin stopping
    /\ LET x == Current(n)
           spent == WorkOf(n).attempts + 1
           status == IF spent >= Budget THEN "EXHAUSTED" ELSE "FAILED" IN
       \E ripe \in BOOLEAN :
          row' = IF SettlementCondition(n, x)
                 THEN [row EXCEPT ![x] = [@ EXCEPT !.status = status,
                                                   !.ripe = ripe /\ status = "FAILED"]]
                 ELSE row
    /\ EndDelivery(n)
    /\ UNCHANGED <<stopping, orphaned, faults>> /\ Rows

\* The listener fails during the shutdown: nothing is charged and the row is left
\* to the end of its lease.  Or a settlement reports an error, without or in spite
\* of having taken effect.
Abandon(n) ==
    /\ \/ loop[n].phase = "deliver" /\ n \in stopping /\ UNCHANGED <<row, faults>>
       \/ loop[n].phase \in {"deliver", "settle"} /\ Fault /\ UNCHANGED row
       \/ /\ loop[n].phase = "settle" /\ Fault /\ SettlementCondition(n, Current(n))
          /\ row' = [row EXCEPT ![Current(n)].status = "COMPLETED"]
    /\ orphaned' = orphaned \cup {<<n, Current(n)>>}
    /\ EndDelivery(n)
    /\ UNCHANGED stopping /\ Rows

-----------------------------------------------------------------------------
(* The environment.                                                        *)

\* A transaction that published message m commits.  Its node may have created the
\* delivery rows of its own attachments.
Publish(m) ==
    /\ m \notin visible /\ m > horizon /\ m <= deployment.published
    /\ visible' = visible \cup {m}
    /\ \E local \in BOOLEAN :
         row' = [x \in Deliveries |-> IF local /\ x[1] = m THEN Inserted(x) ELSE row[x]]
    /\ UNCHANGED <<deployment, horizon, frontier, loop, stopping, accepted, orphaned, faults>>

\* Time passes: a message has become older than the grace.  No transaction that
\* published an older one is still open.
Age ==
    /\ horizon < deployment.published
    /\ horizon' = horizon + 1
    /\ UNCHANGED <<deployment, visible, frontier, row, loop, stopping, accepted, orphaned, faults>>

InFlight(x) ==
    \E n \in Nodes : /\ loop[n].phase \in {"deliver", "settle"} /\ Current(n) = x
                     /\ SettlementCondition(n, x)

\* Time passes: a retry delay is over, or a lease.  A listener outlasts its lease
\* only as a disturbance.
Ripen(x) ==
    /\ row[x].status \in {"FAILED", "PROCESSING"} /\ ~row[x].ripe
    /\ IF InFlight(x) THEN Fault ELSE UNCHANGED faults
    /\ row' = [row EXCEPT ![x].ripe = TRUE]
    /\ UNCHANGED <<loop, stopping, orphaned>> /\ Rows

\* An operator resubmits a failed delivery or a dead letter.
ResubmitDelivery(x) ==
    /\ row[x].status \in {"FAILED", "EXHAUSTED"} /\ Fault
    /\ row' = [row EXCEPT ![x] = RowWith("PENDING", 0, row[x].holder, FALSE)]
    /\ UNCHANGED <<loop, stopping, orphaned>> /\ Rows

\* The stop function is called.
Stop(n) ==
    /\ loop[n].phase # "off" /\ n \notin stopping /\ Fault
    /\ stopping' = stopping \cup {n}
    /\ UNCHANGED <<row, loop, orphaned>> /\ Rows

\* The process dies.
Crash(n) ==
    /\ loop[n].phase # "off" /\ Fault
    /\ loop' = [loop EXCEPT ![n] = At("off", 1)]
    /\ orphaned' = IF loop[n].phase \in {"deliver", "settle"}
                   THEN orphaned \cup {<<n, Current(n)>>} ELSE orphaned
    /\ stopping' = stopping \ {n}
    /\ UNCHANGED row /\ Rows

Init ==
    /\ deployment \in Deployments
    /\ visible = {} /\ horizon = 0 /\ frontier = [l \in Listeners |-> 0]
    /\ row = [x \in Deliveries |-> RowWith("ABSENT", 0, CHOOSE n \in Nodes : TRUE, FALSE)]
    /\ loop = [n \in Nodes |-> At("off", 1)]
    /\ stopping = {} /\ accepted = {} /\ orphaned = {} /\ faults = deployment.faults

\* A started loop takes a step of its own.
Running(n) ==
    \/ Wait(n) \/ MaterializeDeliveries(n) \/ AdvanceFrontier(n)
    \/ FindDueDeliveries(n) \/ StatementFails(n)
    \/ ClaimDelivery(n) \/ ClaimFails(n) \/ Succeed(n) \/ CompleteDelivery(n)
    \/ FailDelivery(n) \/ Abandon(n)

Next ==
    \/ \E n \in Nodes : Start(n) \/ Running(n) \/ Stop(n) \/ Crash(n)
    \/ \E m \in Messages : Publish(m)
    \/ \E x \in Deliveries : Ripen(x) \/ ResubmitDelivery(x)
    \/ Age

Spec == Init /\ [][Next]_vars

\* Goroutines are scheduled and listeners return, steady nodes are started again,
\* and time passes.  Nobody has to publish, stop, crash or resubmit.
FairSpec ==
    /\ Spec
    /\ \A n \in Nodes : WF_vars(Running(n))
    /\ \A n \in Steady : WF_vars(Start(n))
    /\ WF_vars(Age)
    /\ \A x \in Deliveries : WF_vars(Ripen(x))

-----------------------------------------------------------------------------
(* Properties.                                                             *)

Promise == INSTANCE AtLeastOnce WITH
    Items <- Deliveries,
    state <- [x \in Deliveries |-> IF x[1] \notin visible THEN "absent"
                                   ELSE IF row[x].status = "COMPLETED" THEN "done" ELSE "pending"],
    accepted <- accepted

\* The bus keeps the promise of the outbox: listeners run for committed messages
\* only, a delivery is completed after a success of its listener and never opened
\* again, whatever zombies, lost answers, operators and restarts do to its row.
ImplementsAtLeastOnce == Promise!Spec

\* Every committed message is completed or parked for every attached listener, as
\* long as one node keeps being started: no crash, stop, lost answer, failing head of
\* a queue, dead letter or full batch strands a delivery.
EventuallySettled ==
    \A x \in Deliveries : x[1] \in visible /\ row[x].status \notin Settled
                          ~> row[x].status \in Settled

\* The stop function returns, wherever it finds the loop.
StopTerminates == \A n \in Nodes : n \in stopping ~> loop[n].phase = "off"

\* A stopped dispatcher leaves no claim behind, except those whose listener failed
\* during the shutdown or whose statement failed: what was delivered is settled.
StoppedLeavesNoClaim ==
    \A n \in Nodes, x \in Deliveries :
        loop[n].phase = "off" /\ SettlementCondition(n, x) => <<n, x>> \in orphaned
=============================================================================
