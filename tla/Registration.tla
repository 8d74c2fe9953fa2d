---------------------------- MODULE Registration ----------------------------
(***************************************************************************)
(* The registrations of one sqlbus listener and the upkeep of the tables:  *)
(* Attach and Detach, the heartbeat loop, and the maintenance duties that  *)
(* expire broadcast consumers and delete messages and delivery rows.       *)
(*                                                                         *)
(* One step is one SQL statement with the control flow around it.  The     *)
(* claim protocol of module SqlBus is collapsed to its outcome: a pending  *)
(* delivery is completed or exhausted in one step.                         *)
(***************************************************************************)
EXTENDS Integers

CONSTANTS
    Hosts,       \* nodes that attach the listener and run a Dispatcher
    Maintainers, \* nodes whose Dispatcher runs the maintenance duties
    Messages,    \* messages of the listener's event type
    Clusters,    \* the deployments considered, each with the bounds of its behaviours
    Grace,       \* WithMaterializationGrace
    MaxTx,       \* longest time from reading the publication date to the commit
    MaxStall,    \* longest time from reading a clock to the statement using it
    Expiry,      \* WithConsumerExpiry
    Retention,   \* WithSettledRetention
    MaxAge,      \* WithMaximumMessageAge
    LiveDetach   \* Detach is called while nodes host the listener

Modes == {"COMPETING", "BROADCAST"}

Registrations == [mode : Modes, ordering : {"FIFO", "UNORDERED"}]

\* The shared instance of a competing listener is the empty string in the code.
Instances == Hosts \cup {"shared"}

ASSUME HostsAssumption == Hosts # {} /\ "shared" \notin Hosts \cup Maintainers

\* A deployment: the nodes that attach the listener, what an Attach may ask for, the
\* nodes that run maintenance, the messages published; and the bounds on calls of
\* Detach, on failing statements and crashes, and on time.
ASSUME ClustersAssumption ==
    Clusters \subseteq [hosts : SUBSET Hosts, wants : SUBSET Registrations,
                        maintainers : SUBSET Maintainers, messages : SUBSET Messages,
                        maxDetach : Nat, maxFaults : Nat, maxTime : Nat]

ASSUME UpkeepAssumption ==
    /\ Grace \in Nat /\ MaxTx \in Nat /\ MaxStall \in Nat /\ Expiry \in Nat
    /\ Retention \in Nat /\ MaxAge \in Nat /\ LiveDetach \in BOOLEAN

\* What the options ask of their caller: the grace covers a publishing
\* transaction, and retention dwarfs the grace and the stalls of a live node.
ASSUME RetentionAssumption == MaxTx <= Grace /\ Grace + MaxStall <= Retention

VARIABLES
    cluster,  \* the deployment; never changes
    now,      \* time
    listener, \* the event_message_listener rows: at most one
    consumer, \* the event_message_consumer rows, one potential row per instance
    message,  \* the event_message rows
    delivery, \* the event_message_delivery rows
    host,     \* the Attach call and the attachment of every host
    beat,     \* the heartbeat loop of every host
    loop,     \* the dispatcher loop of every node
    detach,   \* the Detach call
    faults,   \* disturbances the environment may still cause
    history   \* completed deliveries; instances whose registration was removed

vars == <<cluster, now, listener, consumer, message, delivery, host, beat, loop, detach, faults, history>>

Nodes == Hosts \cup Maintainers

ConsumerRecord == [present : BOOLEAN, mode : Modes, boundary : Int, frontier : Int,
                   heartbeat : Int]

\* "gone": deleted as settled; "capped": removed by the hard age cap.
MessageRecord == [state : {"none", "visible", "gone", "capped"}, date : Int]

DeliveryStatuses == {"ABSENT", "PENDING", "COMPLETED", "EXHAUSTED"}

\* A goroutine: where it is, the attachment it works for and the clock it read.
Thread(phases) == [phase : phases, want : Registrations, clock : Int]

HostPhases == {"off", "mode", "read", "register", "on"}

BeatPhases == {"idle", "update", "register"}

LoopPhases == {"idle", "materialize", "advance", "expire", "settled", "aged",
               "messageless", "consumerless"}

\* The type invariant; a registration row of the shared instance is a competing
\* one, a row of a node's instance a broadcast one.
TypeOK ==
    /\ cluster \in Clusters
    /\ now \in Nat
    /\ listener \in SUBSET Registrations
    /\ consumer \in [Instances -> ConsumerRecord]
    /\ \A i \in Instances : consumer[i].present =>
         consumer[i].mode = IF i = "shared" THEN "COMPETING" ELSE "BROADCAST"
    /\ message \in [Messages -> MessageRecord]
    /\ delivery \in [Messages \X Instances -> DeliveryStatuses]
    /\ host \in [Hosts -> Thread(HostPhases)]
    /\ beat \in [Hosts -> Thread(BeatPhases)]
    /\ loop \in [Nodes -> Thread(LoopPhases)]
    /\ detach \in [phase : {"idle", "mode", "local"}, by : Hosts, calls : Nat]
    /\ faults \in Nat
    /\ history \in [completed : SUBSET (Messages \X Instances), removed : SUBSET Instances]

-----------------------------------------------------------------------------
(* Helpers.                                                                *)

\* instanceFor.
InstanceFor(n, want) == IF want.mode = "BROADCAST" THEN n ELSE "shared"

\* A goroutine that is doing nothing, or goes on without a clock.
At(phase, want) == [phase |-> phase, want |-> want, clock |-> 0]

\* A goroutine that has just read the clock.
AtNow(phase, want) == [phase |-> phase, want |-> want, clock |-> now]

SomeWant == CHOOSE want \in Registrations : TRUE

Idle == At("idle", SomeWant)

\* Variant: registering again restarts the scan at the current ceiling.
RegisteredResetting(n, want, clock) ==
    [consumer EXCEPT ![InstanceFor(n, want)] =
       [present |-> TRUE, mode |-> want.mode,
        boundary |-> IF @.present THEN @.boundary ELSE clock - Grace,
        frontier |-> clock - Grace, heartbeat |-> clock]]

\* RegisterConsumer: the boundary and the frontier of an existing row stay.
Registered(n, want, clock) ==
    [consumer EXCEPT ![InstanceFor(n, want)] =
       IF @.present THEN [@ EXCEPT !.heartbeat = clock]
       ELSE [present |-> TRUE, mode |-> want.mode, boundary |-> clock - Grace,
             frontier |-> clock - Grace, heartbeat |-> clock]]

\* The registration rows of the given instances are deleted.
Removed(gone) ==
    /\ consumer' = [i \in Instances |->
                      IF i \in gone THEN [consumer[i] EXCEPT !.present = FALSE, !.boundary = 0,
                                                             !.frontier = 0, !.heartbeat = 0]
                                    ELSE consumer[i]]
    /\ history' = [history EXCEPT !.removed = @ \cup {i \in gone : consumer[i].present}]

\* A fault may strike.
Fault == faults > 0 /\ faults' = faults - 1

Unheard == UNCHANGED <<cluster, now, detach, faults>>

-----------------------------------------------------------------------------
(* Attach.                                                                 *)

\* Attach is called on a node that does not host the listener.  Detach is meant
\* for a listener nobody hosts any more.
Attach(n, want) ==
    /\ n \in cluster.hosts /\ want \in cluster.wants
    /\ host[n].phase = "off"
    /\ detach.phase = "idle" \/ LiveDetach
    /\ host' = [host EXCEPT ![n] = At("mode", want)]
    /\ UNCHANGED <<cluster, now, listener, consumer, message, delivery, beat, loop, detach, faults, history>>

\* Variant: the last registration wins.
InsertModeOver(n) ==
    /\ host[n].phase = "mode"
    /\ listener' = {host[n].want}
    /\ host' = [host EXCEPT ![n] = At("read", @.want)]
    /\ UNCHANGED <<cluster, now, consumer, message, delivery, beat, loop, detach, faults, history>>

\* RegisterListenerMode inserts the row unless there is one ...
InsertMode(n) ==
    /\ host[n].phase = "mode"
    /\ listener' = IF listener = {} THEN {host[n].want} ELSE listener
    /\ host' = [host EXCEPT ![n] = At("read", @.want)]
    /\ UNCHANGED <<cluster, now, consumer, message, delivery, beat, loop, detach, faults, history>>

\* ... and reads the winner.  A conflicting registration, or a row that has
\* disappeared again, fails the Attach; otherwise it reads the clock.
ReadMode(n) ==
    /\ host[n].phase = "read"
    /\ host' = [host EXCEPT ![n] = IF host[n].want \in listener THEN AtNow("register", @.want)
                                                                 ELSE At("off", SomeWant)]
    /\ UNCHANGED <<cluster, now, listener, consumer, message, delivery, beat, loop, detach, faults, history>>

\* RegisterConsumer, and the attachment is recorded in memory.
RegisterConsumer(n) ==
    /\ host[n].phase = "register"
    /\ consumer' = Registered(n, host[n].want, host[n].clock)
    /\ host' = [host EXCEPT ![n] = At("on", @.want)]
    /\ UNCHANGED <<cluster, now, listener, message, delivery, beat, loop, detach, faults, history>>

\* A statement of Attach fails; the rows written so far stay.
AttachFails(n) ==
    /\ host[n].phase \in {"mode", "read", "register"}
    /\ Fault
    /\ host' = [host EXCEPT ![n] = At("off", SomeWant)]
    /\ UNCHANGED <<cluster, now, listener, consumer, message, delivery, beat, loop, detach, history>>

-----------------------------------------------------------------------------
(* Detach.                                                                 *)

\* RemoveListener deletes the consumer rows ...
Detach(n) ==
    /\ detach.phase = "idle" /\ detach.calls < cluster.maxDetach
    /\ LiveDetach \/ \A h \in Hosts : host[h].phase = "off"
    /\ detach' = [phase |-> "mode", by |-> n, calls |-> detach.calls + 1]
    /\ Removed(Instances)
    /\ UNCHANGED <<cluster, now, listener, message, delivery, host, beat, loop, faults>>

\* ... and then the mode row.
RemoveMode ==
    /\ detach.phase = "mode"
    /\ detach' = [detach EXCEPT !.phase = "local"]
    /\ listener' = {}
    /\ UNCHANGED <<cluster, now, consumer, message, delivery, host, beat, loop, faults, history>>

\* The calling node forgets its attachment.  Its loops go on with the snapshot
\* they took.
Forget ==
    /\ detach.phase = "local"
    /\ detach' = [detach EXCEPT !.phase = "idle"]
    /\ host' = IF host[detach.by].phase = "on"
               THEN [host EXCEPT ![detach.by] = At("off", SomeWant)] ELSE host
    /\ UNCHANGED <<cluster, now, listener, consumer, message, delivery, beat, loop, faults, history>>

\* The second statement fails: the mode row and the attachment stay.
DetachFails ==
    /\ detach.phase = "mode"
    /\ Fault
    /\ detach' = [detach EXCEPT !.phase = "idle"]
    /\ UNCHANGED <<cluster, now, listener, consumer, message, delivery, host, beat, loop, history>>

-----------------------------------------------------------------------------
(* The heartbeat loop.                                                     *)

\* heartbeat reads the clock and takes a snapshot of the attachments.
StartBeat(n) ==
    /\ host[n].phase = "on" /\ beat[n].phase = "idle"
    /\ beat' = [beat EXCEPT ![n] = AtNow("update", host[n].want)]
    /\ Unheard /\ UNCHANGED <<listener, consumer, message, delivery, host, loop, history>>

\* Variant: a heartbeat that finds no row is taken for a success.
HeartbeatIgnoringReaped(n) ==
    /\ beat[n].phase = "update"
    /\ LET i == InstanceFor(n, beat[n].want) IN
       consumer' = IF consumer[i].present
                   THEN [consumer EXCEPT ![i].heartbeat = beat[n].clock] ELSE consumer
    /\ beat' = [beat EXCEPT ![n] = Idle]
    /\ Unheard /\ UNCHANGED <<listener, message, delivery, host, loop, history>>

\* Heartbeat refreshes the row, or reports that it is missing.
Heartbeat(n) ==
    /\ beat[n].phase = "update"
    /\ LET i == InstanceFor(n, beat[n].want) IN
       IF consumer[i].present
       THEN /\ consumer' = [consumer EXCEPT ![i].heartbeat = beat[n].clock]
            /\ beat' = [beat EXCEPT ![n] = Idle]
       ELSE /\ beat' = [beat EXCEPT ![n].phase = "register"]
            /\ UNCHANGED consumer
    /\ Unheard /\ UNCHANGED <<listener, message, delivery, host, loop, history>>

\* A reaped consumer registers again, at the boundary of the clock of this
\* heartbeat; the mode row is not looked at.
Reregister(n) ==
    /\ beat[n].phase = "register"
    /\ consumer' = Registered(n, beat[n].want, beat[n].clock)
    /\ beat' = [beat EXCEPT ![n] = Idle]
    /\ Unheard /\ UNCHANGED <<listener, message, delivery, host, loop, history>>

\* A statement of the heartbeat fails: the next tick tries again.
BeatFails(n) ==
    /\ beat[n].phase # "idle"
    /\ Fault
    /\ beat' = [beat EXCEPT ![n] = Idle]
    /\ UNCHANGED <<cluster, now, listener, consumer, message, delivery, host, loop, detach, history>>

-----------------------------------------------------------------------------
(* Publication and the dispatcher's passes.                                *)

\* A publication by node n commits, dated up to MaxTx ago.  It brings the row of
\* its own attachment, if the node had one when it was made.
Publish(m, n) ==
    /\ m \in cluster.messages /\ n \in cluster.hosts
    /\ message[m].state = "none"
    /\ \E date \in (now - MaxTx)..now :
         message' = [message EXCEPT ![m] = [state |-> "visible", date |-> date]]
    /\ \E local \in {{}, {host[n].want}} :
         /\ local # {} => host[n].phase = "on"
         /\ delivery' = [x \in Messages \X Instances |->
                           IF \E want \in local : x = <<m, InstanceFor(n, want)>>
                           THEN "PENDING" ELSE delivery[x]]
    /\ Unheard /\ UNCHANGED <<listener, consumer, host, beat, loop, history>>

\* processAttachment reads the frontier ceiling.
StartPass(n) ==
    /\ host[n].phase = "on" /\ loop[n].phase = "idle"
    /\ loop' = [loop EXCEPT ![n] = AtNow("materialize", host[n].want)]
    /\ Unheard /\ UNCHANGED <<listener, consumer, message, delivery, host, beat, history>>

\* MaterializeDeliveries: a missing consumer row matches nothing.
MaterializeDeliveries(n) ==
    /\ loop[n].phase = "materialize"
    /\ LET i == InstanceFor(n, loop[n].want) IN
       delivery' = [x \in Messages \X Instances |->
                      IF /\ x[2] = i /\ consumer[i].present /\ delivery[x] = "ABSENT"
                         /\ message[x[1]].state = "visible"
                         /\ message[x[1]].date >= consumer[i].frontier
                      THEN "PENDING" ELSE delivery[x]]
    /\ loop' = [loop EXCEPT ![n].phase = "advance"]
    /\ Unheard /\ UNCHANGED <<listener, consumer, message, host, beat, history>>

\* AdvanceFrontier.
AdvanceFrontier(n) ==
    /\ loop[n].phase = "advance"
    /\ LET i == InstanceFor(n, loop[n].want) IN
       consumer' = IF consumer[i].present /\ consumer[i].frontier < loop[n].clock - Grace
                   THEN [consumer EXCEPT ![i].frontier = loop[n].clock - Grace] ELSE consumer
    /\ loop' = [loop EXCEPT ![n] = Idle]
    /\ Unheard /\ UNCHANGED <<listener, message, delivery, host, beat, history>>

\* The claim protocol settles a pending delivery of a message that still exists,
\* an operator may resubmit a dead letter.
Settle(m, n) ==
    /\ host[n].phase = "on" /\ message[m].state = "visible"
    /\ LET x == <<m, InstanceFor(n, host[n].want)>> IN
       \/ /\ delivery[x] = "PENDING"
          /\ delivery' = [delivery EXCEPT ![x] = "COMPLETED"]
          /\ history' = [history EXCEPT !.completed = @ \cup {x}]
       \/ /\ delivery[x] = "PENDING"
          /\ delivery' = [delivery EXCEPT ![x] = "EXHAUSTED"]
          /\ UNCHANGED history
       \/ /\ delivery[x] = "EXHAUSTED"
          /\ delivery' = [delivery EXCEPT ![x] = "PENDING"]
          /\ UNCHANGED history
    /\ Unheard /\ UNCHANGED <<listener, consumer, message, host, beat, loop>>

-----------------------------------------------------------------------------
(* Maintenance.                                                            *)

\* maintain reads the clock.
StartMaintenance(n) ==
    /\ n \in cluster.maintainers
    /\ loop[n].phase = "idle"
    /\ loop' = [loop EXCEPT ![n] = AtNow("expire", SomeWant)]
    /\ Unheard /\ UNCHANGED <<listener, consumer, message, delivery, host, beat, history>>

Continue(n, phase) ==
    /\ loop' = [loop EXCEPT ![n] = IF phase = "idle" THEN Idle ELSE [@ EXCEPT !.phase = phase]]
    /\ Unheard /\ UNCHANGED <<listener, host, beat>>

ExpireBroadcastConsumers(n) ==
    /\ loop[n].phase = "expire"
    /\ Removed({i \in Hosts : consumer[i].heartbeat < loop[n].clock - Expiry})
    /\ Continue(n, "settled") /\ UNCHANGED <<message, delivery>>

\* Variant: a dead letter does not pin its message.
PinnedUnlessTerminal(m) ==
    \E i \in Instances : /\ consumer[i].present
                         /\ consumer[i].boundary <= message[m].date
                         /\ delivery[<<m, i>>] \notin {"COMPLETED", "EXHAUSTED"}

\* A registered consumer covers the message and has not completed it.
Pinned(m) ==
    \E i \in Instances : /\ consumer[i].present
                         /\ consumer[i].boundary <= message[m].date
                         /\ delivery[<<m, i>>] # "COMPLETED"

\* The rows of the given messages are deleted.
Deleted(gone, state) ==
    message' = [m \in Messages |-> IF m \in gone /\ message[m].state = "visible"
                                   THEN [message[m] EXCEPT !.state = state] ELSE message[m]]

DeleteSettledMessages(n) ==
    /\ loop[n].phase = "settled"
    /\ Deleted({m \in Messages : message[m].date < loop[n].clock - Retention /\ ~Pinned(m)},
               "gone")
    /\ Continue(n, "aged") /\ UNCHANGED <<consumer, delivery, history>>

DeleteMessagesOlderThan(n) ==
    /\ loop[n].phase = "aged"
    /\ Deleted({m \in Messages : message[m].date < loop[n].clock - MaxAge}, "capped")
    /\ Continue(n, "messageless") /\ UNCHANGED <<consumer, delivery, history>>

\* Variant: the rows of completed deliveries are swept with the orphans.
WithoutMessageOrSettled(x) == message[x[1]].state # "visible" \/ delivery[x] = "COMPLETED"

WithoutMessage(x) == message[x[1]].state # "visible"

WithoutConsumer(x) == ~consumer[x[2]].present

Swept(orphans) ==
    delivery' = [x \in Messages \X Instances |-> IF x \in orphans THEN "ABSENT" ELSE delivery[x]]

\* DeleteOrphanDeliveries: first the deliveries whose message is gone ...
SweepMessageless(n) ==
    /\ loop[n].phase = "messageless"
    /\ Swept({x \in Messages \X Instances : WithoutMessage(x)})
    /\ Continue(n, "consumerless") /\ UNCHANGED <<consumer, message, history>>

\* ... then the ones whose registration is gone.
SweepConsumerless(n) ==
    /\ loop[n].phase = "consumerless"
    /\ Swept({x \in Messages \X Instances : WithoutConsumer(x)})
    /\ Continue(n, "idle") /\ UNCHANGED <<consumer, message, history>>

\* A statement of the loop fails.  A pass ends; the duties of maintain are tried
\* one after the other all the same.
LoopFails(n) ==
    /\ Fault
    /\ \/ /\ loop[n].phase \in {"materialize", "advance", "messageless", "consumerless"}
          /\ loop' = [loop EXCEPT ![n] = Idle]
       \/ loop[n].phase = "expire" /\ loop' = [loop EXCEPT ![n].phase = "settled"]
       \/ loop[n].phase = "settled" /\ loop' = [loop EXCEPT ![n].phase = "aged"]
       \/ loop[n].phase = "aged" /\ loop' = [loop EXCEPT ![n].phase = "messageless"]
    /\ UNCHANGED <<cluster, now, listener, consumer, message, delivery, host, beat, detach, history>>

-----------------------------------------------------------------------------
(* The environment.                                                        *)

\* A host stops or dies; its memory is gone.
Crash(n) ==
    /\ host[n].phase # "off" \/ beat[n].phase # "idle" \/ loop[n].phase # "idle"
    /\ Fault
    /\ host' = [host EXCEPT ![n] = At("off", SomeWant)]
    /\ beat' = [beat EXCEPT ![n] = Idle]
    /\ loop' = [loop EXCEPT ![n] = Idle]
    /\ UNCHANGED <<cluster, now, listener, consumer, message, delivery, detach, history>>

\* Time passes; nobody stalls longer than MaxStall with a clock in hand.
Tick ==
    /\ now < cluster.maxTime
    /\ \A n \in Hosts : /\ host[n].phase = "register" => now < host[n].clock + MaxStall
                        /\ beat[n].phase # "idle" => now < beat[n].clock + MaxStall
    /\ \A n \in Nodes : loop[n].phase # "idle" => now < loop[n].clock + MaxStall
    /\ now' = now + 1
    /\ UNCHANGED <<cluster, listener, consumer, message, delivery, host, beat, loop, detach, faults,
                   history>>

Init ==
    /\ cluster \in Clusters
    /\ now = 0 /\ listener = {} /\ faults = cluster.maxFaults
    /\ consumer = [i \in Instances |->
                     [present |-> FALSE, mode |-> IF i = "shared" THEN "COMPETING" ELSE "BROADCAST",
                      boundary |-> 0, frontier |-> 0, heartbeat |-> 0]]
    /\ message = [m \in Messages |-> [state |-> "none", date |-> 0]]
    /\ delivery = [x \in Messages \X Instances |-> "ABSENT"]
    /\ host = [n \in Hosts |-> At("off", SomeWant)]
    /\ beat = [n \in Hosts |-> Idle] /\ loop = [n \in Nodes |-> Idle]
    /\ detach = [phase |-> "idle", by |-> CHOOSE n \in Hosts : TRUE, calls |-> 0]
    /\ history = [completed |-> {}, removed |-> {}]

Attaching(n) ==
    \/ \E want \in Registrations : Attach(n, want)
    \/ InsertMode(n) \/ ReadMode(n) \/ RegisterConsumer(n) \/ AttachFails(n)

Detaching == (\E n \in Hosts : Detach(n)) \/ RemoveMode \/ Forget \/ DetachFails

Beating(n) == StartBeat(n) \/ Heartbeat(n) \/ Reregister(n) \/ BeatFails(n)

Passing(n) == StartPass(n) \/ MaterializeDeliveries(n) \/ AdvanceFrontier(n)

Maintaining(n) ==
    \/ StartMaintenance(n) \/ ExpireBroadcastConsumers(n) \/ DeleteSettledMessages(n)
    \/ DeleteMessagesOlderThan(n) \/ SweepMessageless(n) \/ SweepConsumerless(n)

Next ==
    \/ \E n \in Hosts : Attaching(n) \/ Beating(n) \/ Passing(n) \/ Crash(n)
    \/ \E m \in Messages, n \in Hosts : Publish(m, n) \/ Settle(m, n)
    \/ \E n \in Maintainers : Maintaining(n)
    \/ \E n \in Nodes : LoopFails(n)
    \/ Detaching \/ Tick

Spec == Init /\ [][Next]_vars

\* The heartbeat ticker keeps firing while the process lives.
FairSpec == Spec /\ \A n \in Hosts : WF_vars(Beating(n))

-----------------------------------------------------------------------------
(* Properties.                                                             *)

\* Two nodes never run one listener under different delivery modes or orderings:
\* RegisterListenerMode arbitrates, the first registration wins.
ModesAgree ==
    \A n, k \in Hosts :
        host[n].phase = "on" /\ host[k].phase = "on" => host[n].want = host[k].want

\* Retention never takes a message away from a registered consumer that covers it
\* and has not completed it, whenever the consumer registered, re-registered or
\* stalled: only the hard age cap does.
CoveredKept ==
    \A m \in Messages, i \in Instances :
        /\ message[m].state = "gone"
        /\ consumer[i].present /\ consumer[i].boundary <= message[m].date
        => <<m, i>> \in history.completed

\* A completed delivery becomes pending again only through a registration that
\* was removed in between: the sweep keeps the memory of the materialization
\* anti-join of every registered consumer.
ResurrectedOnlyAfterRemoval ==
    [][\A x \in history.completed :
         delivery[x] # "PENDING" /\ delivery'[x] = "PENDING" => x[2] \in history.removed]_vars

\* A completed delivery never becomes pending again while its message survives.
NoResurrection ==
    [][\A x \in history.completed :
         delivery[x] # "PENDING" => delivery'[x] # "PENDING"]_vars

\* The frontier only covers ground the scan has seen: every message of a
\* registered consumer below it has a delivery row.
FrontierScanned ==
    \A m \in Messages, i \in Instances :
        /\ message[m].state = "visible" /\ consumer[i].present
        /\ consumer[i].boundary <= message[m].date /\ message[m].date < consumer[i].frontier
        => delivery[<<m, i>>] # "ABSENT"

\* A host whose registration was reaped registers again: the heartbeat sees that
\* the row is missing.
Rejoins ==
    \A n \in Hosts :
        host[n].phase = "on"
        ~> host[n].phase # "on" \/ consumer[InstanceFor(n, host[n].want)].present
=============================================================================
