---------------------------- MODULE MemoryBroker ----------------------------
(***************************************************************************)
(* The in-process broker of package eventbus, seen from one consumer: the  *)
(* publishers, the queue with its condition variable, the workers, the     *)
(* backoff timers, the dead letters, their resubmission, and Stop.         *)
(*                                                                         *)
(* One step is one critical section of a mutex, one wakeup, one handler    *)
(* call or one clock reading.                                              *)
(***************************************************************************)
EXTENDS Integers, Sequences, FiniteSets

LOCAL INSTANCE SequencesExt

CONSTANTS
    Events,       \* events that match the consumer
    Workers,      \* goroutines an unordered consumer starts
    Orderings,    \* orderings the consumer may be configured with: "FIFO", "UNORDERED"
    Readings,     \* what the wall clock may show to the Publish of each event
    MaxAttempts,  \* ConsumerConfiguration.MaximumAttempts
    MaxResubmits  \* bound on the resubmissions of an operator

ASSUME BrokerAssumption ==
    /\ Events # {} /\ Workers # {} /\ IsFiniteSet(Workers) /\ Orderings \subseteq {"FIFO", "UNORDERED"}
    /\ Readings \in [Events -> SUBSET Nat] /\ MaxAttempts \in Nat \ {0} /\ MaxResubmits \in Nat

VARIABLES
    pub,       \* the Publish call of every event
    queue,     \* memoryConsumer.queue
    signals,   \* Signal calls still to come from finished enqueues
    worker,    \* the worker goroutines
    timers,    \* deliveries waiting out their backoff
    letters,   \* MemoryBroker.deadLetters
    reviving,  \* deliveries between the two halves of Resubmit
    resubmits, \* resubmissions so far
    broker,    \* the consumer's ordering; stopped flags: of the broker, the context, the consumer; Stop's progress
    history    \* handled and dropped events, and which Publish preceded which

vars == <<pub, queue, signals, worker, timers, letters, reviving,
          resubmits, broker, history>>

\* memoryDelivery.
Deliveries == [event : Events, attempts : Nat, date : Nat]

\* A FIFO consumer has exactly one worker.
Started(ordering) == IF ordering = "FIFO" THEN {CHOOSE w \in Workers : TRUE} ELSE Workers

\* "off": not subscribed yet; "waiting": inside ready.Wait; "popped": has taken a
\* delivery; "sleeping": a FIFO worker waiting out a backoff.
WorkerPhases == {"off", "await", "waiting", "popped", "handling", "sleeping", "exited"}

\* What a worker that holds no delivery has in its place.
NoDelivery == [event |-> CHOOSE e \in Events : TRUE, attempts |-> 0, date |-> 0]

\* The type invariant.
TypeOK ==
    /\ pub \in [Events -> [state : {"none", "dated", "targeted", "done", "unheard",
                                    "refused"},
                           date : Nat]]
    /\ queue \in Seq(Deliveries)
    /\ signals \in Nat
    /\ worker \in [Workers -> [phase : WorkerPhases, delivery : Deliveries]]
    /\ timers \in SUBSET Deliveries
    /\ letters \in Seq(Deliveries)
    /\ reviving \in SUBSET Deliveries
    /\ resubmits \in Nat
    /\ broker \in [subscribed : BOOLEAN, ordering : {"FIFO", "UNORDERED"},
                   stopped : BOOLEAN, cancelled : BOOLEAN, consumerStopped : BOOLEAN, broadcast : BOOLEAN, returned : BOOLEAN]
    /\ history \in [handled : SUBSET Events, dropped : SUBSET Events,
                    parked : SUBSET Events, preceded : SUBSET (Events \X Events)]

-----------------------------------------------------------------------------
(* The queue.                                                              *)

\* Variant: what is enqueued goes to the end.
PositionAtEnd(d) == 1 + Len(queue)

\* Where enqueue inserts: behind every delivery with no later date.  The queue is
\* sorted by date, so counting them is walking back from the end.
Position(d) == 1 + Cardinality({i \in DOMAIN queue : queue[i].date <= d.date})

\* Variant: only an enqueue into an empty queue wakes a worker.
EnqueueWakingOnce(d) ==
    /\ queue' = InsertAt(queue, Position(d), d)
    /\ signals' = IF queue = <<>> THEN signals + 1 ELSE signals

\* enqueue up to its unlock; its Signal follows.
Enqueue(d) ==
    /\ queue' = InsertAt(queue, Position(d), d)
    /\ signals' = signals + 1

\* The Signal of an enqueue: wakes one blocked worker, if there is one.
Signal ==
    /\ signals > 0
    /\ signals' = signals - 1
    /\ IF \E w \in Workers : worker[w].phase = "waiting"
       THEN \E w \in Workers : /\ worker[w].phase = "waiting"
                               /\ worker' = [worker EXCEPT ![w].phase = "await"]
       ELSE UNCHANGED worker
    /\ UNCHANGED <<pub, queue, timers, letters, reviving, resubmits, broker, history>>

-----------------------------------------------------------------------------
(* Subscribing and publishing.                                             *)

\* Subscribe: refused once the broker is stopped.
Subscribe(ordering) ==
    /\ ~broker.subscribed /\ ~broker.stopped
    /\ broker' = [broker EXCEPT !.subscribed = TRUE, !.ordering = ordering]
    /\ worker' = [w \in Workers |-> IF w \in Started(ordering)
                                    THEN [worker[w] EXCEPT !.phase = "await"] ELSE worker[w]]
    /\ UNCHANGED <<pub, queue, signals, timers, letters, reviving, resubmits, history>>

\* Publish reads the wall clock before anything else; time.Time.UTC strips the monotonic
\* reading, so a later call may get an earlier date.  The history remembers which calls
\* had returned by then.
BeginPublish(e) ==
    /\ pub[e].state = "none"
    /\ \E reading \in Readings[e] : pub' = [pub EXCEPT ![e] = [state |-> "dated", date |-> reading]]
    /\ history' = [history EXCEPT !.preceded =
                     @ \cup ({x \in Events : pub[x].state = "done"} \X {e})]
    /\ UNCHANGED <<queue, signals, worker, timers, letters, reviving, resubmits, broker>>

\* Publish checks the flag and resolves its consumers under the broker's lock.
TargetPublish(e) ==
    /\ pub[e].state = "dated"
    /\ pub' = [pub EXCEPT ![e].state =
                 IF broker.stopped THEN "refused"
                 ELSE IF broker.subscribed THEN "targeted" ELSE "unheard"]
    /\ UNCHANGED <<queue, signals, worker, timers, letters, reviving, resubmits,
                   broker, history>>

\* Publish enqueues, after it has let go of the broker's lock.
EnqueuePublish(e) ==
    /\ pub[e].state = "targeted"
    /\ pub' = [pub EXCEPT ![e].state = "done"]
    /\ Enqueue([event |-> e, attempts |-> 0, date |-> pub[e].date])
    /\ UNCHANGED <<worker, timers, letters, reviving, resubmits, broker, history>>

-----------------------------------------------------------------------------
(* The workers.                                                            *)

\* One turn of the loop in await.
Await(w) ==
    /\ worker[w].phase = "await"
    /\ \/ /\ broker.consumerStopped
          /\ worker' = [worker EXCEPT ![w].phase = "exited"]
          /\ UNCHANGED queue
       \/ /\ ~broker.consumerStopped /\ queue = <<>>
          /\ worker' = [worker EXCEPT ![w].phase = "waiting"]
          /\ UNCHANGED queue
       \/ /\ ~broker.consumerStopped /\ queue # <<>>
          /\ worker' = [worker EXCEPT ![w] = [phase |-> "popped", delivery |-> Head(queue)]]
          /\ queue' = Tail(queue)
    /\ UNCHANGED <<pub, signals, timers, letters, reviving, resubmits, broker, history>>

\* The worker lets go of its delivery.
Release(w, phase) == worker' = [worker EXCEPT ![w] = [phase |-> phase, delivery |-> NoDelivery]]

\* process begins an attempt.
StartHandling(w) ==
    worker' = [worker EXCEPT ![w].phase = "handling", ![w].delivery.attempts = @ + 1]

\* work looks at the context once more before it processes the delivery.
Process(w) ==
    /\ worker[w].phase = "popped"
    /\ IF broker.cancelled
       THEN /\ Release(w, "exited")
            /\ history' = [history EXCEPT !.dropped = @ \cup {worker[w].delivery.event}]
       ELSE StartHandling(w) /\ UNCHANGED history
    /\ UNCHANGED <<pub, queue, signals, timers, letters, reviving, resubmits, broker>>

\* bus.Deliver returns nil.
Succeed(w) ==
    /\ worker[w].phase = "handling"
    /\ Release(w, "await")
    /\ history' = [history EXCEPT !.handled = @ \cup {worker[w].delivery.event}]
    /\ UNCHANGED <<pub, queue, signals, timers, letters, reviving, resubmits, broker>>

\* Variant: an event is parked after its budget has been exceeded.
ExhaustedAfterExcess(w) == worker[w].delivery.attempts > MaxAttempts

Exhausted(w) == worker[w].delivery.attempts >= MaxAttempts

\* bus.Deliver returns an error, a recovered panic included, and the budget is
\* spent: park.
Park(w) ==
    /\ worker[w].phase = "handling" /\ Exhausted(w)
    /\ letters' = Append(letters, worker[w].delivery)
    /\ history' = [history EXCEPT !.parked = @ \cup {worker[w].delivery.event}]
    /\ Release(w, "await")
    /\ UNCHANGED <<pub, queue, signals, timers, reviving, resubmits, broker>>

\* A FIFO worker waits out the backoff itself, an unordered one hands the delivery
\* to a timer (scheduleRetry).
BackOff(w) ==
    /\ worker[w].phase = "handling" /\ ~Exhausted(w)
    /\ IF broker.ordering = "FIFO"
       THEN worker' = [worker EXCEPT ![w].phase = "sleeping"] /\ UNCHANGED timers
       ELSE Release(w, "await") /\ timers' = timers \cup {worker[w].delivery}
    /\ UNCHANGED <<pub, queue, signals, letters, reviving, resubmits, broker, history>>

\* The backoff of a FIFO delivery elapses.
WakeUp(w) ==
    /\ worker[w].phase = "sleeping"
    /\ StartHandling(w)
    /\ UNCHANGED <<pub, queue, signals, timers, letters, reviving, resubmits, broker,
                   history>>

\* Stop interrupts it: process returns and the delivery is gone.
Interrupt(w) ==
    /\ worker[w].phase = "sleeping" /\ broker.cancelled
    /\ Release(w, "await")
    /\ history' = [history EXCEPT !.dropped = @ \cup {worker[w].delivery.event}]
    /\ UNCHANGED <<pub, queue, signals, timers, letters, reviving, resubmits, broker>>

\* Variant: the retry is put back without waking anybody.
RetryQuietly(d) ==
    /\ d \in timers
    /\ timers' = timers \ {d}
    /\ queue' = InsertAt(queue, Position(d), d)
    /\ UNCHANGED <<pub, signals, worker, letters, reviving, resubmits, broker, history>>

\* The backoff of an unordered delivery elapses.
Retry(d) ==
    /\ d \in timers
    /\ timers' = timers \ {d}
    /\ Enqueue(d)
    /\ UNCHANGED <<pub, worker, letters, reviving, resubmits, broker, history>>

\* Stop interrupts it.
DropRetry(d) ==
    /\ d \in timers /\ broker.cancelled
    /\ timers' = timers \ {d}
    /\ history' = [history EXCEPT !.dropped = @ \cup {d.event}]
    /\ UNCHANGED <<pub, queue, signals, worker, letters, reviving, resubmits, broker>>

-----------------------------------------------------------------------------
(* Dead letters.                                                           *)

\* Variant: the letter is only copied, so that it can be resubmitted again.
ResubmitCopying(i) ==
    /\ ~broker.stopped /\ resubmits < MaxResubmits
    /\ reviving' = reviving \cup {[letters[i] EXCEPT !.attempts = 0]}
    /\ resubmits' = resubmits + 1
    /\ UNCHANGED <<pub, queue, signals, worker, timers, letters, broker, history>>

\* Resubmit takes the letter out under the broker's lock ...
Resubmit(i) ==
    /\ ~broker.stopped /\ resubmits < MaxResubmits
    /\ letters' = RemoveAt(letters, i)
    /\ reviving' = reviving \cup {[letters[i] EXCEPT !.attempts = 0]}
    /\ resubmits' = resubmits + 1
    /\ UNCHANGED <<pub, queue, signals, worker, timers, broker, history>>

\* ... and enqueues it with a fresh budget at its old date.
Revive(d) ==
    /\ d \in reviving
    /\ reviving' = reviving \ {d}
    /\ Enqueue(d)
    /\ UNCHANGED <<pub, worker, timers, letters, resubmits, broker, history>>

-----------------------------------------------------------------------------
(* Stop.                                                                   *)

Quiet == UNCHANGED <<pub, queue, signals, timers, letters, reviving, resubmits, history>>

StopBroker ==
    /\ ~broker.stopped
    /\ broker' = [broker EXCEPT !.stopped = TRUE]
    /\ Quiet /\ UNCHANGED worker

CancelContext ==
    /\ broker.stopped /\ ~broker.cancelled
    /\ broker' = [broker EXCEPT !.cancelled = TRUE]
    /\ Quiet /\ UNCHANGED worker

\* memoryConsumer.stop, up to its unlock.
StopConsumer ==
    /\ broker.cancelled /\ ~broker.consumerStopped
    /\ broker' = [broker EXCEPT !.consumerStopped = TRUE]
    /\ Quiet /\ UNCHANGED worker

\* Variant: the consumer wakes one of its workers.
BroadcastToOne ==
    /\ broker.consumerStopped /\ ~broker.broadcast
    /\ broker' = [broker EXCEPT !.broadcast = TRUE]
    /\ LET waiting == {w \in Workers : worker[w].phase = "waiting"} IN
       worker' = IF waiting = {} THEN worker
                 ELSE [worker EXCEPT ![CHOOSE w \in waiting : TRUE].phase = "await"]
    /\ Quiet

\* The Broadcast of memoryConsumer.stop.
Broadcast ==
    /\ broker.consumerStopped /\ ~broker.broadcast
    /\ broker' = [broker EXCEPT !.broadcast = TRUE]
    /\ worker' = [w \in Workers |-> IF worker[w].phase = "waiting"
                                    THEN [worker[w] EXCEPT !.phase = "await"] ELSE worker[w]]
    /\ Quiet

\* wait.Wait returns: every worker and every pending retry is through.
StopReturns ==
    /\ broker.broadcast /\ ~broker.returned
    /\ \A w \in Workers : worker[w].phase \in {"off", "exited"}
    /\ timers = {}
    /\ broker' = [broker EXCEPT !.returned = TRUE]
    /\ Quiet /\ UNCHANGED worker

Init ==
    /\ signals = 0 /\ resubmits = 0
    /\ pub = [e \in Events |-> [state |-> "none", date |-> 0]]
    /\ queue = <<>> /\ letters = <<>> /\ timers = {} /\ reviving = {}
    /\ worker = [w \in Workers |-> [phase |-> "off", delivery |-> NoDelivery]]
    /\ broker = [subscribed |-> FALSE, ordering |-> "UNORDERED", stopped |-> FALSE,
                 cancelled |-> FALSE, consumerStopped |-> FALSE, broadcast |-> FALSE, returned |-> FALSE]
    /\ history = [handled |-> {}, dropped |-> {}, parked |-> {}, preceded |-> {}]

Publishing(e) == BeginPublish(e) \/ TargetPublish(e) \/ EnqueuePublish(e)

Working(w) ==
    \/ Await(w) \/ Process(w) \/ Succeed(w) \/ Park(w) \/ BackOff(w)
    \/ WakeUp(w) \/ Interrupt(w)

Backoffs == \E d \in timers : Retry(d) \/ DropRetry(d)

Stopping == CancelContext \/ StopConsumer \/ Broadcast \/ StopReturns

Next ==
    \/ \E ordering \in Orderings : Subscribe(ordering)
    \/ StopBroker \/ Stopping \/ Signal
    \/ \E e \in Events : Publishing(e)
    \/ \E w \in Workers : Working(w)
    \/ Backoffs
    \/ \E i \in DOMAIN letters : Resubmit(i)
    \/ \E d \in reviving : Revive(d)

Spec == Init /\ [][Next]_vars

\* Every goroutine that can take a step takes it: the publishers past their
\* clock reading, the workers, the timers, and Stop once it has been called.
\* Nobody has to publish, resubmit or stop.
FairSpec ==
    /\ Spec
    /\ WF_vars(Signal) /\ WF_vars(Stopping) /\ WF_vars(Backoffs)
    /\ \A w \in Workers : WF_vars(Working(w))
    /\ \A e \in Events : WF_vars(TargetPublish(e) \/ EnqueuePublish(e))
    /\ WF_vars(\E d \in reviving : Revive(d))

-----------------------------------------------------------------------------
(* Properties.                                                             *)

\* In how many places the delivery of event e is.
Places(e) ==
    LET Of(S) == Cardinality({d \in S : d.event = e}) IN
    Cardinality({i \in DOMAIN queue : queue[i].event = e})
    + Cardinality({i \in DOMAIN letters : letters[i].event = e})
    + Cardinality({w \in Workers : /\ worker[w].phase \in {"popped", "handling", "sleeping"}
                                   /\ worker[w].delivery.event = e})
    + Of(timers) + Of(reviving)
    + (IF e \in history.handled THEN 1 ELSE 0) + (IF e \in history.dropped THEN 1 ELSE 0)

\* Exactly once: an accepted event is always in exactly one place, in the queue,
\* with a worker, in a backoff, parked, being resubmitted, or settled.  None is
\* lost, none is handled twice, whatever retries and resubmissions overlap.
ExactlyOnePlace == \A e \in Events : Places(e) = IF pub[e].state = "done" THEN 1 ELSE 0

\* The deliveries of event e the broker still has.
Held(e) ==
    {d \in timers \cup reviving \cup {queue[i] : i \in DOMAIN queue}
          \cup {letters[i] : i \in DOMAIN letters}
          \cup {worker[w].delivery : w \in {v \in Workers :
                    worker[v].phase \in {"popped", "handling", "sleeping"}}} : d.event = e}

\* Where the contract has event e.
Place(e) ==
    IF pub[e].state # "done" THEN "unpublished"
    ELSE IF e \in history.handled THEN "handled"
    ELSE IF e \in history.dropped THEN "given up"
    ELSE IF \E i \in DOMAIN letters : letters[i].event = e THEN "parked"
    ELSE IF \E w \in Workers : worker[w].phase = "handling" /\ worker[w].delivery.event = e
    THEN "handling" ELSE "pending"

\* The variables of the contract.
Mode == IF broker.subscribed THEN broker.ordering ELSE "none"
EventPlace == [e \in Events |-> Place(e)]
Spent == [e \in Events |-> IF Held(e) = {} THEN 0 ELSE (CHOOSE d \in Held(e) : TRUE).attempts]

Contract == INSTANCE BrokerContract WITH
    Attempts <- MaxAttempts, ordering <- Mode, place <- EventPlace, spent <- Spent,
    stopped <- broker.stopped

\* The engine keeps the contract of the Broker interface: the handler runs at most so
\* often per budget and one event at a time under FIFO, a dead letter has spent its
\* budget exactly, a fresh one is granted once per letter, and events are given up
\* only after Stop and never during their handler.
ImplementsBroker == Contract!Spec

\* Every enqueue is observable: while a worker is blocked, there is a pending
\* wakeup or a worker about to look for every ready delivery.
NoReadyWorkBesideBlockedWorker ==
    \/ \A w \in Workers : worker[w].phase # "waiting"
    \/ broker.consumerStopped
    \/ Len(queue) <= signals + Cardinality({w \in Workers : worker[w].phase = "await"})

\* The worker owes event x to its consumer before event e: x has the earlier date, or the
\* same one and its Publish had returned when that of e was called.  A dead letter goes
\* behind the events of its own date.
Precedes(x, e) ==
    \/ pub[x].date < pub[e].date
    \/ pub[x].date = pub[e].date /\ <<x, e>> \in history.preceded /\ x \notin history.parked

\* FIFO: no event overtakes one that precedes it, dead letters put back among the queued
\* events included.  As long as the wall clock is not set back, this is the order of the
\* Publish calls.
FifoInPublishOrder ==
    [][\A w \in Workers :
         worker[w].phase = "await" /\ worker'[w].phase = "popped"
         => \A i \in DOMAIN queue' :
              Precedes(queue'[i].event, worker'[w].delivery.event)
              => broker.ordering = "UNORDERED"]_vars

\* The documentation of OrderingFIFO: events are processed strictly in the order of their
\* publication.  A wall clock that is set back between two calls breaks it.
FifoStrictly ==
    [][\A w \in Workers :
         worker[w].phase = "await" /\ worker'[w].phase = "popped"
         => \A i \in DOMAIN queue' :
              <<queue'[i].event, worker'[w].delivery.event>> \in history.preceded
              => broker.ordering = "UNORDERED" \/ queue'[i].event \in history.parked]_vars

\* Stop terminates, whatever its workers were doing when it was called.
StopTerminates == broker.stopped ~> broker.returned

\* Every accepted event is handled or parked, unless the broker is stopped.
EventuallySettled ==
    \A e \in Events :
        pub[e].state = "done" ~> e \in history.handled \cup history.parked \/ broker.stopped
=============================================================================
