------------------------------- MODULE Outbox -------------------------------
(***************************************************************************)
(* The transactional outbox of package outbox: a publication row per event *)
(* and listener, written with the business change, delivered after the     *)
(* commit by the publisher and, when that fails, by the resubmitters of    *)
(* the application's instances.  Every transition of a row is a            *)
(* compare-and-set on its status and its attempt generation.               *)
(*                                                                         *)
(* One step is one SQL statement or one listener call.  Time is kept as an *)
(* age: `old' says that the latest attempt of a row started longer than    *)
(* minimumAge ago on the reader's clock.                                   *)
(***************************************************************************)
EXTENDS Integers, FiniteSets

CONSTANTS
    Events,         \* published events
    Listeners,      \* the listeners ListenersFor returns for them
    Resubmitters,   \* instances running a Resubmitter
    PublishModes,   \* "open": in a transaction; "auto": each statement by itself
    CompletionMode, \* how the store of each dispatcher completes a publication
    MaxFaults       \* bound on failures, crashes and premature resubmissions

ASSUME WorkersAssumption == Events \cap Resubmitters = {}

\* Publish writes nothing for an event without listeners.
ASSUME PublicationsAssumption == Events # {} /\ Listeners # {}

ASSUME ModesAssumption ==
    /\ PublishModes \subseteq {"open", "auto"}
    /\ CompletionMode \in [Events \cup Resubmitters -> {"UPDATE", "DELETE", "ARCHIVE"}]
    /\ MaxFaults \in Nat

VARIABLES
    event,     \* how far the publication of every event has come
    row,       \* the publication table
    archive,   \* the archive table: the generation of the entry, 0 without one
    delivered, \* history: the generations whose listener call succeeded
    worker,    \* the dispatch of every event, the loop of every resubmitter
    faults     \* disturbances the environment may still cause

vars == <<event, row, archive, delivered, worker, faults>>

Publications == Events \X Listeners

\* A dispatch after the commit is named by its event.
Workers == Events \cup Resubmitters

\* "REMOVED": deleted on completion, or moved into the archive.
Statuses == {"ABSENT", "PUBLISHED", "PROCESSING", "FAILED", "RESUBMITTED",
             "COMPLETED", "REMOVED"}

Settled == {"COMPLETED", "REMOVED"}

EventStates == {"none", "open", "auto", "out", "lost"}

Phases == {"idle", "batch", "resubmit", "claim", "run", "fail", "complete", "archive"}

\* The phases in which a worker has claimed its publication.
Holding == {"run", "fail", "complete", "archive"}

\* A Publication value as Publish or FindIncomplete returned it.
Observation == [pub : Publications, status : Statuses, attempts : Nat]

RowRecord == [status : Statuses, attempts : Nat, old : BOOLEAN]

WorkerRecord == [phase : Phases, pub : Publications, attempts : Nat,
                 batch : SUBSET Observation]

\* The type invariant: every row and every loop is in one of its states, and the
\* generations are counted from zero.
TypeOK ==
    /\ event \in [Events -> EventStates]
    /\ row \in [Publications -> RowRecord]
    /\ archive \in [Publications -> Nat]
    /\ delivered \in [Publications -> SUBSET Nat]
    /\ worker \in [Workers -> WorkerRecord]
    /\ faults \in Nat

-----------------------------------------------------------------------------
(* The conditions of the SQL statements.                                   *)

\* Variant: the settlement is fenced by the status alone.
GenerationUnfenced(w) == row[worker[w].pub].status = "PROCESSING"

\* generationCondition, for the processing status its callers pass.
GenerationCondition(w) ==
    /\ row[worker[w].pub].status = "PROCESSING"
    /\ row[worker[w].pub].attempts = worker[w].attempts

\* Variant: any incomplete row of the generation can be claimed.
ClaimAnyIncomplete(w) ==
    /\ row[worker[w].pub].status \notin Settled \cup {"ABSENT", "FAILED"}
    /\ row[worker[w].pub].attempts = worker[w].attempts

\* The WHERE clause of ClaimProcessing.
ClaimCondition(w) ==
    /\ row[worker[w].pub].status \in {"PUBLISHED", "RESUBMITTED"}
    /\ row[worker[w].pub].attempts = worker[w].attempts

\* Variant: the compare-and-set checks the generation but not the status.
ResubmitAnyStatus(w) ==
    /\ row[worker[w].pub].status # "ABSENT"
    /\ row[worker[w].pub].attempts = worker[w].attempts

\* The WHERE clause of MarkResubmitted.
ResubmitCondition(w) ==
    /\ row[worker[w].pub].status \in {"PUBLISHED", "PROCESSING", "FAILED"}
    /\ row[worker[w].pub].attempts = worker[w].attempts

\* Variant: a resubmitted row is taken to be in its resubmitter's hands.
IncompleteUnlessResubmitted(p) == row[p].status \in {"PUBLISHED", "PROCESSING", "FAILED"}

\* The condition of FindIncomplete.
Incomplete(p) == row[p].status \notin Settled \cup {"ABSENT"}

\* A row as Registry.Publish seeds it: one attempt counted, stamped now.
Seed == [status |-> "PUBLISHED", attempts |-> 1, old |-> FALSE]

PublicationsOf(e) == {e} \X Listeners

\* Locals of a worker between two publications.
Between(phase, batch) ==
    [phase |-> phase, pub |-> CHOOSE p \in Publications : TRUE, attempts |-> 0,
     batch |-> batch]

\* Publisher.dispatch hands over the publications as Publish returned them.
Dispatching(e) ==
    Between("batch", {[pub |-> p, status |-> "PUBLISHED", attempts |-> 1]
                      : p \in PublicationsOf(e)})

-----------------------------------------------------------------------------
(* Publication.                                                            *)

\* Publisher.Publish is called, inside a transaction or without one.
BeginPublish(e, how) ==
    /\ event[e] = "none"
    /\ event' = [event EXCEPT ![e] = how]
    /\ UNCHANGED <<row, archive, delivered, worker, faults>>

\* The outermost transaction commits: the rows appear together, and the
\* after-commit callback dispatches them.
CommitPublish(e) ==
    /\ event[e] = "open"
    /\ event' = [event EXCEPT ![e] = "out"]
    /\ row' = [p \in Publications |-> IF p[1] = e THEN Seed ELSE row[p]]
    /\ worker' = [worker EXCEPT ![e] = Dispatching(e)]
    /\ UNCHANGED <<archive, delivered, faults>>

\* Storing one of the publications failed, so Publish returned an error and
\* registered no callback, but the caller commits what was stored.
CommitPartial(e) ==
    /\ event[e] = "open"
    /\ event' = [event EXCEPT ![e] = "out"]
    /\ \E stored \in (SUBSET PublicationsOf(e)) \ {PublicationsOf(e)} :
         row' = [p \in Publications |-> IF p \in stored THEN Seed ELSE row[p]]
    /\ UNCHANGED <<archive, delivered, worker, faults>>

\* The transaction rolls back: no row, no callback.
RollbackPublish(e) ==
    /\ event[e] = "open"
    /\ event' = [event EXCEPT ![e] = "lost"]
    /\ UNCHANGED <<row, archive, delivered, worker, faults>>

\* The publication was made inside a nested transaction that rolled back to its
\* savepoint; its callback outlives it and dispatches rows that do not exist.
DiscardPublish(e) ==
    /\ event[e] = "open"
    /\ event' = [event EXCEPT ![e] = "lost"]
    /\ worker' = [worker EXCEPT ![e] = Dispatching(e)]
    /\ UNCHANGED <<row, archive, delivered, faults>>

\* Store.Create outside a transaction: durable at once.
Create(p) ==
    /\ event[p[1]] = "auto"
    /\ row[p].status = "ABSENT"
    /\ row' = [row EXCEPT ![p] = Seed]
    /\ UNCHANGED <<event, archive, delivered, worker, faults>>

\* Every listener has its row, and Publish dispatches at once.
FinishPublish(e) ==
    /\ event[e] = "auto"
    /\ \A p \in PublicationsOf(e) : row[p].status # "ABSENT"
    /\ event' = [event EXCEPT ![e] = "out"]
    /\ worker' = [worker EXCEPT ![e] = Dispatching(e)]
    /\ UNCHANGED <<row, archive, delivered, faults>>

\* Create failed: the earlier rows stay, undispatched.
CreateFails(e) ==
    /\ event[e] = "auto"
    /\ \E p \in PublicationsOf(e) : row[p].status = "ABSENT"
    /\ event' = [event EXCEPT ![e] = "out"]
    /\ UNCHANGED <<row, archive, delivered, worker, faults>>

-----------------------------------------------------------------------------
(* Delivery and resubmission.                                              *)

\* ResubmitIncomplete starts a pass over the publications a query returned.
Pass(r, found) ==
    /\ worker[r].phase = "idle"
    /\ found # {}
    /\ worker' = [worker EXCEPT ![r] =
                    Between("batch", {[pub |-> p, status |-> row[p].status,
                                       attempts |-> row[p].attempts] : p \in found})]
    /\ UNCHANGED <<event, row, archive, delivered>>

\* The pass of a Resubmitter: FindIncompletePublishedBefore.
StartPass(r) ==
    /\ Pass(r, {p \in Publications : Incomplete(p) /\ row[p].old})
    /\ UNCHANGED faults

\* ResubmitIncomplete without a minimum age: FindIncomplete.  It takes over
\* attempts that are still in flight, which counts as a disturbance.
RecoverAll(r) ==
    /\ faults > 0
    /\ faults' = faults - 1
    /\ Pass(r, {p \in Publications : Incomplete(p)})

\* The next publication of the batch.  A resubmitter bumps the generation first,
\* unless it read the row as resubmitted: then it dispatches it as it is.  The
\* order inside a batch is left open.
Take(w) ==
    /\ worker[w].phase = "batch"
    /\ \E x \in worker[w].batch :
         worker' = [worker EXCEPT ![w] =
                      [phase |-> IF w \in Events \/ x.status = "RESUBMITTED"
                                 THEN "claim" ELSE "resubmit",
                       pub |-> x.pub, attempts |-> x.attempts,
                       batch |-> worker[w].batch \ {x}]]
    /\ UNCHANGED <<event, row, archive, delivered, faults>>

EndBatch(w) ==
    /\ worker[w].phase = "batch"
    /\ worker[w].batch = {}
    /\ worker' = [worker EXCEPT ![w] = Between("idle", {})]
    /\ UNCHANGED <<event, row, archive, delivered, faults>>

\* On to the next publication.
Proceed(w) == worker' = [worker EXCEPT ![w] = Between("batch", @.batch)]

\* MarkResubmitted, at the generation the pass observed.
MarkResubmitted(w) ==
    /\ worker[w].phase = "resubmit"
    /\ IF ResubmitCondition(w)
       THEN LET next == worker[w].attempts + 1 IN
            /\ row' = [row EXCEPT ![worker[w].pub] =
                         [status |-> "RESUBMITTED", attempts |-> next, old |-> FALSE]]
            /\ worker' = [worker EXCEPT ![w].phase = "claim", ![w].attempts = next]
       ELSE Proceed(w) /\ UNCHANGED row
    /\ UNCHANGED <<event, archive, delivered, faults>>

\* ClaimProcessing stamps the attempt's start; the loser of a claim moves on.
ClaimProcessing(w) ==
    /\ worker[w].phase = "claim"
    /\ IF ClaimCondition(w)
       THEN /\ row' = [row EXCEPT ![worker[w].pub] =
                         [@ EXCEPT !.status = "PROCESSING", !.old = FALSE]]
            /\ worker' = [worker EXCEPT ![w].phase = "run"]
       ELSE Proceed(w) /\ UNCHANGED row
    /\ UNCHANGED <<event, archive, delivered, faults>>

\* bus.Deliver returns without an error.
Deliver(w) ==
    /\ worker[w].phase = "run"
    /\ delivered' = [delivered EXCEPT ![worker[w].pub] = @ \cup {worker[w].attempts}]
    /\ worker' = [worker EXCEPT ![w].phase = "complete"]
    /\ UNCHANGED <<event, row, archive, faults>>

\* bus.Deliver returns an error.
DeliverFails(w) ==
    /\ worker[w].phase = "run"
    /\ faults > 0
    /\ faults' = faults - 1
    /\ worker' = [worker EXCEPT ![w].phase = "fail"]
    /\ UNCHANGED <<event, row, archive, delivered>>

MarkFailed(w) ==
    /\ worker[w].phase = "fail"
    /\ row' = IF GenerationCondition(w)
              THEN [row EXCEPT ![worker[w].pub].status = "FAILED"] ELSE row
    /\ Proceed(w)
    /\ UNCHANGED <<event, archive, delivered, faults>>

\* MarkCompleted by a single statement.
MarkCompleted(w) ==
    /\ worker[w].phase = "complete"
    /\ CompletionMode[w] \in {"UPDATE", "DELETE"}
    /\ row' = IF GenerationCondition(w)
              THEN [row EXCEPT ![worker[w].pub].status =
                      IF CompletionMode[w] = "UPDATE" THEN "COMPLETED" ELSE "REMOVED"]
              ELSE row
    /\ Proceed(w)
    /\ UNCHANGED <<event, archive, delivered, faults>>

\* archive, up to its read: a fenced out dispatcher stops here.
ReadForArchive(w) ==
    /\ worker[w].phase = "complete"
    /\ CompletionMode[w] = "ARCHIVE"
    /\ IF GenerationCondition(w)
       THEN worker' = [worker EXCEPT ![w].phase = "archive"] ELSE Proceed(w)
    /\ UNCHANGED <<event, row, archive, delivered, faults>>

\* The archive entry, inserted unless one exists.
Entry(w) == IF archive[worker[w].pub] = 0 THEN worker[w].attempts
                                           ELSE archive[worker[w].pub]

\* Variant: the transaction commits whether or not the delete found its row.
ArchiveCommitsAnyway(w) ==
    /\ worker[w].phase = "archive"
    /\ archive' = [archive EXCEPT ![worker[w].pub] = Entry(w)]
    /\ row' = IF GenerationCondition(w)
              THEN [row EXCEPT ![worker[w].pub].status = "REMOVED"] ELSE row
    /\ Proceed(w)
    /\ UNCHANGED <<event, delivered, faults>>

\* The insert, the delete and the commit of archive.  A resubmission may have
\* come between the read and the delete; then the rollback discards the entry.
ArchiveAndDelete(w) ==
    /\ worker[w].phase = "archive"
    /\ IF GenerationCondition(w)
       THEN /\ archive' = [archive EXCEPT ![worker[w].pub] = Entry(w)]
            /\ row' = [row EXCEPT ![worker[w].pub].status = "REMOVED"]
       ELSE UNCHANGED <<archive, row>>
    /\ Proceed(w)
    /\ UNCHANGED <<event, delivered, faults>>

\* A statement fails, or the stored event does not deserialize: the error is
\* collected and the batch goes on.
StatementFails(w) ==
    /\ worker[w].phase \in Phases \ {"idle", "batch", "run"}
    /\ faults > 0
    /\ faults' = faults - 1
    /\ Proceed(w)
    /\ UNCHANGED <<event, row, archive, delivered>>

-----------------------------------------------------------------------------
(* The environment.                                                        *)

\* The process of worker w dies in the middle of its batch.
Crash(w) ==
    /\ worker[w].phase # "idle"
    /\ faults > 0
    /\ faults' = faults - 1
    /\ worker' = [worker EXCEPT ![w] = Between("idle", {})]
    /\ UNCHANGED <<event, row, archive, delivered>>

\* Some worker is about to deliver publication p, or delivers it.
InFlight(p) ==
    \E w \in Workers : /\ worker[w].phase \in Holding \cup {"claim"}
                       /\ worker[w].pub = p
                       /\ worker[w].attempts = row[p].attempts

\* The latest attempt of p is older than minimumAge.  While it is in flight that
\* is a disturbance: minimumAge must exceed the slowest listener.
Age(p) ==
    /\ Incomplete(p)
    /\ ~row[p].old
    /\ row' = [row EXCEPT ![p].old = TRUE]
    /\ IF InFlight(p) THEN faults > 0 /\ faults' = faults - 1 ELSE UNCHANGED faults
    /\ UNCHANGED <<event, archive, delivered, worker>>

Init ==
    /\ event = [e \in Events |-> "none"]
    /\ row = [p \in Publications |-> [status |-> "ABSENT", attempts |-> 0, old |-> FALSE]]
    /\ archive = [p \in Publications |-> 0]
    /\ delivered = [p \in Publications |-> {}]
    /\ worker = [w \in Workers |-> Between("idle", {})]
    /\ faults = MaxFaults

Publishing(e) ==
    \/ \E how \in PublishModes : BeginPublish(e, how)
    \/ CommitPublish(e) \/ CommitPartial(e) \/ RollbackPublish(e) \/ DiscardPublish(e)
    \/ FinishPublish(e) \/ CreateFails(e)

\* What the goroutine of worker w does next.
Working(w) ==
    \/ Take(w) \/ EndBatch(w) \/ MarkResubmitted(w) \/ ClaimProcessing(w)
    \/ Deliver(w) \/ DeliverFails(w) \/ MarkFailed(w) \/ MarkCompleted(w)
    \/ ReadForArchive(w) \/ ArchiveAndDelete(w) \/ StatementFails(w)

Next ==
    \/ \E e \in Events : Publishing(e)
    \/ \E p \in Publications : Create(p) \/ Age(p)
    \/ \E r \in Resubmitters : StartPass(r) \/ RecoverAll(r)
    \/ \E w \in Workers : Working(w) \/ Crash(w)

Spec == Init /\ [][Next]_vars

\* The loop of a Resubmitter runs a pass per tick for as long as its process
\* lives, a goroutine that can take a step takes it, and time passes.
FairSpec ==
    /\ Spec
    /\ \A r \in Resubmitters : WF_vars(StartPass(r))
    /\ \A w \in Workers : WF_vars(Working(w))
    /\ \A p \in Publications : WF_vars(Age(p))

-----------------------------------------------------------------------------
(* Properties.                                                             *)

\* One claim per generation: dispatchers that deliver the same publication at
\* the same time hold different generations, so that at most one of them can
\* settle it (ClaimProcessing succeeds for exactly one of them).
OneHolderPerGeneration ==
    \A w, v \in Workers :
        /\ worker[w].phase \in Holding /\ worker[v].phase \in Holding
        /\ worker[w].pub = worker[v].pub /\ worker[w].attempts = worker[v].attempts
        => w = v

\* A settled row carries the generation of a delivery that succeeded: a fenced
\* out dispatcher never settles on behalf of the attempt that replaced it.
SettledByItsDelivery ==
    \A p \in Publications :
        row[p].status \in Settled => row[p].attempts \in delivered[p]

\* A publication is in the archive only when it has left the table, under the
\* generation that settled it: archive leaves no early copy behind.  Where no
\* instance deletes, a publication that has left the table is in the archive.
ArchivedOnceSettled ==
    \A p \in Publications :
        /\ archive[p] # 0 => row[p].status = "REMOVED" /\ archive[p] = row[p].attempts
        /\ row[p].status = "REMOVED" =>
             archive[p] # 0 \/ \E w \in Workers : CompletionMode[w] = "DELETE"

\* The table as the promise sees it.
Progress ==
    [p \in Publications |->
        CASE row[p].status = "ABSENT" -> "absent"
          [] row[p].status \in Settled -> "done"
          [] OTHER -> "pending"]

Accepted == {p \in Publications : delivered[p] # {}}

Abstract == INSTANCE AtLeastOnce WITH
    Items <- Publications, state <- Progress, accepted <- Accepted

\* The outbox implements at-least-once delivery: rows appear with their commit,
\* listeners run for committed publications only, a row is settled after a
\* success and never comes back.
ImplementsAtLeastOnce == Abstract!Spec

\* Every published row is settled in the end, once the failures, crashes and
\* slow listeners are over: no row is stranded in any intermediate status.
EventuallySettled ==
    \A p \in Publications :
        row[p].status # "ABSENT" ~> row[p].status \in Settled

\* A resubmission takes over stale attempts only: it cannot fence a fresher
\* attempt that a peer started after the pass observed the row.
FreshAttemptKept ==
    [][\A p \in Publications :
         row[p].status = "PROCESSING" /\ ~row[p].old => row'[p].status # "RESUBMITTED"]_row
=============================================================================
