---------------------------- MODULE OutboxProofs ----------------------------
(***************************************************************************)
(* Proofs about Outbox for every set of events, listeners and resubmitters *)
(* and every completion mode: the generation fences out whoever lost its   *)
(* claim, and the table implements at-least-once delivery.                 *)
(***************************************************************************)
EXTENDS Outbox, TLAPS

(* The fencing invariant.                                                  *)

\* An event that is not published yet, or never will be, has no row.
Unpublished ==
    \A p \in Publications :
        event[p[1]] \in {"none", "open", "lost"} => row[p].status = "ABSENT"

\* The first generation is one: zero never names a delivery.
Seeded == \A p \in Publications : row[p].status # "ABSENT" => row[p].attempts > 0

\* Whoever has claimed a generation holds the row's latest one, already claimed,
\* or an earlier one: the row can not be claimed again at its generation.
Fenced ==
    \A w \in Workers :
        worker[w].phase \in Holding =>
            LET r == row[worker[w].pub] IN
            /\ worker[w].attempts <= r.attempts
            /\ r.status # "ABSENT"
            /\ worker[w].attempts = r.attempts => r.status \notin {"PUBLISHED", "RESUBMITTED"}

\* Whoever is about to settle has delivered at its generation.
Succeeded ==
    \A w \in Workers :
        worker[w].phase \in {"complete", "archive"} =>
            worker[w].attempts \in delivered[worker[w].pub]

FenceInv ==
    /\ Unpublished /\ Seeded /\ Fenced /\ Succeeded
    /\ OneHolderPerGeneration /\ SettledByItsDelivery /\ ArchivedOnceSettled

-----------------------------------------------------------------------------
(* Types.                                                                  *)

\* A publication belongs to an event, and there is one.
LEMMA PublicationFacts ==
    /\ (CHOOSE p \in Publications : TRUE) \in Publications
    /\ \A p \in Publications : p[1] \in Events
    /\ \A e \in Events : PublicationsOf(e) \subseteq Publications
                         /\ \A p \in PublicationsOf(e) : p[1] = e
  <1>1. PICK e \in Events, l \in Listeners : TRUE
    BY PublicationsAssumption
  <1>2. <<e, l>> \in Publications
    BY DEF Publications
  <1> QED
    BY <1>2 DEF Publications, PublicationsOf

\* A worker between two publications is a well-formed worker.
LEMMA BetweenType ==
    ASSUME NEW phase \in Phases, NEW batch \in SUBSET Observation
    PROVE  Between(phase, batch) \in WorkerRecord
  BY PublicationFacts DEF Between, WorkerRecord

\* So is one that starts to dispatch what Publish returned.
LEMMA DispatchingType ==
    ASSUME NEW e \in Events
    PROVE  Dispatching(e) \in WorkerRecord
  <1>1. {[pub |-> p, status |-> "PUBLISHED", attempts |-> 1] : p \in PublicationsOf(e)}
            \in SUBSET Observation
    BY PublicationFacts DEF Observation, Statuses
  <1> QED
    BY <1>1, BetweenType DEF Dispatching, Phases

\* Going on to the next publication keeps the workers well-formed.
LEMMA ProceedType ==
    ASSUME TypeOK, NEW w \in Workers, Proceed(w)
    PROVE  /\ worker' \in [Workers -> WorkerRecord]
           /\ worker'[w].phase = "batch"
           /\ \A v \in Workers : v # w => worker'[v] = worker[v]
  <1>1. worker[w].batch \in SUBSET Observation
    BY DEF TypeOK, WorkerRecord
  <1>2. Between("batch", worker[w].batch) \in WorkerRecord
    BY <1>1, BetweenType DEF Phases
  <1> QED
    BY <1>2 DEF Proceed, TypeOK, Between

\* What a settlement, a claim and a resubmission leave in the table is a row.
LEMMA RowType ==
    ASSUME NEW r \in RowRecord, NEW s \in Statuses, NEW n \in Nat
    PROVE  /\ Seed \in RowRecord
           /\ [r EXCEPT !.status = s] \in RowRecord
           /\ [r EXCEPT !.status = s, !.old = FALSE] \in RowRecord
           /\ [r EXCEPT !.old = TRUE] \in RowRecord
           /\ [status |-> s, attempts |-> n, old |-> FALSE] \in RowRecord
  BY DEF RowRecord, Seed, Statuses

\* Initially the state is well-formed.
LEMMA InitType == Init => TypeOK
  <1> SUFFICES ASSUME Init PROVE TypeOK
    OBVIOUS
  <1>1. Between("idle", {}) \in WorkerRecord
    BY BetweenType DEF Phases
  <1>2. [status |-> "ABSENT", attempts |-> 0, old |-> FALSE] \in RowRecord
    BY DEF RowRecord, Statuses
  <1> QED
    BY <1>1, <1>2, ModesAssumption DEF Init, TypeOK, EventStates

\* Every step keeps the state well-formed.
LEMMA NextType == TypeOK /\ [Next]_vars => TypeOK'
  <1> SUFFICES ASSUME TypeOK, [Next]_vars PROVE TypeOK'
    OBVIOUS
  <1>1. ASSUME NEW e \in Events, Publishing(e)
        PROVE  TypeOK'
    <2>1. /\ Dispatching(e) \in WorkerRecord
          /\ Seed \in RowRecord
          /\ PublishModes \subseteq EventStates
      BY DispatchingType, ModesAssumption DEF EventStates, Seed, RowRecord, Statuses
    <2>2. CASE CommitPublish(e) \/ CommitPartial(e)
      BY <2>1, <2>2 DEF CommitPublish, CommitPartial, TypeOK, EventStates, Workers
    <2>3. CASE DiscardPublish(e) \/ FinishPublish(e)
      BY <2>1, <2>3 DEF DiscardPublish, FinishPublish, TypeOK, EventStates, Workers
    <2> QED
      BY <1>1, <2>1, <2>2, <2>3
      DEF Publishing, BeginPublish, RollbackPublish, CreateFails, TypeOK, EventStates
  <1>2. ASSUME NEW p \in Publications, Create(p) \/ Age(p)
        PROVE  TypeOK'
    <2>1. Seed \in RowRecord /\ [row[p] EXCEPT !.old = TRUE] \in RowRecord
      BY DEF Seed, TypeOK, RowRecord, Statuses
    <2>2. row' \in [Publications -> RowRecord]
      BY <1>2, <2>1 DEF Create, Age, TypeOK
    <2>3. faults' \in Nat
      BY <1>2 DEF Create, Age, TypeOK
    <2> QED
      BY <1>2, <2>2, <2>3 DEF Create, Age, TypeOK
  <1>3. ASSUME NEW r \in Resubmitters, StartPass(r) \/ RecoverAll(r)
        PROVE  TypeOK'
    <2>1. ASSUME NEW found \in SUBSET Publications, Pass(r, found)
          PROVE  worker' \in [Workers -> WorkerRecord]
      <3>1. {[pub |-> p, status |-> row[p].status, attempts |-> row[p].attempts]
             : p \in found} \in SUBSET Observation
        BY DEF Observation, TypeOK, RowRecord
      <3> QED
        BY <2>1, <3>1, BetweenType DEF Pass, TypeOK, Phases
    <2>2. /\ {p \in Publications : Incomplete(p) /\ row[p].old} \in SUBSET Publications
          /\ {p \in Publications : Incomplete(p)} \in SUBSET Publications
      OBVIOUS
    <2>3. worker' \in [Workers -> WorkerRecord]
      BY <1>3, <2>1, <2>2 DEF StartPass, RecoverAll
    <2> QED
      BY <1>3, <2>3 DEF StartPass, RecoverAll, Pass, TypeOK
  <1>4. ASSUME NEW w \in Workers, Working(w) \/ Crash(w)
        PROVE  TypeOK'
    <2>1. /\ worker[w] \in WorkerRecord /\ worker[w].pub \in Publications
          /\ row[worker[w].pub] \in RowRecord
          /\ Between("idle", {}) \in WorkerRecord
      BY BetweenType DEF TypeOK, WorkerRecord, Phases
    <2>2. CASE Take(w)
      <3>1. PICK x \in worker[w].batch :
              worker' = [worker EXCEPT ![w] =
                          [phase |-> IF w \in Events \/ x.status = "RESUBMITTED"
                                     THEN "claim" ELSE "resubmit",
                           pub |-> x.pub, attempts |-> x.attempts,
                           batch |-> worker[w].batch \ {x}]]
        BY <2>2 DEF Take
      <3>2. x \in Observation /\ worker[w].batch \ {x} \in SUBSET Observation
        BY <2>1 DEF WorkerRecord
      <3>3. x.pub \in Publications /\ x.attempts \in Nat
        BY <3>2 DEF Observation
      <3>4. worker'[w] \in WorkerRecord
        BY <3>1, <3>2, <3>3 DEF TypeOK, WorkerRecord, Phases
      <3> QED
        BY <2>2, <3>1, <3>4 DEF Take, TypeOK
    <2>3. CASE MarkResubmitted(w)
      <3>1. worker[w].attempts + 1 \in Nat
        BY <2>1 DEF WorkerRecord
      <3>2. worker' \in [Workers -> WorkerRecord]
        BY <2>1, <2>3, <3>1, ProceedType DEF MarkResubmitted, TypeOK, WorkerRecord, Phases
      <3>3. row' \in [Publications -> RowRecord]
        <4>1. [status |-> "RESUBMITTED", attempts |-> worker[w].attempts + 1, old |-> FALSE]
                  \in RowRecord
          BY <3>1 DEF RowRecord, Statuses
        <4> QED
          BY <2>1, <2>3, <4>1 DEF MarkResubmitted, TypeOK
      <3> QED
        BY <2>3, <3>2, <3>3 DEF MarkResubmitted, TypeOK
    <2>4. CASE ClaimProcessing(w)
      <3>1. worker' \in [Workers -> WorkerRecord]
        BY <2>1, <2>4, ProceedType DEF ClaimProcessing, TypeOK, WorkerRecord, Phases
      <3>2. row' \in [Publications -> RowRecord]
        BY <2>1, <2>4, RowType DEF ClaimProcessing, TypeOK, Statuses
      <3> QED
        BY <2>4, <3>1, <3>2 DEF ClaimProcessing, TypeOK
    <2>5. CASE MarkFailed(w) \/ MarkCompleted(w)
      <3>1. row' \in [Publications -> RowRecord]
        BY <2>1, <2>5, RowType DEF MarkFailed, MarkCompleted, TypeOK, Statuses
      <3> QED
        BY <2>5, <3>1, ProceedType DEF MarkFailed, MarkCompleted, TypeOK
    <2>6. CASE ReadForArchive(w)
      BY <2>1, <2>6, ProceedType DEF ReadForArchive, TypeOK, WorkerRecord, Phases
    <2>7. CASE ArchiveAndDelete(w)
      <3>1. row' \in [Publications -> RowRecord]
        BY <2>1, <2>7, RowType DEF ArchiveAndDelete, TypeOK, Statuses
      <3>2. archive' \in [Publications -> Nat]
        BY <2>1, <2>7 DEF ArchiveAndDelete, Entry, TypeOK, WorkerRecord
      <3> QED
        BY <2>7, <3>1, <3>2, ProceedType DEF ArchiveAndDelete, TypeOK
    <2>8. CASE Deliver(w)
      BY <2>1, <2>8 DEF Deliver, TypeOK, WorkerRecord, Phases
    <2>9. CASE StatementFails(w)
      BY <2>9, ProceedType DEF StatementFails, TypeOK
    <2>10. CASE DeliverFails(w)
      BY <2>1, <2>10 DEF DeliverFails, TypeOK, WorkerRecord, Phases
    <2>11. CASE EndBatch(w) \/ Crash(w)
      BY <2>1, <2>11 DEF EndBatch, Crash, TypeOK
    <2> QED
      BY <1>4, <2>2, <2>3, <2>4, <2>5, <2>6, <2>7, <2>8, <2>9, <2>10, <2>11 DEF Working
  <1>5. CASE UNCHANGED vars
    BY <1>5 DEF vars, TypeOK
  <1> QED
    BY <1>1, <1>2, <1>3, <1>4, <1>5 DEF Next

\* Every reachable state is well-formed, for any number of instances.
THEOREM TypeCorrect == Spec => []TypeOK
  <1> QED
    BY InitType, NextType, PTL DEF Spec

-----------------------------------------------------------------------------
(* The fence holds.                                                        *)

\* No worker comes to hold a publication, or to settle one, in this step.
WorkersCalm ==
    \A v \in Workers :
        worker'[v].phase \in Holding =>
            /\ worker[v].phase \in Holding
            /\ worker'[v].pub = worker[v].pub /\ worker'[v].attempts = worker[v].attempts
            /\ worker'[v].phase \in {"complete", "archive"} =>
                 worker[v].phase \in {"complete", "archive"}

\* The table keeps its generations and statuses, except for rows that appear.
RowsCalm ==
    \A p \in Publications :
        \/ row'[p].status = row[p].status /\ row'[p].attempts = row[p].attempts
        \/ row[p].status = "ABSENT" /\ row'[p] = Seed

\* Going on to the next publication is calm.
LEMMA ProceedIsCalm ==
    ASSUME TypeOK, NEW w \in Workers, Proceed(w)
    PROVE  WorkersCalm
  BY ProceedType DEF WorkersCalm, Holding

\* A step that only lets rows appear keeps the invariant.
LEMMA CalmStep ==
    ASSUME TypeOK, FenceInv, WorkersCalm, RowsCalm, Unpublished',
           UNCHANGED <<archive, delivered>>
    PROVE  FenceInv'
  <1>1. \A v \in Workers : worker[v].pub \in Publications /\ worker[v].attempts \in Nat
    BY DEF TypeOK, WorkerRecord
  <1>2. \A p \in Publications : row[p].attempts \in Nat
    BY DEF TypeOK, RowRecord
  <1>3. Seeded'
    BY <1>2 DEF FenceInv, Seeded, RowsCalm, Seed
  <1>4. Fenced'
    BY <1>1 DEF FenceInv, Fenced, RowsCalm, WorkersCalm
  <1>5. Succeeded'
    <2> SUFFICES ASSUME NEW v \in Workers, worker'[v].phase \in {"complete", "archive"}
                 PROVE  worker'[v].attempts \in delivered'[worker'[v].pub]
      BY DEF Succeeded
    <2>1. worker'[v].phase \in Holding
      BY DEF Holding
    <2> QED
      BY <2>1 DEF FenceInv, Succeeded, WorkersCalm
  <1>6. OneHolderPerGeneration'
    BY DEF FenceInv, OneHolderPerGeneration, WorkersCalm
  <1>7. SettledByItsDelivery'
    BY DEF FenceInv, SettledByItsDelivery, RowsCalm, Seed, Settled
  <1>8. ArchivedOnceSettled'
    BY DEF FenceInv, ArchivedOnceSettled, RowsCalm, Seed
  <1> QED
    BY <1>3, <1>4, <1>5, <1>6, <1>7, <1>8 DEF FenceInv

\* A settlement by the holder of the row's generation keeps the invariant.
LEMMA SettlementStep ==
    ASSUME TypeOK, FenceInv, WorkersCalm,
           NEW w \in Workers, worker[w].phase \in Holding, GenerationCondition(w),
           NEW s \in {"FAILED", "COMPLETED", "REMOVED"},
           s \in Settled => worker[w].phase \in {"complete", "archive"},
           row' = [row EXCEPT ![worker[w].pub].status = s],
           archive' \in {archive, [archive EXCEPT ![worker[w].pub] = worker[w].attempts]},
           archive' # archive => s = "REMOVED",
           s = "REMOVED" => CompletionMode[w] = "DELETE"
                            \/ archive' = [archive EXCEPT ![worker[w].pub] = worker[w].attempts],
           UNCHANGED <<event, delivered>>
    PROVE  FenceInv'
  <1> DEFINE q == worker[w].pub
  <1>1. /\ q \in Publications /\ worker[w].attempts \in Nat
        /\ \A v \in Workers : worker[v].pub \in Publications /\ worker[v].attempts \in Nat
    BY DEF TypeOK, WorkerRecord
  <1>2. /\ row'[q].status = s
        /\ row[q].status = "PROCESSING" /\ row[q].attempts = worker[w].attempts
        /\ \A p \in Publications : /\ row'[p].attempts = row[p].attempts
                                   /\ p # q => row'[p] = row[p]
    BY <1>1 DEF GenerationCondition, TypeOK, RowRecord
  <1>3. \A p \in Publications : p # q => archive'[p] = archive[p]
    BY <1>1 DEF TypeOK
  <1>4. archive[q] = 0
    BY <1>1, <1>2 DEF FenceInv, ArchivedOnceSettled
  <1>5. Unpublished' /\ Seeded'
    BY <1>1, <1>2 DEF FenceInv, Unpublished, Seeded
  <1>6. Fenced'
    BY <1>1, <1>2 DEF FenceInv, Fenced, WorkersCalm
  <1>7. Succeeded'
    <2> SUFFICES ASSUME NEW v \in Workers, worker'[v].phase \in {"complete", "archive"}
                 PROVE  worker'[v].attempts \in delivered'[worker'[v].pub]
      BY DEF Succeeded
    <2>1. worker'[v].phase \in Holding
      BY DEF Holding
    <2> QED
      BY <2>1 DEF FenceInv, Succeeded, WorkersCalm
  <1>8. OneHolderPerGeneration'
    BY DEF FenceInv, OneHolderPerGeneration, WorkersCalm
  <1>9. SettledByItsDelivery'
    <2>1. s \in Settled => worker[w].attempts \in delivered[q]
      BY DEF FenceInv, Succeeded
    <2> QED
      BY <1>1, <1>2, <2>1 DEF FenceInv, SettledByItsDelivery
  <1>10. ArchivedOnceSettled'
    <2> SUFFICES ASSUME NEW p \in Publications
                 PROVE  /\ archive'[p] # 0 => row'[p].status = "REMOVED"
                                               /\ archive'[p] = row'[p].attempts
                        /\ row'[p].status = "REMOVED" =>
                             archive'[p] # 0 \/ \E v \in Workers : CompletionMode[v] = "DELETE"
      BY DEF ArchivedOnceSettled
    <2>1. CASE p # q
      BY <1>2, <1>3, <2>1 DEF FenceInv, ArchivedOnceSettled
    <2>2. CASE p = q
      <3>1. worker[w].attempts # 0
        BY <1>1, <1>2 DEF FenceInv, Seeded
      <3>2. archive' = [archive EXCEPT ![q] = worker[w].attempts]
              => archive'[q] = worker[w].attempts
        BY <1>1 DEF TypeOK
      <3> QED
        BY <1>1, <1>2, <1>4, <2>2, <3>1, <3>2
    <2> QED
      BY <2>1, <2>2
  <1> QED
    BY <1>5, <1>6, <1>7, <1>8, <1>9, <1>10 DEF FenceInv

\* Initially nothing is held, settled or archived.
LEMMA FenceInit == Init => FenceInv
  <1> SUFFICES ASSUME Init PROVE FenceInv
    OBVIOUS
  <1>1. \A w \in Workers : worker[w].phase = "idle"
    BY DEF Init, Between
  <1>2. \A p \in Publications : row[p].status = "ABSENT" /\ archive[p] = 0
    BY DEF Init
  <1> QED
    BY <1>1, <1>2
    DEF FenceInv, Unpublished, Seeded, Fenced, Succeeded, Holding, OneHolderPerGeneration,
        SettledByItsDelivery, ArchivedOnceSettled, Settled

\* Publishing lets rows appear where none were.
LEMMA PublishingIsCalm ==
    ASSUME TypeOK, FenceInv, NEW e \in Events, Publishing(e)
    PROVE  FenceInv'
  <1>1. WorkersCalm
    <2>1. CASE CommitPublish(e) \/ DiscardPublish(e) \/ FinishPublish(e)
      BY <2>1 DEF CommitPublish, DiscardPublish, FinishPublish, Dispatching, Between,
                  WorkersCalm, Holding, TypeOK, Workers
    <2> QED
      BY <2>1 DEF Publishing, BeginPublish, CommitPartial, RollbackPublish, CreateFails,
                  WorkersCalm
  <1>2. RowsCalm /\ Unpublished'
    <2>1. CASE CommitPublish(e)
      BY <2>1, PublicationFacts
      DEF CommitPublish, RowsCalm, FenceInv, Unpublished, TypeOK
    <2>2. CASE CommitPartial(e)
      <3>1. PICK stored \in SUBSET PublicationsOf(e) :
              row' = [p \in Publications |-> IF p \in stored THEN Seed ELSE row[p]]
        BY <2>2 DEF CommitPartial
      <3> QED
        BY <2>2, <3>1, PublicationFacts
        DEF CommitPartial, RowsCalm, FenceInv, Unpublished, TypeOK
    <2>3. CASE \E how \in PublishModes : BeginPublish(e, how)
      BY <2>3, PublicationFacts DEF BeginPublish, RowsCalm, FenceInv, Unpublished, TypeOK
    <2>4. CASE RollbackPublish(e) \/ DiscardPublish(e) \/ FinishPublish(e) \/ CreateFails(e)
      BY <2>4, PublicationFacts
      DEF RollbackPublish, DiscardPublish, FinishPublish, CreateFails,
          RowsCalm, FenceInv, Unpublished, TypeOK
    <2> QED
      BY <2>1, <2>2, <2>3, <2>4 DEF Publishing
  <1>3. UNCHANGED <<archive, delivered>>
    BY DEF Publishing, BeginPublish, CommitPublish, CommitPartial, RollbackPublish,
           DiscardPublish, FinishPublish, CreateFails
  <1> QED
    BY <1>1, <1>2, <1>3, CalmStep

\* A won resubmission: every holder of the row is left behind.
LEMMA MarkResubmittedFences ==
    ASSUME TypeOK, FenceInv, NEW w \in Workers, MarkResubmitted(w)
    PROVE  FenceInv'
  <1> DEFINE q == worker[w].pub
             next == worker[w].attempts + 1
  <1>1. /\ q \in Publications /\ worker[w].attempts \in Nat
        /\ \A v \in Workers : worker[v].pub \in Publications /\ worker[v].attempts \in Nat
    BY DEF TypeOK, WorkerRecord
  <1>2. CASE ResubmitCondition(w)
    <2>1. /\ row[q].status \in {"PUBLISHED", "PROCESSING", "FAILED"}
          /\ row[q].attempts = worker[w].attempts
          /\ row'[q].status = "RESUBMITTED" /\ row'[q].attempts = next
          /\ \A p \in Publications : p # q => row'[p] = row[p]
          /\ UNCHANGED <<event, archive, delivered>>
      BY <1>1, <1>2 DEF MarkResubmitted, ResubmitCondition, TypeOK
    <2>2. WorkersCalm /\ worker'[w].phase = "claim"
      BY <1>2 DEF MarkResubmitted, WorkersCalm, Holding, TypeOK, WorkerRecord
    <2>3. Unpublished' /\ Seeded'
      BY <1>1, <2>1 DEF FenceInv, Unpublished, Seeded
    <2>4. Fenced'
      BY <1>1, <2>1, <2>2 DEF FenceInv, Fenced, WorkersCalm
    <2>5. Succeeded'
      <3> SUFFICES ASSUME NEW v \in Workers, worker'[v].phase \in {"complete", "archive"}
                   PROVE  worker'[v].attempts \in delivered'[worker'[v].pub]
        BY DEF Succeeded
      <3>1. worker'[v].phase \in Holding
        BY DEF Holding
      <3> QED
        BY <2>1, <2>2, <3>1 DEF FenceInv, Succeeded, WorkersCalm
    <2>6. OneHolderPerGeneration'
      BY <2>2 DEF FenceInv, OneHolderPerGeneration, WorkersCalm
    <2>7. SettledByItsDelivery'
      BY <2>1 DEF FenceInv, SettledByItsDelivery, Settled
    <2>8. ArchivedOnceSettled'
      BY <2>1 DEF FenceInv, ArchivedOnceSettled
    <2> QED
      BY <2>3, <2>4, <2>5, <2>6, <2>7, <2>8 DEF FenceInv
  <1>3. CASE ~ResubmitCondition(w)
    BY <1>3, CalmStep, ProceedIsCalm
    DEF MarkResubmitted, RowsCalm, FenceInv, Unpublished
  <1> QED
    BY <1>2, <1>3

\* A won claim: nobody else holds the row at this generation.
LEMMA ClaimIsExclusive ==
    ASSUME TypeOK, FenceInv, NEW w \in Workers, ClaimProcessing(w)
    PROVE  FenceInv'
  <1> DEFINE q == worker[w].pub
  <1>1. /\ q \in Publications /\ worker[w].attempts \in Nat
        /\ \A v \in Workers : worker[v].pub \in Publications /\ worker[v].attempts \in Nat
    BY DEF TypeOK, WorkerRecord
  <1>2. CASE ClaimCondition(w)
    <2>1. /\ row[q].status \in {"PUBLISHED", "RESUBMITTED"}
          /\ row[q].attempts = worker[w].attempts
          /\ row'[q].status = "PROCESSING"
          /\ \A p \in Publications : /\ row'[p].attempts = row[p].attempts
                                     /\ p # q => row'[p] = row[p]
          /\ UNCHANGED <<event, archive, delivered>>
      <3>1. /\ row' = [row EXCEPT ![q] = [row[q] EXCEPT !.status = "PROCESSING", !.old = FALSE]]
            /\ UNCHANGED <<event, archive, delivered>>
        BY <1>2 DEF ClaimProcessing
      <3>2. row'[q] = [row[q] EXCEPT !.status = "PROCESSING", !.old = FALSE]
        BY <1>1, <3>1 DEF TypeOK
      <3>3. row[q] \in RowRecord
        BY <1>1 DEF TypeOK
      <3>4. row'[q].status = "PROCESSING" /\ row'[q].attempts = row[q].attempts
        BY <3>2, <3>3 DEF RowRecord
      <3>5. \A p \in Publications : p # q => row'[p] = row[p]
        BY <3>1 DEF TypeOK
      <3> QED
        BY <1>2, <3>1, <3>4, <3>5 DEF ClaimCondition
    <2>2. /\ worker'[w].phase = "run" /\ worker'[w].pub = q
          /\ worker'[w].attempts = worker[w].attempts
          /\ \A v \in Workers : v # w => worker'[v] = worker[v]
      BY <1>2 DEF ClaimProcessing, TypeOK, WorkerRecord
    <2>3. \A v \in Workers : worker[v].phase \in Holding /\ worker[v].pub = q
                             => worker[v].attempts # worker[w].attempts
      BY <2>1 DEF FenceInv, Fenced
    <2>4. Unpublished' /\ Seeded'
      BY <1>1, <2>1 DEF FenceInv, Unpublished, Seeded
    <2>5. Fenced'
      BY <1>1, <2>1, <2>2 DEF FenceInv, Fenced
    <2>6. Succeeded'
      BY <2>1, <2>2 DEF FenceInv, Succeeded
    <2>7. OneHolderPerGeneration'
      BY <2>2, <2>3 DEF FenceInv, OneHolderPerGeneration
    <2>8. SettledByItsDelivery'
      BY <2>1 DEF FenceInv, SettledByItsDelivery, Settled
    <2>9. ArchivedOnceSettled'
      BY <2>1 DEF FenceInv, ArchivedOnceSettled
    <2> QED
      BY <2>4, <2>5, <2>6, <2>7, <2>8, <2>9 DEF FenceInv
  <1>3. CASE ~ClaimCondition(w)
    BY <1>3, CalmStep, ProceedIsCalm
    DEF ClaimProcessing, RowsCalm, FenceInv, Unpublished
  <1> QED
    BY <1>2, <1>3

\* A success of the listener is recorded under the generation that ran it.
LEMMA DeliveryIsRecorded ==
    ASSUME TypeOK, FenceInv, NEW w \in Workers, Deliver(w)
    PROVE  FenceInv'
  <1>1. /\ worker[w].phase = "run" /\ worker[w].pub \in Publications
        /\ worker'[w].phase = "complete" /\ worker'[w].pub = worker[w].pub
        /\ worker'[w].attempts = worker[w].attempts
        /\ \A v \in Workers : v # w => worker'[v] = worker[v]
        /\ UNCHANGED <<event, row, archive>>
    BY DEF Deliver, TypeOK, WorkerRecord
  <1>2. /\ worker[w].attempts \in delivered'[worker[w].pub]
        /\ \A p \in Publications : delivered[p] \subseteq delivered'[p]
    BY <1>1 DEF Deliver, TypeOK
  <1>3. Fenced' /\ OneHolderPerGeneration'
    BY <1>1 DEF FenceInv, Fenced, OneHolderPerGeneration, Holding
  <1>4. Succeeded'
    <2>1. \A v \in Workers : worker[v].pub \in Publications
      BY DEF TypeOK, WorkerRecord
    <2> QED
      BY <1>1, <1>2, <2>1 DEF FenceInv, Succeeded
  <1>5. SettledByItsDelivery'
    BY <1>1, <1>2 DEF FenceInv, SettledByItsDelivery
  <1> QED
    BY <1>1, <1>3, <1>4, <1>5 DEF FenceInv, Unpublished, Seeded, ArchivedOnceSettled

\* The fence holds in every step.
LEMMA FenceNext == TypeOK /\ FenceInv /\ [Next]_vars => FenceInv'
  <1> SUFFICES ASSUME TypeOK, FenceInv, [Next]_vars PROVE FenceInv'
    OBVIOUS
  <1>1. ASSUME NEW e \in Events, Publishing(e)
        PROVE  FenceInv'
    BY <1>1, PublishingIsCalm
  <1>2. ASSUME NEW p \in Publications, Create(p) \/ Age(p)
        PROVE  FenceInv'
    <2>1. WorkersCalm /\ UNCHANGED <<event, archive, delivered>>
      BY <1>2 DEF Create, Age, WorkersCalm
    <2>2. CASE Create(p)
      BY <2>1, <2>2, CalmStep DEF Create, RowsCalm, TypeOK, FenceInv, Unpublished
    <2>3. CASE Age(p)
      <3>1. \A q \in Publications : /\ row'[q].status = row[q].status
                                    /\ row'[q].attempts = row[q].attempts
        BY <2>3 DEF Age, TypeOK, RowRecord
      <3> QED
        BY <2>1, <3>1, CalmStep DEF RowsCalm, FenceInv, Unpublished
    <2> QED
      BY <1>2, <2>2, <2>3
  <1>3. ASSUME NEW r \in Resubmitters, StartPass(r) \/ RecoverAll(r)
        PROVE  FenceInv'
    <2>1. r \in Workers
      BY DEF Workers
    <2>2. /\ worker'[r].phase = "batch"
          /\ \A v \in Workers : v # r => worker'[v] = worker[v]
          /\ UNCHANGED <<event, row, archive, delivered>>
      BY <1>3, <2>1 DEF StartPass, RecoverAll, Pass, Between, TypeOK
    <2> QED
      BY <2>2, CalmStep DEF WorkersCalm, Holding, RowsCalm, FenceInv, Unpublished
  <1>4. ASSUME NEW w \in Workers, Working(w) \/ Crash(w)
        PROVE  FenceInv'
    <2>1. /\ worker[w] \in WorkerRecord
          /\ worker[w].pub \in Publications /\ worker[w].attempts \in Nat
      BY DEF TypeOK, WorkerRecord
    <2>2. CASE UNCHANGED <<event, row, archive, delivered>> /\ WorkersCalm
      BY <2>2, CalmStep DEF RowsCalm, FenceInv, Unpublished
    <2>3. CASE Take(w)
      <3>1. /\ worker'[w].phase \notin Holding
            /\ \A v \in Workers : v # w => worker'[v] = worker[v]
        BY <2>3 DEF Take, TypeOK, Holding
      <3> QED
        BY <2>2, <2>3, <3>1 DEF Take, WorkersCalm
    <2>4. CASE EndBatch(w) \/ Crash(w)
      <3>1. /\ worker'[w].phase \notin Holding
            /\ \A v \in Workers : v # w => worker'[v] = worker[v]
        BY <2>4 DEF EndBatch, Crash, Between, TypeOK, Holding
      <3> QED
        BY <2>2, <2>4, <3>1 DEF EndBatch, Crash, WorkersCalm
    <2>5. CASE DeliverFails(w)
      <3>1. /\ worker[w].phase = "run" /\ worker'[w].phase = "fail"
            /\ worker'[w].pub = worker[w].pub /\ worker'[w].attempts = worker[w].attempts
            /\ \A v \in Workers : v # w => worker'[v] = worker[v]
        BY <2>5 DEF DeliverFails, TypeOK, WorkerRecord
      <3> QED
        BY <2>2, <2>5, <3>1 DEF DeliverFails, WorkersCalm, Holding
    <2>6. CASE StatementFails(w)
      BY <2>2, <2>6, ProceedIsCalm DEF StatementFails
    <2>7. CASE ReadForArchive(w)
      <3>1. CASE GenerationCondition(w)
        <4>1. /\ worker[w].phase = "complete" /\ worker'[w].phase = "archive"
              /\ worker'[w].pub = worker[w].pub /\ worker'[w].attempts = worker[w].attempts
              /\ \A v \in Workers : v # w => worker'[v] = worker[v]
          BY <2>7, <3>1 DEF ReadForArchive, TypeOK, WorkerRecord
        <4> QED
          BY <2>2, <2>7, <4>1 DEF ReadForArchive, WorkersCalm, Holding
      <3> QED
        BY <2>2, <2>7, <3>1, ProceedIsCalm DEF ReadForArchive
    <2>8. CASE MarkFailed(w)
      <3>1. CASE GenerationCondition(w)
        <4>1. WorkersCalm /\ worker[w].phase \in Holding
          BY <2>8, ProceedIsCalm DEF MarkFailed, Holding
        <4>2. /\ row' = [row EXCEPT ![worker[w].pub].status = "FAILED"]
              /\ UNCHANGED <<event, archive, delivered>>
          BY <2>8, <3>1 DEF MarkFailed
        <4> QED
          BY <3>1, <4>1, <4>2, SettlementStep DEF Settled
      <3> QED
        BY <2>2, <2>8, <3>1, ProceedIsCalm DEF MarkFailed
    <2>9. CASE MarkCompleted(w)
      <3>1. CASE GenerationCondition(w)
        <4> DEFINE s == IF CompletionMode[w] = "UPDATE" THEN "COMPLETED" ELSE "REMOVED"
        <4>1. WorkersCalm /\ worker[w].phase \in Holding \cap {"complete", "archive"}
          BY <2>9, ProceedIsCalm DEF MarkCompleted, Holding
        <4>2. /\ row' = [row EXCEPT ![worker[w].pub].status = s]
              /\ s \in {"FAILED", "COMPLETED", "REMOVED"}
              /\ s = "REMOVED" => CompletionMode[w] = "DELETE"
              /\ UNCHANGED <<event, archive, delivered>>
          BY <2>9, <3>1 DEF MarkCompleted
        <4> HIDE DEF s
        <4> QED
          BY <3>1, <4>1, <4>2, SettlementStep
      <3> QED
        BY <2>2, <2>9, <3>1, ProceedIsCalm DEF MarkCompleted
    <2>10. CASE ArchiveAndDelete(w)
      <3>1. CASE GenerationCondition(w)
        <4>1. WorkersCalm /\ worker[w].phase \in Holding \cap {"complete", "archive"}
          BY <2>10, ProceedIsCalm DEF ArchiveAndDelete, Holding
        <4>2. archive[worker[w].pub] = 0
          BY <2>1, <3>1 DEF FenceInv, ArchivedOnceSettled, GenerationCondition
        <4>3. /\ row' = [row EXCEPT ![worker[w].pub].status = "REMOVED"]
              /\ archive' = [archive EXCEPT ![worker[w].pub] = worker[w].attempts]
              /\ UNCHANGED <<event, delivered>>
          BY <2>10, <3>1, <4>2 DEF ArchiveAndDelete, Entry
        <4> QED
          BY <3>1, <4>1, <4>3, SettlementStep
      <3> QED
        BY <2>2, <2>10, <3>1, ProceedIsCalm DEF ArchiveAndDelete
    <2> QED
      BY <1>4, <2>3, <2>4, <2>5, <2>6, <2>7, <2>8, <2>9, <2>10,
         MarkResubmittedFences, ClaimIsExclusive, DeliveryIsRecorded
      DEF Working
  <1>5. CASE UNCHANGED vars
    BY <1>5, CalmStep DEF vars, WorkersCalm, RowsCalm, FenceInv, Unpublished
  <1> QED
    BY <1>1, <1>2, <1>3, <1>4, <1>5 DEF Next

\* The fencing invariant holds throughout.
LEMMA FenceHolds == Spec => []FenceInv
  <1> QED
    BY InitType, NextType, FenceInit, FenceNext, PTL DEF Spec

\* ClaimProcessing gives a generation to one dispatcher.
THEOREM ClaimsAreExclusive == Spec => []OneHolderPerGeneration
  <1>1. FenceInv => OneHolderPerGeneration
    BY DEF FenceInv
  <1> QED
    BY <1>1, FenceHolds, PTL

\* MarkCompleted settles a row for the generation that delivered it.
THEOREM SettlementIsFenced == Spec => []SettledByItsDelivery
  <1>1. FenceInv => SettledByItsDelivery
    BY DEF FenceInv
  <1> QED
    BY <1>1, FenceHolds, PTL

\* archive keeps the table and the archive in step.
THEOREM ArchiveIsAtomic == Spec => []ArchivedOnceSettled
  <1>1. FenceInv => ArchivedOnceSettled
    BY DEF FenceInv
  <1> QED
    BY <1>1, FenceHolds, PTL

-----------------------------------------------------------------------------
(* The table implements at-least-once delivery.                            *)

\* No item advances and none is accepted in this step.
Stutter == UNCHANGED <<Progress, Accepted>>

\* A step that leaves statuses and deliveries alone is invisible.
LEMMA StutterStep ==
    ASSUME \A p \in Publications : row'[p].status = row[p].status, UNCHANGED delivered
    PROVE  Stutter
  BY DEF Stutter, Progress, Accepted

\* Rows that appear are published items.
LEMMA RowsArePublished ==
    ASSUME NEW new \in SUBSET Publications,
           \A p \in new : row[p].status = "ABSENT" /\ row'[p].status = "PUBLISHED",
           \A p \in Publications \ new : row'[p].status = row[p].status,
           UNCHANGED delivered
    PROVE  Abstract!Publish(new)
  <1>1. \A p \in new : Progress[p] = "absent" /\ Progress'[p] = "pending"
    BY DEF Progress, Settled
  <1>2. \A p \in Publications \ new : Progress'[p] = Progress[p]
    BY DEF Progress
  <1>3. Progress' = [i \in Publications |-> IF i \in new THEN "pending" ELSE Progress[i]]
    <2>1. Progress' = [i \in Publications |-> Progress'[i]]
      BY DEF Progress
    <2>2. \A i \in Publications : Progress'[i] = IF i \in new THEN "pending" ELSE Progress[i]
      BY <1>1, <1>2
    <2> QED
      BY <2>1, <2>2
  <1> QED
    BY <1>1, <1>3 DEF Abstract!Publish, Accepted

\* A status set by the holder of the row's generation settles an accepted item,
\* or is invisible.
LEMMA SettlementIsAbstract ==
    ASSUME TypeOK, FenceInv, NEW w \in Workers, GenerationCondition(w),
           NEW s \in {"FAILED", "COMPLETED", "REMOVED"},
           s \in Settled => worker[w].phase \in {"complete", "archive"},
           row' = [row EXCEPT ![worker[w].pub].status = s],
           UNCHANGED delivered
    PROVE  Stutter \/ Abstract!Settle(worker[w].pub)
  <1> DEFINE q == worker[w].pub
  <1>1. /\ q \in Publications /\ row[q].status = "PROCESSING"
        /\ row'[q].status = s
        /\ \A p \in Publications : p # q => row'[p].status = row[p].status
    BY DEF TypeOK, WorkerRecord, RowRecord, GenerationCondition
  <1>2. CASE s \in Settled
    <2>1. q \in Accepted
      BY <1>1, <1>2 DEF FenceInv, Succeeded, Accepted
    <2>2. Progress[q] = "pending" /\ Progress'[q] = "done"
      BY <1>1, <1>2 DEF Progress, Settled
    <2>3. \A p \in Publications : p # q => Progress'[p] = Progress[p]
      BY <1>1 DEF Progress
    <2>4. Progress' = [Progress EXCEPT ![q] = "done"]
      BY <1>1, <2>2, <2>3 DEF Progress
    <2> QED
      BY <2>1, <2>2, <2>4 DEF Abstract!Settle, Accepted
  <1>3. CASE s \notin Settled
    <2>1. \A p \in Publications : Progress'[p] = Progress[p]
      BY <1>1, <1>3 DEF Progress, Settled
    <2> QED
      BY <2>1 DEF Stutter, Progress, Accepted
  <1> QED
    BY <1>2, <1>3

\* A success of the listener accepts a published item.
LEMMA DeliveryIsAbstract ==
    ASSUME TypeOK, FenceInv, NEW w \in Workers, Deliver(w)
    PROVE  Abstract!Accept(worker[w].pub)
  <1> DEFINE q == worker[w].pub
  <1>1. q \in Publications /\ worker[w].phase \in Holding
    BY DEF Deliver, Holding, TypeOK, WorkerRecord
  <1>2. Progress[q] # "absent"
    BY <1>1 DEF FenceInv, Fenced, Progress
  <1>3. Accepted' = Accepted \cup {q}
    BY <1>1 DEF Deliver, Accepted, TypeOK
  <1>4. UNCHANGED Progress
    BY DEF Deliver, Progress
  <1> QED
    BY <1>2, <1>3, <1>4 DEF Abstract!Accept

\* A step of a worker is a step of the promise or invisible.
LEMMA WorkingIsAbstract ==
    ASSUME TypeOK, FenceInv, NEW w \in Workers, Working(w) \/ Crash(w)
    PROVE  Stutter \/ Abstract!Next
  <1>1. worker[w].pub \in Publications
    BY DEF TypeOK, WorkerRecord
  <1>2. (\E p \in Publications : Abstract!Accept(p) \/ Abstract!Settle(p)) => Abstract!Next
    BY DEF Abstract!Next
  <1>3. CASE UNCHANGED <<row, delivered>>
    BY <1>3, StutterStep
  <1>4. CASE MarkResubmitted(w)
    <2>1. CASE ResubmitCondition(w)
      <3>1. /\ row[worker[w].pub].status \in {"PUBLISHED", "PROCESSING", "FAILED"}
            /\ row'[worker[w].pub].status = "RESUBMITTED"
            /\ \A p \in Publications : p # worker[w].pub => row'[p] = row[p]
            /\ UNCHANGED delivered
        BY <1>1, <1>4, <2>1 DEF MarkResubmitted, ResubmitCondition, TypeOK
      <3>2. \A p \in Publications : Progress'[p] = Progress[p]
        BY <3>1 DEF Progress, Settled
      <3> QED
        BY <3>1, <3>2 DEF Stutter, Progress, Accepted
    <2> QED
      BY <1>3, <1>4, <2>1 DEF MarkResubmitted
  <1>5. CASE ClaimProcessing(w)
    <2>1. CASE ClaimCondition(w)
      <3>1. /\ row[worker[w].pub].status \in {"PUBLISHED", "RESUBMITTED"}
            /\ row'[worker[w].pub].status = "PROCESSING"
            /\ \A p \in Publications : p # worker[w].pub => row'[p] = row[p]
            /\ UNCHANGED delivered
        <4> DEFINE claimed == [row[worker[w].pub] EXCEPT !.status = "PROCESSING", !.old = FALSE]
        <4>1. row' = [row EXCEPT ![worker[w].pub] = claimed] /\ UNCHANGED delivered
          BY <1>5, <2>1 DEF ClaimProcessing
        <4>2. row[worker[w].pub] \in RowRecord
          BY <1>1 DEF TypeOK
        <4>3. claimed.status = "PROCESSING"
          BY <4>2 DEF RowRecord
        <4> HIDE DEF claimed
        <4> QED
          BY <1>1, <2>1, <4>1, <4>3 DEF ClaimCondition, TypeOK
      <3>2. \A p \in Publications : Progress'[p] = Progress[p]
        BY <3>1 DEF Progress, Settled
      <3> QED
        BY <3>1, <3>2 DEF Stutter, Progress, Accepted
    <2> QED
      BY <1>3, <1>5, <2>1 DEF ClaimProcessing
  <1>6. CASE Deliver(w)
    BY <1>1, <1>2, <1>6, DeliveryIsAbstract
  <1>7. CASE MarkFailed(w)
    <2>1. CASE GenerationCondition(w)
      BY <1>1, <1>2, <1>7, <2>1, SettlementIsAbstract DEF MarkFailed, Settled
    <2> QED
      BY <1>3, <1>7, <2>1 DEF MarkFailed
  <1>8. CASE MarkCompleted(w)
    <2>1. CASE GenerationCondition(w)
      <3> DEFINE s == IF CompletionMode[w] = "UPDATE" THEN "COMPLETED" ELSE "REMOVED"
      <3>1. /\ row' = [row EXCEPT ![worker[w].pub].status = s]
            /\ s \in {"FAILED", "COMPLETED", "REMOVED"}
            /\ worker[w].phase \in {"complete", "archive"}
            /\ UNCHANGED delivered
        BY <1>8, <2>1 DEF MarkCompleted
      <3> HIDE DEF s
      <3> QED
        BY <1>1, <1>2, <2>1, <3>1, SettlementIsAbstract
    <2> QED
      BY <1>3, <1>8, <2>1 DEF MarkCompleted
  <1>9. CASE ArchiveAndDelete(w)
    <2>1. CASE GenerationCondition(w)
      BY <1>1, <1>2, <1>9, <2>1, SettlementIsAbstract DEF ArchiveAndDelete
    <2> QED
      BY <1>3, <1>9, <2>1 DEF ArchiveAndDelete
  <1>10. CASE \/ Take(w) \/ EndBatch(w) \/ DeliverFails(w) \/ ReadForArchive(w)
              \/ StatementFails(w) \/ Crash(w)
    BY <1>3, <1>10 DEF Take, EndBatch, DeliverFails, ReadForArchive, StatementFails, Crash
  <1> QED
    BY <1>4, <1>5, <1>6, <1>7, <1>8, <1>9, <1>10 DEF Working

\* A publishing step publishes items or is invisible.
LEMMA PublishingIsAbstract ==
    ASSUME TypeOK, FenceInv, NEW e \in Events, Publishing(e)
    PROVE  Stutter \/ Abstract!Next
  <1>1. \A new \in SUBSET Publications : Abstract!Publish(new) => Abstract!Next
    BY DEF Abstract!Next
  <1>2. CASE CommitPublish(e) \/ CommitPartial(e)
    <2>1. PICK new \in SUBSET PublicationsOf(e) :
            /\ row' = [p \in Publications |-> IF p \in new THEN Seed ELSE row[p]]
            /\ UNCHANGED delivered
      <3>1. CASE CommitPublish(e)
        <4>1. \A p \in Publications : p \in PublicationsOf(e) <=> p[1] = e
          BY DEF Publications, PublicationsOf
        <4>2. row' = [p \in Publications |-> IF p \in PublicationsOf(e) THEN Seed ELSE row[p]]
          BY <3>1, <4>1 DEF CommitPublish
        <4> QED
          BY <3>1, <4>2 DEF CommitPublish
      <3>2. CASE CommitPartial(e)
        BY <3>2 DEF CommitPartial
      <3> QED
        BY <1>2, <3>1, <3>2
    <2>2. new \in SUBSET Publications /\ \A p \in new : p[1] = e
      BY <2>1, PublicationFacts
    <2>3. event[e] = "open"
      BY <1>2 DEF CommitPublish, CommitPartial
    <2>4. \A p \in new : row[p].status = "ABSENT" /\ row'[p].status = "PUBLISHED"
      BY <2>1, <2>2, <2>3 DEF FenceInv, Unpublished, Seed
    <2>5. \A p \in Publications \ new : row'[p].status = row[p].status
      BY <2>1
    <2> QED
      BY <1>1, <2>1, <2>2, <2>4, <2>5, RowsArePublished
  <1> QED
    BY <1>2, StutterStep
    DEF Publishing, BeginPublish, RollbackPublish, DiscardPublish, FinishPublish, CreateFails

\* Creating a row without a transaction publishes one item; ageing is invisible.
LEMMA CreateIsAbstract ==
    ASSUME TypeOK, NEW p \in Publications, Create(p) \/ Age(p)
    PROVE  Stutter \/ Abstract!Next
  <1>1. CASE Create(p)
    <2>1. /\ row[p].status = "ABSENT" /\ row'[p].status = "PUBLISHED"
          /\ \A q \in Publications \ {p} : row'[q].status = row[q].status
          /\ UNCHANGED delivered
      BY <1>1 DEF Create, Seed, TypeOK
    <2>2. Abstract!Publish({p})
      BY <2>1, RowsArePublished
    <2> QED
      BY <2>2 DEF Abstract!Next
  <1>2. CASE Age(p)
    <2>1. \A q \in Publications : row'[q].status = row[q].status
      BY <1>2 DEF Age, TypeOK, RowRecord
    <2> QED
      BY <1>2, <2>1, StutterStep DEF Age
  <1> QED
    BY <1>1, <1>2

\* Every step is a step of the promise or invisible.
LEMMA NextIsAbstract == TypeOK /\ FenceInv /\ [Next]_vars => Stutter \/ Abstract!Next
  <1> SUFFICES ASSUME TypeOK, FenceInv, [Next]_vars PROVE Stutter \/ Abstract!Next
    OBVIOUS
  <1>1. ASSUME NEW r \in Resubmitters, StartPass(r) \/ RecoverAll(r)
        PROVE  Stutter
    BY <1>1, StutterStep DEF StartPass, RecoverAll, Pass
  <1>2. CASE UNCHANGED vars
    BY <1>2, StutterStep DEF vars
  <1> QED
    BY <1>1, <1>2, PublishingIsAbstract, CreateIsAbstract, WorkingIsAbstract DEF Next

\* The outbox implements at-least-once delivery: publications appear with their
\* commit, listeners run for committed publications only, and a publication is
\* settled after a delivery of it and stays settled.
THEOREM OutboxImplementsAtLeastOnce == Spec => ImplementsAtLeastOnce
  <1>1. Init => Abstract!Init
    <2> SUFFICES ASSUME Init PROVE Abstract!Init
      OBVIOUS
    <2>1. \A p \in Publications : row[p].status = "ABSENT" /\ delivered[p] = {}
      BY DEF Init
    <2>2. Progress = [p \in Publications |-> "absent"] /\ Accepted = {}
      BY <2>1 DEF Progress, Accepted, Settled
    <2> QED
      BY <2>2 DEF Abstract!Init
  <1>2. TypeOK /\ FenceInv /\ [Next]_vars => [Abstract!Next]_<<Progress, Accepted>>
    BY NextIsAbstract DEF Stutter
  <1>3. Spec => Abstract!Spec
    BY <1>1, <1>2, InitType, NextType, FenceInit, FenceNext, PTL DEF Spec, Abstract!Spec
  <1> QED
    BY <1>3 DEF ImplementsAtLeastOnce
=============================================================================
