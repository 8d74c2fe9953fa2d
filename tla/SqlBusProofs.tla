---------------------------- MODULE SqlBusProofs ----------------------------
(***************************************************************************)
(* Proofs about SqlBus for every set of nodes and messages, every clock    *)
(* skew the grace covers, and every value of the other parameters.         *)
(***************************************************************************)
EXTENDS SqlBus, TLAPS

\* A worker between two dispatches is a well-formed worker.
LEMMA RestingType ==
    ASSUME NEW phase \in Phases, NEW due \in SUBSET Work
    PROVE  Resting(phase, due) \in WorkerRecord
  <1>1. (CHOOSE m \in Messages : TRUE) \in Messages
    BY MessagesAssumption
  <1> QED
    BY <1>1 DEF Resting, WorkerRecord

\* A clock reading of a node is an integer.
LEMMA ClockType ==
    ASSUME TypeOK, NEW n \in Nodes
    PROVE  Clock(n) \in Nat /\ Ceiling(n) \in Int
  BY TimesAssumption DEF TypeOK, Clock, Ceiling

\* The process of a worker is a node.
LEMMA HomeType ==
    ASSUME NEW w \in Workers
    PROVE  Home(w) \in Nodes
  BY NodesAssumption DEF Workers, Home

\* The entry the publisher puts into its fast path is well-formed.
LEMMA FastPathType ==
    ASSUME TypeOK, NEW m \in Messages, NEW keys \in BOOLEAN
    PROVE  FastPath(m, keys) \in WorkerRecord
  <1>1. {[msg |-> m, attempts |-> 0]} \in SUBSET Work
    BY DEF Work
  <1>2. Resting("batch", {[msg |-> m, attempts |-> 0]}) \in WorkerRecord
    BY <1>1, RestingType DEF Phases
  <1> QED
    BY <1>2 DEF FastPath, TypeOK, WorkerRecord, Workers


\* A message whose state is set stays a message.
LEMMA MessageUpdate ==
    ASSUME NEW r \in MessageRecord, NEW s \in MessageStates
    PROVE  [r EXCEPT !.state = s] \in MessageRecord
  BY DEF MessageRecord

\* Inserting a delivery row keeps it well-formed.
LEMMA InsertedType ==
    ASSUME NEW r \in DeliveryRecord
    PROVE  Inserted(r) \in DeliveryRecord
  BY DEF Inserted, DeliveryRecord, Statuses, Incomplete

\* Setting the status, the attempts and the next attempt date keeps a row
\* well-formed.
LEMMA ResetType ==
    ASSUME NEW r \in DeliveryRecord, NEW a \in Nat, NEW t \in Int,
           NEW s \in Statuses
    PROVE  [r EXCEPT !.status = s, !.attempts = a, !.nextDate = t] \in DeliveryRecord
  BY DEF DeliveryRecord

\* Initially the state is well-formed.
LEMMA InitType == Init => TypeOK
  <1> SUFFICES ASSUME Init PROVE TypeOK
    OBVIOUS
  <1>1. Resting("idle", {}) \in WorkerRecord
    BY RestingType DEF Phases
  <1>2. [state |-> "none", date |-> 0, local |-> FALSE] \in MessageRecord
    BY DEF MessageRecord, MessageStates
  <1>3. consumer \in ConsumerRecord
    BY DEF Init, ConsumerRecord
  <1>4. ASSUME NEW m \in Messages
        PROVE  [status |-> "ABSENT", attempts |-> 0, token |-> m,
                claimDate |-> 0, nextDate |-> 0] \in DeliveryRecord
    BY DEF DeliveryRecord, Statuses, Workers
  <1> QED
    BY <1>1, <1>2, <1>3, <1>4 DEF Init, TypeOK

\* Every step keeps the state well-formed.
LEMMA NextType == TypeOK /\ [Next]_vars => TypeOK'
  <1> SUFFICES ASSUME TypeOK, [Next]_vars PROVE TypeOK'
    OBVIOUS
  <1>0. /\ \A n \in Nodes : Clock(n) \in Nat /\ Ceiling(n) \in Int
        /\ \A w \in Workers : Home(w) \in Nodes
    BY ClockType, HomeType
  <1>1. ASSUME NEW m \in Messages, NEW how \in PublishModes, BeginPublish(m, how)
        PROVE  TypeOK'
    <2>1. Publisher[m] \in Nodes /\ how \in MessageStates
      BY NodesAssumption, PolicyAssumption DEF MessageStates
    <2>2. [state |-> how, date |-> Clock(Publisher[m]),
           local |-> Publisher[m] \in attached] \in MessageRecord
      <3>1. (Publisher[m] \in attached) \in BOOLEAN
        OBVIOUS
      <3>2. Clock(Publisher[m]) \in Int
        BY <1>0, <2>1
      <3> QED
        BY <2>1, <3>1, <3>2, Zenon DEF MessageRecord
    <2> QED
      BY <1>1, <2>2 DEF BeginPublish, TypeOK
  <1>2. ASSUME NEW m \in Messages, CommitPublish(m)
        PROVE  TypeOK'
    <2>1. /\ [msg[m] EXCEPT !.state = "visible"] \in MessageRecord
          /\ Inserted(delivery[m]) \in DeliveryRecord
      BY MessageUpdate, InsertedType DEF TypeOK, MessageStates
    <2>2. msg[m].local \in BOOLEAN
      BY DEF TypeOK, MessageRecord
    <2>3. FastPath(m, msg[m].local) \in WorkerRecord
      BY <2>2, FastPathType
    <2> QED
      BY <1>2, <2>1, <2>3 DEF CommitPublish, TypeOK
  <1>3. ASSUME NEW m \in Messages, RollbackPublish(m) \/ StoreMessage(m) \/ StoreDeliveriesFails(m)
        PROVE  TypeOK'
    <2>1. /\ [msg[m] EXCEPT !.state = "visible"] \in MessageRecord
          /\ [msg[m] EXCEPT !.state = "stored"] \in MessageRecord
          /\ [msg[m] EXCEPT !.state = "lost"] \in MessageRecord
      BY MessageUpdate DEF TypeOK, MessageStates
    <2> QED
      BY <1>3, <2>1 DEF RollbackPublish, StoreMessage, StoreDeliveriesFails, TypeOK
  <1>4. ASSUME NEW m \in Messages, DiscardPublish(m)
        PROVE  TypeOK'
    <2>1. [msg[m] EXCEPT !.state = "lost"] \in MessageRecord
      BY MessageUpdate DEF TypeOK, MessageStates
    <2>2. msg[m].local \in BOOLEAN
      BY DEF TypeOK, MessageRecord
    <2>3. FastPath(m, msg[m].local) \in WorkerRecord
      BY <2>2, FastPathType
    <2> QED
      BY <1>4, <2>1, <2>3 DEF DiscardPublish, TypeOK
  <1>5. ASSUME NEW m \in Messages, StoreDeliveries(m)
        PROVE  TypeOK'
    <2> DEFINE local == Publisher[m] \in attached
               stored == [msg[m] EXCEPT !.state = "visible", !.local = local]
    <2>1. local \in BOOLEAN
      OBVIOUS
    <2>2. FastPath(m, local) \in WorkerRecord
      BY <2>1, FastPathType
    <2>3. Inserted(delivery[m]) \in DeliveryRecord
      BY InsertedType DEF TypeOK
    <2>4. /\ msg' = [msg EXCEPT ![m] = stored]
          /\ delivery' = IF local THEN [delivery EXCEPT ![m] = Inserted(delivery[m])]
                                  ELSE delivery
          /\ worker' = [worker EXCEPT ![m] = FastPath(m, local)]
          /\ UNCHANGED <<now, consumer, attached>>
      BY <1>5 DEF StoreDeliveries
    <2>5. stored \in MessageRecord
      <3>1. msg[m] \in MessageRecord
        BY DEF TypeOK
      <3> HIDE DEF local
      <3> QED
        BY <2>1, <3>1 DEF MessageRecord, MessageStates
    <2> HIDE DEF local, stored
    <2> QED
      BY <2>2, <2>3, <2>4, <2>5 DEF TypeOK
  <1>6. ASSUME NEW m \in Messages, ResubmitDelivery(m)
        PROVE  TypeOK'
    <2>1. delivery[m] \in DeliveryRecord
      BY DEF TypeOK
    <2>2. [delivery[m] EXCEPT !.status = "PENDING", !.attempts = 0, !.nextDate = 0]
          \in DeliveryRecord
      <3>1. "PENDING" \in Statuses /\ 0 \in Nat /\ 0 \in Int
        BY DEF Statuses, Incomplete
      <3> QED
        BY <2>1, <3>1, ResetType
    <2> QED
      BY <1>6, <2>2 DEF ResubmitDelivery, TypeOK
  <1>7. ASSUME NEW n \in Hosts, Attach(n)
        PROVE  TypeOK'
    <2>1. \A ordering \in Orderings :
            [registered |-> TRUE, ordering |-> ordering, boundary |-> Ceiling(n),
             frontier |-> Ceiling(n)] \in ConsumerRecord
      BY <1>0, NodesAssumption, PolicyAssumption DEF ConsumerRecord
    <2> QED
      BY <1>7, <2>1 DEF Attach, TypeOK
  <1>8. ASSUME NEW n \in Hosts, StartPass(n)
        PROVE  TypeOK'
    <2>1. n \in Workers /\ Ceiling(n) \in Int
      BY <1>0, NodesAssumption DEF Workers
    <2>2. [worker[n] EXCEPT !.phase = "materialize", !.clock = Ceiling(n)] \in WorkerRecord
      BY <2>1 DEF TypeOK, WorkerRecord, Phases
    <2> QED
      BY <1>8, <2>2 DEF StartPass, TypeOK
  <1>9. ASSUME NEW n \in Hosts, MaterializeDeliveries(n)
        PROVE  TypeOK'
    <2>1. n \in Workers
      BY NodesAssumption DEF Workers
    <2>2. [worker[n] EXCEPT !.phase = "advance"] \in WorkerRecord
      BY <2>1 DEF TypeOK, WorkerRecord, Phases
    <2>3. \A m \in Messages : Inserted(delivery[m]) \in DeliveryRecord
      BY InsertedType DEF TypeOK
    <2> QED
      BY <1>9, <2>2, <2>3 DEF MaterializeDeliveries, TypeOK
  <1>10. ASSUME NEW n \in Hosts, AdvanceFrontier(n)
         PROVE  TypeOK'
    <2>1. Resting("find", {}) \in WorkerRecord
      BY RestingType DEF Phases
    <2>2. worker[n].clock \in Int
      BY NodesAssumption DEF TypeOK, WorkerRecord, Workers
    <2>3. [consumer EXCEPT !.frontier = worker[n].clock] \in ConsumerRecord
      BY <2>2 DEF TypeOK, ConsumerRecord
    <2> QED
      BY <1>10, <2>1, <2>3 DEF AdvanceFrontier, TypeOK
  <1>11. ASSUME NEW n \in Hosts, AbortPass(n)
         PROVE  TypeOK'
    <2>1. Resting("idle", {}) \in WorkerRecord
      BY RestingType DEF Phases
    <2> QED
      BY <1>11, <2>1 DEF AbortPass, TypeOK
  <1>12. ASSUME NEW n \in Hosts, FindDueDeliveries(n)
         PROVE  TypeOK'
    <2> DEFINE found == FirstOf(Claimable(Clock(n)))
               entries == {[msg |-> m, attempts |-> delivery[m].attempts] : m \in found}
               phase == IF found = {} THEN "idle" ELSE "batch"
    <2>1. found \subseteq Messages
      BY DEF FirstOf, Claimable
    <2>2. \A m \in Messages : delivery[m].attempts \in Nat
      BY DEF TypeOK, DeliveryRecord
    <2>3. entries \in SUBSET Work /\ phase \in Phases
      BY <2>1, <2>2 DEF Work, Phases
    <2>4. Resting(phase, entries) \in WorkerRecord
      BY <2>3, RestingType
    <2>5. worker' = [worker EXCEPT ![n] = Resting(phase, entries)]
      BY <1>12 DEF FindDueDeliveries
    <2> HIDE DEF found, entries, phase
    <2> QED
      BY <1>12, <2>4, <2>5 DEF FindDueDeliveries, TypeOK
  <1>13. ASSUME NEW w \in Workers, EndBatch(w)
         PROVE  TypeOK'
    <2>1. PICK phase \in {"find", "idle"} :
              worker' = [worker EXCEPT ![w] = Resting(phase, {})]
      BY <1>13 DEF EndBatch
    <2>2. Resting(phase, {}) \in WorkerRecord
      BY RestingType DEF Phases
    <2> QED
      BY <1>13, <2>1, <2>2 DEF EndBatch, TypeOK
  <1>14. ASSUME NEW w \in Workers, Dispatch(w)
         PROVE  TypeOK'
    <2>1. PICK x \in worker[w].due :
              worker' = [worker EXCEPT ![w] =
                          [phase |-> "claim", msg |-> x.msg,
                           attempts |-> x.attempts, clock |-> Clock(Home(w)),
                           due |-> worker[w].due \ {x}]]
      BY <1>14 DEF Dispatch
    <2>2. x \in Work /\ worker[w].due \in SUBSET Work
      BY DEF TypeOK, WorkerRecord
    <2>3. Clock(Home(w)) \in Int
      BY <1>0
    <2>4. x.msg \in Messages /\ x.attempts \in Nat
      BY <2>2 DEF Work
    <2>5. [phase |-> "claim", msg |-> x.msg, attempts |-> x.attempts,
           clock |-> Clock(Home(w)), due |-> worker[w].due \ {x}] \in WorkerRecord
      BY <2>2, <2>3, <2>4 DEF WorkerRecord, Phases
    <2> QED
      BY <1>14, <2>1, <2>5 DEF Dispatch, TypeOK
  <1>15. ASSUME NEW w \in Workers,
                ClaimDelivery(w) \/ ClaimDeliveryInOrder(w)
                \/ SnapshotInOrder(w) \/ WriteInOrder(w)
         PROVE  TypeOK'
    <2>1. UNCHANGED <<now, msg, consumer, attached>>
      BY <1>15 DEF ClaimDelivery, ClaimDeliveryInOrder, SnapshotInOrder, WriteInOrder
    <2>2. worker[w] \in WorkerRecord
      BY DEF TypeOK
    <2>3. CASE Claimed(w)
      <3>1. worker[w].msg \in Messages /\ worker[w].attempts + 1 \in Nat
            /\ worker[w].clock \in Int
        BY <2>2 DEF WorkerRecord
      <3>2. [delivery[worker[w].msg] EXCEPT !.status = "PROCESSING", !.token = w,
                                            !.claimDate = worker[w].clock,
                                            !.attempts = worker[w].attempts + 1]
            \in DeliveryRecord
        BY <3>1 DEF TypeOK, DeliveryRecord, Statuses, Incomplete
      <3>3. [worker[w] EXCEPT !.phase = "run"] \in WorkerRecord
        BY <2>2 DEF WorkerRecord, Phases
      <3> QED
        BY <2>1, <2>3, <3>1, <3>2, <3>3 DEF Claimed, TypeOK
    <2>4. CASE NotClaimed(w)
      <3>1. Resting("batch", worker[w].due) \in WorkerRecord
        BY <2>2, RestingType DEF WorkerRecord, Phases
      <3> QED
        BY <2>1, <2>4, <3>1 DEF NotClaimed, TypeOK
    <2>5. CASE worker' = [worker EXCEPT ![w].phase = "write"] /\ UNCHANGED delivery
      <3>1. [worker[w] EXCEPT !.phase = "write"] \in WorkerRecord
        BY <2>2 DEF WorkerRecord, Phases
      <3> QED
        BY <2>1, <2>5, <3>1 DEF TypeOK
    <2> QED
      BY <1>15, <2>3, <2>4, <2>5
      DEF ClaimDelivery, ClaimDeliveryInOrder, SnapshotInOrder, WriteInOrder
  <1>16. ASSUME NEW w \in Workers, CompleteDelivery(w) \/ FailDelivery(w) \/ Abandon(w)
         PROVE  TypeOK'
    <2>1. worker[w] \in WorkerRecord /\ worker[w].msg \in Messages
      BY DEF TypeOK, WorkerRecord
    <2>2. Resting("batch", worker[w].due) \in WorkerRecord
      BY <2>1, RestingType DEF WorkerRecord, Phases
    <2>3. worker' = [worker EXCEPT ![w] = Resting("batch", worker[w].due)]
      BY <1>16 DEF CompleteDelivery, FailDelivery, Abandon
    <2>4. UNCHANGED <<now, msg, consumer, attached>>
      BY <1>16 DEF CompleteDelivery, FailDelivery, Abandon
    <2>5. CASE CompleteDelivery(w)
      <3>1. [delivery[worker[w].msg] EXCEPT !.status = "COMPLETED"] \in DeliveryRecord
        BY <2>1 DEF TypeOK, DeliveryRecord, Statuses
      <3> QED
        BY <2>2, <2>3, <2>4, <2>5, <3>1 DEF CompleteDelivery, TypeOK
    <2>6. CASE FailDelivery(w)
      <3> DEFINE status == IF worker[w].attempts + 1 >= MaxAttempts
                           THEN "EXHAUSTED" ELSE "FAILED"
      <3>1. PICK delay \in RetryDelays :
              delivery' = IF SettlementCondition(w)
                     THEN [delivery EXCEPT ![worker[w].msg] =
                             [delivery[worker[w].msg] EXCEPT
                                !.status = status,
                                !.nextDate = Clock(Home(w)) + delay]]
                     ELSE delivery
        BY <2>6 DEF FailDelivery
      <3>2. Clock(Home(w)) + delay \in Int
        BY <1>0, TimesAssumption
      <3>3. status \in Statuses
        BY DEF Statuses, Incomplete
      <3> HIDE DEF status
      <3>4. [delivery[worker[w].msg] EXCEPT !.status = status,
                !.nextDate = Clock(Home(w)) + delay] \in DeliveryRecord
        BY <2>1, <3>2, <3>3 DEF TypeOK, DeliveryRecord
      <3> QED
        BY <2>2, <2>3, <2>4, <3>1, <3>4 DEF TypeOK
    <2>7. CASE Abandon(w)
      BY <2>2, <2>3, <2>4, <2>7 DEF Abandon, TypeOK
    <2> QED
      BY <1>16, <2>5, <2>6, <2>7
  <1>17. ASSUME NEW n \in Faulty, Crash(n)
         PROVE  TypeOK'
    <2>1. Resting("idle", {}) \in WorkerRecord
      BY RestingType DEF Phases
    <2>2. msg' \in [Messages -> MessageRecord]
      <3>1. ASSUME NEW m \in Messages
            PROVE  msg'[m] \in MessageRecord
        BY <1>17, MessageUpdate DEF Crash, TypeOK, MessageStates, MessageRecord
      <3> QED
        BY <1>17, <3>1 DEF Crash
    <2> QED
      BY <1>17, <2>1, <2>2 DEF Crash, TypeOK
  <1>18. CASE Tick
    BY <1>18 DEF Tick, TypeOK
  <1>19. CASE UNCHANGED vars
    BY <1>19 DEF vars, TypeOK
  <1> QED
    BY <1>1, <1>2, <1>3, <1>4, <1>5, <1>6, <1>7, <1>8, <1>9, <1>10, <1>11, <1>12,
       <1>13, <1>14, <1>15, <1>16, <1>17, <1>18, <1>19
    DEF Next, Publication, Pass, Delivering

\* Type correctness of the bus.
THEOREM TypeCorrect == Spec => []TypeOK
  BY InitType, NextType, PTL DEF Spec

-----------------------------------------------------------------------------
(***************************************************************************)
(* The frontier.  FrontierComplete is not inductive: AdvanceFrontier may   *)
(* only raise the frontier to a ceiling below which the scan left no gap,  *)
(* and that stays true between the two statements only because no          *)
(* publication still open is dated below the ceiling.                      *)
(***************************************************************************)

\* Every frontier, and every ceiling a pass carries, is so far back that no open
\* publication is dated below it, on any clock.
Behind(t) == \A n \in Nodes : t <= Clock(n) - MaxTx

\* Below date t, from the start boundary on, every visible message has its row.
CompleteBelow(t) ==
    \A m \in Messages :
        Visible(m) /\ consumer.boundary <= msg[m].date /\ msg[m].date < t
        => delivery[m].status # "ABSENT"

\* A host is attached, or runs a pass, only for a registered consumer.
RegisteredFirst ==
    /\ attached # {} => consumer.registered
    /\ \A n \in Nodes : worker[n].phase \in {"materialize", "advance"}
                        => consumer.registered

\* An open publication was dated at most MaxTx ago.
OpenIsRecent ==
    \A m \in Messages :
        msg[m].state \in {"open", "auto"} => Clock(Publisher[m]) - MaxTx <= msg[m].date

CeilingsBehind ==
    /\ consumer.registered => Behind(consumer.frontier)
    /\ \A n \in Nodes : worker[n].phase \in {"materialize", "advance"}
                        => Behind(worker[n].clock)

ScannedBelow ==
    /\ consumer.registered => CompleteBelow(consumer.frontier)
    /\ \A n \in Nodes : worker[n].phase = "advance" => CompleteBelow(worker[n].clock)

\* The inductive invariant of the frontier.
FrontierInv ==
    TypeOK /\ RegisteredFirst /\ OpenIsRecent /\ CeilingsBehind /\ ScannedBelow

\* No row disappears, and a loop that enters neither statement of the
\* materialization half keeps its ceiling.
RowsStay ==
    \A m \in Messages : delivery[m].status # "ABSENT" => delivery'[m].status # "ABSENT"

LoopsSteady ==
    \A n \in Nodes : \/ worker'[n] = worker[n]
                     \/ worker'[n].phase \notin {"materialize", "advance"}

\* A message is dated from its publisher's clock, keeps its date, and becomes
\* visible only after it was open.
MessagesSteady ==
    \A m \in Messages :
        \/ /\ msg'[m].state \in {"open", "auto"}
           /\ msg'[m].date = Clock(Publisher[m])
        \/ /\ msg'[m].date = msg[m].date
           /\ msg'[m].state \in {"open", "auto"} => msg[m].state \in {"open", "auto"}
           /\ Visible(m)' => Visible(m) \/ msg[m].state \in {"open", "auto"}

SteadyStep ==
    /\ now' = now /\ consumer' = consumer /\ attached' \subseteq attached
    /\ RowsStay /\ LoopsSteady /\ MessagesSteady

\* Steps that leave the clock, the consumer row and the materialization half of
\* every pass alone preserve the frontier invariant: what becomes visible was
\* open, and so is dated above every ceiling.
LEMMA SteadyPreserves == FrontierInv /\ TypeOK' /\ SteadyStep => FrontierInv'
  <1> SUFFICES ASSUME FrontierInv, TypeOK', SteadyStep PROVE FrontierInv'
    OBVIOUS
  <1>0. \A n \in Nodes : Clock(n)' = Clock(n) /\ Clock(n) \in Nat
    BY ClockType DEF SteadyStep, Clock, FrontierInv
  <1>1. RegisteredFirst'
    BY DEF FrontierInv, RegisteredFirst, SteadyStep, LoopsSteady
  <1>2. OpenIsRecent'
    <2> SUFFICES ASSUME NEW m \in Messages, msg'[m].state \in {"open", "auto"}
                 PROVE  Clock(Publisher[m])' - MaxTx <= msg'[m].date
      BY DEF OpenIsRecent
    <2>1. Publisher[m] \in Nodes /\ MaxTx \in Nat
      BY NodesAssumption, TimesAssumption
    <2> QED
      BY <1>0, <2>1 DEF FrontierInv, OpenIsRecent, SteadyStep, MessagesSteady
  <1>3. ASSUME NEW t \in Int, Behind(t) PROVE Behind(t)'
    BY <1>0, <1>3 DEF Behind
  <1>4. ASSUME NEW t \in Int, Behind(t), CompleteBelow(t)
        PROVE  CompleteBelow(t)'
    <2> SUFFICES ASSUME NEW m \in Messages, Visible(m)',
                        consumer'.boundary <= msg'[m].date, msg'[m].date < t
                 PROVE  delivery'[m].status # "ABSENT"
      BY DEF CompleteBelow
    <2>1. msg[m].state \in {"open", "auto"} => t <= msg[m].date
      <3>1. Publisher[m] \in Nodes /\ MaxTx \in Nat /\ msg[m].date \in Int
        BY NodesAssumption, TimesAssumption DEF FrontierInv, TypeOK, MessageRecord
      <3> QED
        BY <1>0, <1>4, <3>1 DEF FrontierInv, OpenIsRecent, Behind
    <2>2. msg'[m].date = msg[m].date /\ Visible(m)
      <3>1. msg'[m].date = msg[m].date /\ (Visible(m) \/ msg[m].state \in {"open", "auto"})
        BY DEF SteadyStep, MessagesSteady, Visible
      <3>2. msg[m].date \in Int
        BY DEF FrontierInv, TypeOK, MessageRecord
      <3> QED
        BY <2>1, <3>1, <3>2
    <2> QED
      BY <1>4, <2>2 DEF CompleteBelow, SteadyStep, RowsStay
  <1>5. consumer.frontier \in Int /\ \A n \in Nodes : worker[n].clock \in Int
    BY DEF FrontierInv, TypeOK, ConsumerRecord, WorkerRecord, Workers
  <1>6. CeilingsBehind'
    BY <1>3, <1>5 DEF FrontierInv, CeilingsBehind, SteadyStep, LoopsSteady
  <1>7. ScannedBelow'
    BY <1>4, <1>5 DEF FrontierInv, CeilingsBehind, ScannedBelow, SteadyStep, LoopsSteady
  <1> QED
    BY <1>1, <1>2, <1>6, <1>7 DEF FrontierInv

\* A worker between two dispatches is in the phase it was put in.
LEMMA RestingPhase ==
    ASSUME NEW phase, NEW due
    PROVE  Resting(phase, due).phase = phase /\ Resting(phase, due).due = due
  BY DEF Resting

\* Publication, resubmission and crashes are steady.
LEMMA PublicationSteady ==
    ASSUME TypeOK, NEW m \in Messages, Publication(m) \/ ResubmitDelivery(m)
    PROVE  SteadyStep
  <1> USE DEF SteadyStep, RowsStay, LoopsSteady, MessagesSteady, Visible
  <1>0. Nodes \cap Messages = {} /\ worker \in [Workers -> WorkerRecord]
        /\ msg \in [Messages -> MessageRecord] /\ delivery \in [Messages -> DeliveryRecord]
    BY NodesAssumption DEF TypeOK
  <1>a. \A r \in DeliveryRecord : Inserted(r).status # "ABSENT"
    BY DEF Inserted, DeliveryRecord
  <1>1. ASSUME NEW how \in PublishModes, BeginPublish(m, how) PROVE SteadyStep
    BY <1>0, <1>1, PolicyAssumption DEF BeginPublish, MessageRecord
  <1>2. CASE CommitPublish(m)
    BY <1>0, <1>a, <1>2 DEF CommitPublish, MessageRecord
  <1>3. CASE RollbackPublish(m) \/ StoreMessage(m) \/ StoreDeliveriesFails(m)
    BY <1>0, <1>3 DEF RollbackPublish, StoreMessage, StoreDeliveriesFails, MessageRecord
  <1>4. CASE DiscardPublish(m)
    BY <1>0, <1>4 DEF DiscardPublish, MessageRecord
  <1>5. CASE StoreDeliveries(m)
    BY <1>0, <1>a, <1>5 DEF StoreDeliveries, MessageRecord
  <1>6. CASE ResubmitDelivery(m)
    BY <1>0, <1>6 DEF ResubmitDelivery, DeliveryRecord
  <1> QED
    BY <1>1, <1>2, <1>3, <1>4, <1>5, <1>6 DEF Publication

\* What a claim statement does to the row and to the worker that sent it.
ClaimStep(w) ==
    \/ worker[w].phase \in {"claim", "write"} /\ ClaimCondition(w) /\ Claimed(w)
    \/ worker[w].phase # "idle" /\ NotClaimed(w)
    \/ /\ worker[w].phase = "claim" /\ UNCHANGED delivery
       /\ worker' = [worker EXCEPT ![w].phase = "write"]

SettleStep(w) == CompleteDelivery(w) \/ FailDelivery(w) \/ Abandon(w)

\* A worker claims, settles, or moves through its batch.
LEMMA WorkerStep ==
    ASSUME NEW w \in Workers, Delivering(w)
    PROVE  /\ ClaimStep(w) \/ SettleStep(w) \/ EndBatch(w) \/ Dispatch(w)
           /\ UNCHANGED <<now, msg, consumer, attached>>
  <1>1. CASE ClaimDelivery(w)
    BY <1>1 DEF ClaimDelivery, ClaimStep
  <1>2. CASE ClaimDeliveryInOrder(w)
    BY <1>2 DEF ClaimDeliveryInOrder, ClaimStep
  <1>3. CASE SnapshotInOrder(w)
    BY <1>3 DEF SnapshotInOrder, ClaimStep
  <1>4. CASE WriteInOrder(w)
    BY <1>4 DEF WriteInOrder, ClaimStep
  <1>5. CASE EndBatch(w) \/ Dispatch(w)
    BY <1>5 DEF EndBatch, Dispatch
  <1>6. CASE SettleStep(w)
    BY <1>6 DEF SettleStep, CompleteDelivery, FailDelivery, Abandon
  <1> QED
    BY <1>1, <1>2, <1>3, <1>4, <1>5, <1>6 DEF Delivering, SettleStep

\* What a claim that took effect leaves in its row and in its worker.
LEMMA ClaimedEffect ==
    ASSUME TypeOK, NEW w \in Workers, Claimed(w)
    PROVE  LET m == worker[w].msg IN
           /\ m \in Messages
           /\ delivery'[m].status = "PROCESSING" /\ delivery'[m].token = w
           /\ delivery'[m].claimDate = worker[w].clock
           /\ delivery'[m].attempts = worker[w].attempts + 1
           /\ \A k \in Messages \ {m} : delivery'[k] = delivery[k]
           /\ worker'[w].phase = "run" /\ worker'[w].msg = m
           /\ worker'[w].clock = worker[w].clock
           /\ worker'[w].attempts = worker[w].attempts
           /\ \A v \in Workers \ {w} : worker'[v] = worker[v]
  <1> DEFINE m == worker[w].msg
             row == [delivery[m] EXCEPT !.status = "PROCESSING", !.token = w,
                                        !.claimDate = worker[w].clock,
                                        !.attempts = worker[w].attempts + 1]
  <1>1. m \in Messages /\ delivery \in [Messages -> DeliveryRecord]
        /\ worker \in [Workers -> WorkerRecord] /\ worker[w] \in WorkerRecord
    BY DEF TypeOK, WorkerRecord
  <1>2. delivery' = [delivery EXCEPT ![m] = row]
    BY DEF Claimed
  <1>3. delivery[m] \in DeliveryRecord
    BY <1>1
  <1>4. row.status = "PROCESSING" /\ row.token = w /\ row.claimDate = worker[w].clock
        /\ row.attempts = worker[w].attempts + 1
    BY <1>3 DEF DeliveryRecord
  <1>5. worker' = [worker EXCEPT ![w] = [worker[w] EXCEPT !.phase = "run"]]
    BY DEF Claimed
  <1>6. /\ [worker[w] EXCEPT !.phase = "run"].phase = "run"
        /\ [worker[w] EXCEPT !.phase = "run"].msg = m
        /\ [worker[w] EXCEPT !.phase = "run"].clock = worker[w].clock
        /\ [worker[w] EXCEPT !.phase = "run"].attempts = worker[w].attempts
    BY <1>1 DEF WorkerRecord
  <1> HIDE DEF row
  <1> QED
    BY <1>1, <1>2, <1>4, <1>5, <1>6

\* What a settlement leaves: it changes the row of its delivery only when the
\* fence lets it, and never the attempts, the token or another row.
LEMMA SettledEffect ==
    ASSUME TypeOK, NEW w \in Workers, SettleStep(w)
    PROVE  LET m == worker[w].msg IN
           /\ worker[w].phase = "run" /\ m \in Messages
           /\ \/ delivery' = delivery
              \/ /\ SettlementCondition(w)
                 /\ delivery'[m].status = "COMPLETED"
              \/ /\ SettlementCondition(w)
                 /\ delivery'[m].status = IF worker[w].attempts + 1 >= MaxAttempts
                                          THEN "EXHAUSTED" ELSE "FAILED"
           /\ delivery'[m].attempts = delivery[m].attempts
           /\ delivery'[m].token = delivery[m].token
           /\ \A k \in Messages \ {m} : delivery'[k] = delivery[k]
           /\ worker' = [worker EXCEPT ![w] = Resting("batch", worker[w].due)]
  <1> DEFINE m == worker[w].msg
  <1>1. m \in Messages /\ delivery \in [Messages -> DeliveryRecord]
        /\ delivery[m] \in DeliveryRecord
    BY DEF TypeOK, WorkerRecord
  <1>2. worker[w].phase = "run" /\ worker' = [worker EXCEPT ![w] = Resting("batch", worker[w].due)]
    BY DEF SettleStep, CompleteDelivery, FailDelivery, Abandon
  <1>3. CASE CompleteDelivery(w)
    <2> DEFINE row == [delivery[m] EXCEPT !.status = "COMPLETED"]
    <2>1. delivery' = IF SettlementCondition(w) THEN [delivery EXCEPT ![m] = row] ELSE delivery
      BY <1>3 DEF CompleteDelivery
    <2>2. row.status = "COMPLETED" /\ row.attempts = delivery[m].attempts
          /\ row.token = delivery[m].token
      BY <1>1 DEF DeliveryRecord
    <2> HIDE DEF row
    <2> QED
      BY <1>1, <1>2, <2>1, <2>2
  <1>4. CASE FailDelivery(w)
    <2> DEFINE status == IF worker[w].attempts + 1 >= MaxAttempts THEN "EXHAUSTED" ELSE "FAILED"
               row(t) == [delivery[m] EXCEPT !.status = status, !.nextDate = t]
    <2>1. PICK delay \in RetryDelays :
            delivery' = IF SettlementCondition(w)
                        THEN [delivery EXCEPT ![m] = row(Clock(Home(w)) + delay)] ELSE delivery
      BY <1>4 DEF FailDelivery
    <2>2. \A t : row(t).status = status /\ row(t).attempts = delivery[m].attempts
                /\ row(t).token = delivery[m].token
      BY <1>1 DEF DeliveryRecord
    <2>3. delivery' = delivery \/ (SettlementCondition(w) /\ delivery'[m].status = status)
      BY <1>1, <2>1, <2>2
    <2>4. delivery'[m].attempts = delivery[m].attempts
          /\ delivery'[m].token = delivery[m].token
          /\ \A k \in Messages \ {m} : delivery'[k] = delivery[k]
      BY <1>1, <2>1, <2>2
    <2> QED
      BY <1>1, <1>2, <2>3, <2>4
  <1>5. CASE Abandon(w)
    BY <1>1, <1>2, <1>5 DEF Abandon
  <1> QED
    BY <1>3, <1>4, <1>5 DEF SettleStep

\* The delivery half of a pass, a fast path and an aborted pass are steady.
LEMMA DeliveringSteady ==
    ASSUME TypeOK, NEW w \in Workers,
           Delivering(w) \/ (w \in Nodes /\ (AbortPass(w) \/ FindDueDeliveries(w)))
    PROVE  SteadyStep
  <1>1. UNCHANGED <<now, msg, consumer, attached>>
    BY DEF Delivering, EndBatch, Dispatch, ClaimDelivery, ClaimDeliveryInOrder,
           SnapshotInOrder, WriteInOrder, CompleteDelivery, FailDelivery, Abandon,
           AbortPass, FindDueDeliveries
  <1>2. worker[w].msg \in Messages /\ delivery \in [Messages -> DeliveryRecord]
        /\ worker \in [Workers -> WorkerRecord]
    BY DEF TypeOK, WorkerRecord
  <1>a. Delivering(w) => ClaimStep(w) \/ SettleStep(w) \/ EndBatch(w) \/ Dispatch(w)
    BY WorkerStep
  <1>3. RowsStay
    <2>1. CASE ClaimStep(w)
      BY <2>1, ClaimedEffect DEF RowsStay, ClaimStep, NotClaimed
    <2>2. CASE SettleStep(w)
      BY <2>2, SettledEffect DEF RowsStay
    <2>3. CASE delivery' = delivery
      BY <2>3 DEF RowsStay
    <2> QED
      BY <1>a, <2>1, <2>2, <2>3 DEF EndBatch, Dispatch, AbortPass, FindDueDeliveries
  <1>4. /\ worker'[w].phase \notin {"materialize", "advance"}
        /\ \A n \in Nodes : n # w => worker'[n] = worker[n]
    <2>0. Nodes \subseteq Workers
      BY DEF Workers
    <2>1. CASE ClaimStep(w)
      <3>1. CASE Claimed(w)
        BY <2>0, <3>1, ClaimedEffect
      <3>2. CASE NotClaimed(w)
        BY <1>2, <2>0, <3>2, RestingPhase DEF NotClaimed
      <3>3. CASE worker' = [worker EXCEPT ![w].phase = "write"]
        BY <1>2, <2>0, <3>3 DEF WorkerRecord
      <3> QED
        BY <2>1, <3>1, <3>2, <3>3 DEF ClaimStep
    <2>2. CASE SettleStep(w)
      BY <1>2, <2>0, <2>2, SettledEffect, RestingPhase
    <2>3. CASE EndBatch(w)
      <3>1. PICK phase \in {"find", "idle"} :
                worker' = [worker EXCEPT ![w] = Resting(phase, {})]
        BY <2>3 DEF EndBatch
      <3> QED
        BY <1>2, <2>0, <3>1, RestingPhase
    <2>4. CASE Dispatch(w)
      BY <1>2, <2>0, <2>4 DEF Dispatch
    <2>5. CASE AbortPass(w)
      BY <1>2, <2>0, <2>5, RestingPhase DEF AbortPass
    <2>6. CASE FindDueDeliveries(w)
      <3>1. PICK phase \in {"idle", "batch"} : \E due :
                worker' = [worker EXCEPT ![w] = Resting(phase, due)]
        BY <2>6 DEF FindDueDeliveries
      <3> QED
        BY <1>2, <2>0, <3>1, RestingPhase
    <2> QED
      BY <1>a, <2>1, <2>2, <2>3, <2>4, <2>5, <2>6
  <1> QED
    BY <1>1, <1>3, <1>4 DEF SteadyStep, LoopsSteady, MessagesSteady, Visible

\* A crash is steady: it closes publications without dating any, and stops loops.
LEMMA CrashSteady ==
    ASSUME TypeOK, NEW n \in Faulty, Crash(n)
    PROVE  SteadyStep
  <1>1. now' = now /\ consumer' = consumer /\ attached' \subseteq attached /\ delivery' = delivery
    BY DEF Crash
  <1>2. LoopsSteady
    BY RestingPhase DEF LoopsSteady, Crash, Workers
  <1>3. MessagesSteady
    <2> SUFFICES ASSUME NEW m \in Messages
                 PROVE  /\ msg'[m].date = msg[m].date
                        /\ msg'[m].state \notin {"open", "auto"} \/ msg'[m] = msg[m]
                        /\ Visible(m)' => Visible(m)
      BY DEF MessagesSteady
    <2>1. msg[m] \in MessageRecord
      BY DEF TypeOK
    <2> QED
      BY <2>1 DEF Crash, Visible, MessageRecord, MessageStates
  <1> QED
    BY <1>1, <1>2, <1>3 DEF SteadyStep, RowsStay

\* Initially nothing is registered, published or running.
LEMMA InitFrontier == Init => FrontierInv
  <1> SUFFICES ASSUME Init PROVE FrontierInv
    OBVIOUS
  <1>1. \A n \in Nodes : worker[n].phase = "idle"
    BY RestingPhase DEF Init, Workers
  <1> QED
    BY <1>1, InitType
    DEF Init, FrontierInv, RegisteredFirst, OpenIsRecent, CeilingsBehind, ScannedBelow

\* Every step preserves the frontier invariant.
LEMMA NextFrontier == FrontierInv /\ [Next]_vars => FrontierInv'
  <1> SUFFICES ASSUME FrontierInv, [Next]_vars PROVE FrontierInv'
    OBVIOUS
  <1>0. TypeOK /\ TypeOK'
    BY NextType DEF FrontierInv
  <1>a. \A n, p \in Nodes : MaxTx + Skew[p] - Skew[n] <= Grace /\ Skew[n] \in Nat
                            /\ MaxTx \in Nat /\ Grace \in Nat /\ now \in Nat
    BY <1>0, GraceAssumption, TimesAssumption DEF TypeOK
  <1>b. \A n \in Nodes : Ceiling(n) \in Int /\ Behind(Ceiling(n))
    BY <1>a DEF Behind, Ceiling, Clock
  <1>c. Hosts \subseteq Nodes /\ Nodes \subseteq Workers
    BY NodesAssumption DEF Workers
  <1>d. /\ msg \in [Messages -> MessageRecord] /\ delivery \in [Messages -> DeliveryRecord]
        /\ worker \in [Workers -> WorkerRecord] /\ consumer \in ConsumerRecord
    BY <1>0 DEF TypeOK
  <1>1. CASE SteadyStep
    BY <1>0, <1>1, SteadyPreserves
  <1>2. ASSUME NEW n \in Hosts, Attach(n) PROVE FrontierInv'
    <2>1. CASE consumer.registered
      BY <1>0, <1>1, <2>1, <1>2
      DEF Attach, SteadyStep, RowsStay, LoopsSteady, MessagesSteady, Visible,
          FrontierInv, RegisteredFirst, OpenIsRecent, CeilingsBehind, ScannedBelow,
          Behind, CompleteBelow, Clock
    <2>2. CASE ~consumer.registered
      <3>1. /\ consumer'.registered
            /\ consumer'.boundary = Ceiling(n) /\ consumer'.frontier = Ceiling(n)
            /\ UNCHANGED <<now, msg, delivery, worker>>
        BY <1>2, <2>2 DEF Attach
      <3>2. \A p \in Nodes : worker[p].phase \notin {"materialize", "advance"}
        BY <2>2 DEF FrontierInv, RegisteredFirst
      <3>3. RegisteredFirst' /\ OpenIsRecent'
        BY <3>1 DEF FrontierInv, RegisteredFirst, OpenIsRecent, Clock
      <3>4. CeilingsBehind'
        BY <1>b, <1>c, <3>1, <3>2 DEF CeilingsBehind, Behind, Clock
      <3>5. ScannedBelow'
        <4>1. Ceiling(n) \in Int /\ \A m \in Messages : msg[m].date \in Int
          BY <1>b, <1>c, <1>d DEF MessageRecord
        <4>2. CompleteBelow(consumer.frontier)'
          BY <3>1, <4>1 DEF CompleteBelow
        <4> QED
          BY <3>1, <3>2, <4>2 DEF ScannedBelow
      <3> QED
        BY <1>0, <3>3, <3>4, <3>5 DEF FrontierInv
    <2> QED
      BY <2>1, <2>2
  <1>3. ASSUME NEW n \in Hosts, StartPass(n) PROVE FrontierInv'
    <2>1. /\ UNCHANGED <<now, msg, consumer, attached, delivery>>
          /\ worker'[n].phase = "materialize" /\ worker'[n].clock = Ceiling(n)
          /\ \A p \in Nodes : p # n => worker'[p] = worker[p]
      BY <1>3, <1>c, <1>d DEF StartPass, WorkerRecord
    <2>2. RegisteredFirst' /\ OpenIsRecent'
      BY <1>3, <2>1 DEF StartPass, FrontierInv, RegisteredFirst, OpenIsRecent, Clock
    <2>3. CeilingsBehind'
      BY <1>b, <1>c, <2>1 DEF FrontierInv, CeilingsBehind, Behind, Clock
    <2>4. ScannedBelow'
      BY <2>1 DEF FrontierInv, ScannedBelow, CompleteBelow, Visible
    <2> QED
      BY <1>0, <2>2, <2>3, <2>4 DEF FrontierInv
  <1>4. ASSUME NEW n \in Hosts, MaterializeDeliveries(n) PROVE FrontierInv'
    <2>1. /\ UNCHANGED <<now, msg, consumer, attached>>
          /\ worker[n].phase = "materialize"
          /\ worker'[n].phase = "advance" /\ worker'[n].clock = worker[n].clock
          /\ \A p \in Nodes : p # n => worker'[p] = worker[p]
      BY <1>4, <1>c, <1>d DEF MaterializeDeliveries, WorkerRecord
    <2>2. RowsStay
      BY <1>4, <1>d DEF RowsStay, MaterializeDeliveries, Inserted, DeliveryRecord
    <2>3. RegisteredFirst' /\ OpenIsRecent'
      BY <1>c, <2>1 DEF FrontierInv, RegisteredFirst, OpenIsRecent, Clock
    <2>4. CeilingsBehind'
      BY <1>c, <2>1 DEF FrontierInv, CeilingsBehind, Behind, Clock
    <2>5. \A m \in Messages : Visible(m) /\ consumer.boundary <= msg[m].date
                              => delivery'[m].status # "ABSENT"
      <3> SUFFICES ASSUME NEW m \in Messages, Visible(m), consumer.boundary <= msg[m].date
                   PROVE  delivery'[m].status # "ABSENT"
        OBVIOUS
      <3>1. msg[m].date \in Int /\ consumer.frontier \in Int
        BY <1>d DEF MessageRecord, ConsumerRecord
      <3>2. CASE msg[m].date < consumer.frontier
        BY <1>c, <2>1, <2>2, <3>2
        DEF FrontierInv, RegisteredFirst, ScannedBelow, CompleteBelow, RowsStay
      <3>3. CASE msg[m].date >= consumer.frontier
        BY <1>4, <1>d, <3>3 DEF MaterializeDeliveries, Inserted, DeliveryRecord
      <3> QED
        BY <3>1, <3>2, <3>3
    <2>6. ScannedBelow'
      BY <2>1, <2>5 DEF ScannedBelow, CompleteBelow, Visible
    <2> QED
      BY <1>0, <2>3, <2>4, <2>6 DEF FrontierInv
  <1>5. ASSUME NEW n \in Hosts, AdvanceFrontier(n) PROVE FrontierInv'
    <2>1. /\ UNCHANGED <<now, msg, attached, delivery>>
          /\ worker[n].phase = "advance" /\ worker'[n].phase = "find"
          /\ \A p \in Nodes : p # n => worker'[p] = worker[p]
          /\ consumer'.registered = consumer.registered
          /\ consumer'.boundary = consumer.boundary
          /\ consumer'.frontier \in {consumer.frontier, worker[n].clock}
      BY <1>5, <1>c, <1>d, RestingPhase DEF AdvanceFrontier, ConsumerRecord
    <2>2. RegisteredFirst' /\ OpenIsRecent'
      BY <2>1 DEF FrontierInv, RegisteredFirst, OpenIsRecent, Clock
    <2>3. CeilingsBehind'
      BY <1>c, <2>1 DEF FrontierInv, CeilingsBehind, Behind, Clock
    <2>4. ScannedBelow'
      BY <1>c, <2>1 DEF FrontierInv, ScannedBelow, CompleteBelow, Visible
    <2> QED
      BY <1>0, <2>2, <2>3, <2>4 DEF FrontierInv
  <1>6. CASE Tick
    <2>1. /\ UNCHANGED <<msg, consumer, attached, delivery, worker>> /\ now' = now + 1
          /\ \A m \in Messages : msg[m].state \in {"open", "auto"} =>
                now < msg[m].date - Skew[Publisher[m]] + MaxTx
      BY <1>6 DEF Tick
    <2>2. RegisteredFirst' /\ ScannedBelow'
      BY <2>1 DEF FrontierInv, RegisteredFirst, ScannedBelow, CompleteBelow, Visible
    <2>3. OpenIsRecent'
      <3>1. \A m \in Messages : Publisher[m] \in Nodes /\ msg[m].date \in Int
        BY <1>d, NodesAssumption DEF MessageRecord
      <3> QED
        BY <1>a, <2>1, <3>1 DEF OpenIsRecent, Clock
    <2>4. CeilingsBehind'
      <3>1. consumer.frontier \in Int /\ \A n \in Nodes : worker[n].clock \in Int
        BY <1>c, <1>d DEF ConsumerRecord, WorkerRecord
      <3> QED
        BY <1>a, <2>1, <3>1 DEF FrontierInv, CeilingsBehind, Behind, Clock
    <2> QED
      BY <1>0, <2>2, <2>3, <2>4 DEF FrontierInv
  <1>7. CASE UNCHANGED vars
    BY <1>1, <1>7
    DEF vars, SteadyStep, RowsStay, LoopsSteady, MessagesSteady, Visible
  <1>8. ASSUME NEW m \in Messages, Publication(m) \/ ResubmitDelivery(m) PROVE SteadyStep
    BY <1>0, <1>8, PublicationSteady
  <1>9. ASSUME NEW w \in Workers,
               Delivering(w) \/ (w \in Nodes /\ (AbortPass(w) \/ FindDueDeliveries(w)))
        PROVE  SteadyStep
    BY <1>0, <1>9, DeliveringSteady
  <1>10. ASSUME NEW n \in Faulty, Crash(n) PROVE SteadyStep
    BY <1>0, <1>10, CrashSteady
  <1> QED
    BY <1>c, <1>1, <1>2, <1>3, <1>4, <1>5, <1>6, <1>7, <1>8, <1>9, <1>10 DEF Next, Pass

\* The frontier invariant implies both properties.
LEMMA FrontierInvImplies == FrontierInv => FrontierComplete /\ NoLateCommit
  <1> SUFFICES ASSUME FrontierInv PROVE FrontierComplete /\ NoLateCommit
    OBVIOUS
  <1>1. FrontierComplete
    BY DEF FrontierInv, ScannedBelow, CompleteBelow, FrontierComplete
  <1>2. NoLateCommit
    <2> SUFFICES ASSUME NEW m \in Messages, msg[m].state \in {"open", "auto"},
                        consumer.registered
                 PROVE  consumer.frontier <= msg[m].date
      BY DEF NoLateCommit
    <2>1. Publisher[m] \in Nodes /\ MaxTx \in Nat
      BY NodesAssumption, TimesAssumption
    <2>2. msg[m].date \in Int /\ consumer.frontier \in Int /\ Clock(Publisher[m]) \in Nat
      BY <2>1, ClockType DEF FrontierInv, TypeOK, MessageRecord, ConsumerRecord
    <2> QED
      BY <2>1, <2>2 DEF FrontierInv, OpenIsRecent, CeilingsBehind, Behind
  <1> QED
    BY <1>1, <1>2

\* Whatever the clocks and however passes of several nodes interleave, no visible
\* message below the frontier lacks its delivery row.
THEOREM FrontierIsComplete == Spec => []FrontierComplete
  BY InitFrontier, NextFrontier, FrontierInvImplies, PTL DEF Spec

\* No publication still open is dated below the frontier.
THEOREM CommitsAreNeverLate == Spec => []NoLateCommit
  BY InitFrontier, NextFrontier, FrontierInvImplies, PTL DEF Spec

-----------------------------------------------------------------------------
(***************************************************************************)
(* The fence.  LeaseProtects and ExhaustionExact need to know, of every    *)
(* running dispatch, that it either still owns its row exactly as claimed  *)
(* or has lost it for good to a claim that saw its lease expired.          *)
(***************************************************************************)

Claiming == {"claim", "write", "run"}

\* Only hosts dispatch.
OnHosts ==
    /\ \A w \in Workers : worker[w].phase # "idle" => Home(w) \in Hosts
    /\ \A m \in Messages : msg[m].local => Publisher[m] \in Hosts

\* The clock a dispatch carries was read on its own node.
ClockPast ==
    \A w \in Workers : worker[w].phase \in Claiming => worker[w].clock <= Clock(Home(w))

Owns(w) ==
    /\ SettlementCondition(w)
    /\ delivery[worker[w].msg].claimDate = worker[w].clock
    /\ delivery[worker[w].msg].attempts = worker[w].attempts + 1

Fenced(w) == delivery[worker[w].msg].token # w /\ ~LeaseLive(w)

Ownership == \A w \in Workers : worker[w].phase = "run" => Owns(w) \/ Fenced(w)

\* Only visible messages have rows, and a running delivery has one.
RowsPublished ==
    /\ \A m \in Messages : delivery[m].status # "ABSENT" => Visible(m)
    /\ \A w \in Workers : worker[w].phase = "run"
                          => delivery[worker[w].msg].status # "ABSENT"

\* The inductive invariant of the fence.
FenceInv ==
    TypeOK /\ OnHosts /\ ClockPast /\ Ownership /\ ExhaustionExact /\ RowsPublished

\* A step that claims nothing, settles nothing and starts no dispatch.
CalmStep ==
    /\ now' \in {now, now + 1}
    /\ \A k \in Messages :
         /\ \/ delivery'[k] = delivery[k]
            \/ /\ delivery[k].status # "PROCESSING" /\ delivery'[k].status = "PENDING"
               /\ delivery'[k].token = delivery[k].token /\ Visible(k)'
         /\ Visible(k) => Visible(k)'
         /\ msg'[k].local => Publisher[k] \in Hosts
    /\ \A w \in Workers :
         \/ worker'[w] = worker[w]
         \/ /\ worker'[w].phase \notin Claiming
            /\ worker'[w].phase # "idle" => Home(w) \in Hosts

\* Calm steps preserve the fence: time only expires leases, and a row that gets
\* inserted or resubmitted is nobody's live claim.
LEMMA CalmPreserves == FenceInv /\ TypeOK' /\ CalmStep => FenceInv'
  <1> SUFFICES ASSUME FenceInv, TypeOK', CalmStep PROVE FenceInv'
    OBVIOUS
  <1>0. \A n \in Nodes : Clock(n)' \in {Clock(n), Clock(n) + 1} /\ Clock(n) \in Nat
    <2>1. now \in Nat /\ now' \in {now, now + 1} /\ \A n \in Nodes : Skew[n] \in Nat
      BY TimesAssumption DEF CalmStep, FenceInv, TypeOK
    <2> QED
      BY <2>1 DEF Clock
  <1>a. \A w \in Workers : Home(w) \in Nodes /\ worker[w].clock \in Int
                           /\ worker[w].msg \in Messages
    BY HomeType DEF FenceInv, TypeOK, WorkerRecord
  <1>b. Lease \in Nat /\ Hosts \subseteq Nodes
    BY TimesAssumption, NodesAssumption
  <1>1. OnHosts'
    BY DEF FenceInv, OnHosts, CalmStep, Home
  <1>2. ClockPast'
    <2> SUFFICES ASSUME NEW w \in Workers, worker'[w].phase \in Claiming
                 PROVE  worker'[w].clock <= Clock(Home(w))'
      BY DEF ClockPast, Home
    <2>1. worker'[w] = worker[w] /\ worker[w].clock <= Clock(Home(w))
      BY DEF CalmStep, FenceInv, ClockPast
    <2> QED
      BY <1>0, <1>a, <2>1
  <1>3. Ownership'
    <2> SUFFICES ASSUME NEW w \in Workers, worker'[w].phase = "run"
                 PROVE  Owns(w)' \/ Fenced(w)'
      BY DEF Ownership
    <2>1. worker'[w] = worker[w] /\ worker[w].phase = "run"
      BY DEF CalmStep, Claiming
    <2>2. CASE Owns(w)
      BY <1>a, <2>1, <2>2 DEF Owns, SettlementCondition, CalmStep
    <2>3. CASE Fenced(w)
      <3>1. ~LeaseLive(w)'
        <4>1. PICK n \in Hosts : ~(worker[w].clock >= Clock(n) - Lease)
          BY <2>3 DEF Fenced, LeaseLive
        <4> QED
          BY <1>0, <1>a, <1>b, <2>1, <4>1 DEF LeaseLive
      <3> QED
        BY <1>a, <2>1, <2>3, <3>1 DEF Fenced, CalmStep
    <2> QED
      BY <2>1, <2>2, <2>3 DEF FenceInv, Ownership
  <1>4. ExhaustionExact'
    BY DEF FenceInv, ExhaustionExact, CalmStep
  <1>5. RowsPublished'
    BY <1>a DEF FenceInv, RowsPublished, CalmStep, Claiming
  <1> QED
    BY <1>1, <1>2, <1>3, <1>4, <1>5 DEF FenceInv

\* What inserting a row changes: an absent row becomes pending, and nothing else.
LEMMA InsertedEffect ==
    ASSUME NEW r \in DeliveryRecord
    PROVE  \/ Inserted(r) = r
           \/ /\ r.status = "ABSENT" /\ Inserted(r).status = "PENDING"
              /\ Inserted(r).token = r.token
  BY DEF Inserted, DeliveryRecord

\* The fast path starts only on a host.
LEMMA FastPathEffect ==
    ASSUME NEW m \in Messages, NEW keys \in BOOLEAN, keys => Publisher[m] \in Hosts
    PROVE  \/ FastPath(m, keys) = worker[m]
           \/ FastPath(m, keys).phase = "batch" /\ Home(m) \in Hosts
  BY RestingPhase DEF FastPath, Home

\* Publication and resubmission are calm.
LEMMA PublicationCalm ==
    ASSUME FenceInv, NEW m \in Messages, Publication(m) \/ ResubmitDelivery(m)
    PROVE  CalmStep
  <1>0. /\ msg \in [Messages -> MessageRecord] /\ delivery \in [Messages -> DeliveryRecord]
        /\ worker \in [Workers -> WorkerRecord] /\ attached \subseteq Hosts
        /\ m \in Workers /\ msg[m] \in MessageRecord /\ msg[m].local \in BOOLEAN
        /\ delivery[m] \in DeliveryRecord
    BY DEF FenceInv, TypeOK, MessageRecord, Workers
  <1>1. \A k \in Messages : msg[k].local => Publisher[k] \in Hosts
    BY DEF FenceInv, OnHosts
  <1>2. \/ Inserted(delivery[m]) = delivery[m]
        \/ /\ delivery[m].status = "ABSENT" /\ Inserted(delivery[m]).status = "PENDING"
           /\ Inserted(delivery[m]).token = delivery[m].token
    BY <1>0, InsertedEffect
  <1>3. ASSUME NEW how \in PublishModes, BeginPublish(m, how) PROVE CalmStep
    <2>1. /\ UNCHANGED <<now, delivery, worker>> /\ msg[m].state = "none"
          /\ \A k \in Messages \ {m} : msg'[k] = msg[k]
          /\ msg'[m].local = (Publisher[m] \in attached)
      BY <1>0, <1>3 DEF BeginPublish
    <2> QED
      BY <1>0, <1>1, <2>1 DEF CalmStep, Visible
  <1>4. CASE CommitPublish(m)
    <2>1. /\ now' = now /\ msg'[m].state = "visible" /\ msg'[m].local = msg[m].local
          /\ \A k \in Messages \ {m} : msg'[k] = msg[k] /\ delivery'[k] = delivery[k]
          /\ delivery'[m] \in {delivery[m], Inserted(delivery[m])}
          /\ worker' = [worker EXCEPT ![m] = FastPath(m, msg[m].local)]
      BY <1>0, <1>4 DEF CommitPublish, MessageRecord
    <2>2. \/ FastPath(m, msg[m].local) = worker[m]
          \/ FastPath(m, msg[m].local).phase = "batch" /\ Home(m) \in Hosts
      BY <1>0, <1>1, FastPathEffect
    <2>3. \A w \in Workers : worker'[w] = worker[w] \/ (worker'[w].phase = "batch" /\ Home(w) \in Hosts)
      BY <1>0, <2>1, <2>2
    <2> QED
      BY <1>1, <1>2, <2>1, <2>3 DEF CalmStep, Visible, Claiming
  <1>5. CASE RollbackPublish(m)
    BY <1>0, <1>1, <1>5 DEF RollbackPublish, CalmStep, Visible, MessageRecord
  <1>6. CASE StoreMessage(m) \/ StoreDeliveriesFails(m)
    BY <1>0, <1>1, <1>6
    DEF StoreMessage, StoreDeliveriesFails, CalmStep, Visible, MessageRecord
  <1>7. CASE DiscardPublish(m)
    <2>1. /\ now' = now /\ delivery' = delivery
          /\ msg[m].state = "open" /\ msg'[m].local = msg[m].local
          /\ \A k \in Messages \ {m} : msg'[k] = msg[k]
          /\ worker' = [worker EXCEPT ![m] = FastPath(m, msg[m].local)]
      BY <1>0, <1>7 DEF DiscardPublish, MessageRecord
    <2>2. \/ FastPath(m, msg[m].local) = worker[m]
          \/ FastPath(m, msg[m].local).phase = "batch" /\ Home(m) \in Hosts
      BY <1>0, <1>1, FastPathEffect
    <2>3. \A w \in Workers : worker'[w] = worker[w] \/ (worker'[w].phase = "batch" /\ Home(w) \in Hosts)
      BY <1>0, <2>1, <2>2
    <2> QED
      BY <1>1, <2>1, <2>3 DEF CalmStep, Visible, Claiming
  <1>8. CASE StoreDeliveries(m)
    <2> DEFINE local == Publisher[m] \in attached
    <2>1. /\ now' = now /\ msg'[m].state = "visible" /\ msg'[m].local = local
          /\ \A k \in Messages \ {m} : msg'[k] = msg[k] /\ delivery'[k] = delivery[k]
          /\ delivery'[m] \in {delivery[m], Inserted(delivery[m])}
          /\ worker' = [worker EXCEPT ![m] = FastPath(m, local)]
      BY <1>0, <1>8 DEF StoreDeliveries, MessageRecord
    <2>a. local \in BOOLEAN /\ (local => Publisher[m] \in Hosts)
      BY <1>0
    <2> HIDE DEF local
    <2>2. \/ FastPath(m, local) = worker[m]
          \/ FastPath(m, local).phase = "batch" /\ Home(m) \in Hosts
      BY <2>a, FastPathEffect
    <2>3. \A w \in Workers : worker'[w] = worker[w] \/ (worker'[w].phase = "batch" /\ Home(w) \in Hosts)
      BY <1>0, <2>1, <2>2
    <2> QED
      BY <1>1, <1>2, <2>1, <2>a, <2>3 DEF CalmStep, Visible, Claiming
  <1>9. CASE ResubmitDelivery(m)
    <2>1. /\ UNCHANGED <<now, msg, worker>>
          /\ delivery[m].status \in {"FAILED", "EXHAUSTED"}
          /\ delivery'[m].status = "PENDING" /\ delivery'[m].token = delivery[m].token
          /\ \A k \in Messages \ {m} : delivery'[k] = delivery[k]
      BY <1>0, <1>9 DEF ResubmitDelivery, DeliveryRecord
    <2>2. Visible(m)
      BY <2>1 DEF FenceInv, RowsPublished
    <2> QED
      BY <1>1, <2>1, <2>2 DEF CalmStep, Visible
  <1> QED
    BY <1>3, <1>4, <1>5, <1>6, <1>7, <1>8, <1>9 DEF Publication

\* A worker put to rest dispatches nothing.
LEMMA RestIsCalm ==
    ASSUME FenceInv, NEW w \in Workers, worker[w].phase # "idle",
           UNCHANGED <<now, msg, delivery>>,
           NEW phase \in {"find", "idle", "batch"}, NEW due,
           worker' = [worker EXCEPT ![w] = Resting(phase, due)]
    PROVE  CalmStep
  <1>1. Home(w) \in Hosts /\ \A k \in Messages : msg[k].local => Publisher[k] \in Hosts
    BY DEF FenceInv, OnHosts
  <1>2. worker'[w].phase = phase /\ \A v \in Workers \ {w} : worker'[v] = worker[v]
    BY RestingPhase DEF FenceInv, TypeOK
  <1> QED
    BY <1>1, <1>2 DEF CalmStep, Visible, Claiming

\* Attachment and the statements of a pass are calm.
LEMMA PassCalm ==
    ASSUME FenceInv, NEW n \in Hosts, Pass(n)
    PROVE  CalmStep
  <1>0. /\ msg \in [Messages -> MessageRecord] /\ delivery \in [Messages -> DeliveryRecord]
        /\ worker \in [Workers -> WorkerRecord] /\ n \in Workers
        /\ worker[n] \in WorkerRecord
    BY NodesAssumption DEF FenceInv, TypeOK, Workers
  <1>1. /\ \A k \in Messages : msg[k].local => Publisher[k] \in Hosts
        /\ Home(n) = n
    BY NodesAssumption DEF FenceInv, OnHosts, Home
  <1>2. CASE Attach(n)
    BY <1>1, <1>2 DEF Attach, CalmStep, Visible
  <1>3. CASE StartPass(n)
    <2>1. /\ UNCHANGED <<now, msg, delivery>> /\ worker'[n].phase = "materialize"
          /\ \A v \in Workers \ {n} : worker'[v] = worker[v]
      BY <1>0, <1>3 DEF StartPass, WorkerRecord
    <2> QED
      BY <1>1, <2>1 DEF CalmStep, Visible, Claiming
  <1>4. CASE MaterializeDeliveries(n)
    <2>1. /\ UNCHANGED <<now, msg>> /\ worker'[n].phase = "advance"
          /\ \A v \in Workers \ {n} : worker'[v] = worker[v]
      BY <1>0, <1>4 DEF MaterializeDeliveries, WorkerRecord
    <2>2. ASSUME NEW k \in Messages
          PROVE  \/ delivery'[k] = delivery[k]
                 \/ /\ delivery[k].status # "PROCESSING" /\ delivery'[k].status = "PENDING"
                    /\ delivery'[k].token = delivery[k].token /\ Visible(k)
      <3>1. delivery[k] \in DeliveryRecord
        BY <1>0
      <3> QED
        BY <1>4, <3>1, InsertedEffect DEF MaterializeDeliveries
    <2> QED
      BY <1>1, <2>1, <2>2 DEF CalmStep, Visible, Claiming
  <1>5. CASE AdvanceFrontier(n)
    BY <1>0, <1>5, RestIsCalm DEF AdvanceFrontier
  <1>6. CASE AbortPass(n)
    BY <1>0, <1>6, RestIsCalm DEF AbortPass
  <1>7. CASE FindDueDeliveries(n)
    <2>1. PICK phase \in {"idle", "batch"} : \E due :
            worker' = [worker EXCEPT ![n] = Resting(phase, due)]
      BY <1>7 DEF FindDueDeliveries
    <2> QED
      BY <1>0, <1>7, <2>1, RestIsCalm DEF FindDueDeliveries
  <1> QED
    BY <1>2, <1>3, <1>4, <1>5, <1>6, <1>7 DEF Pass

\* A crash is calm: it leaves the delivery table alone and only stops dispatches.
LEMMA CrashCalm ==
    ASSUME FenceInv, NEW n \in Faulty, Crash(n)
    PROVE  CalmStep
  <1>1. now' = now /\ delivery' = delivery
    BY DEF Crash
  <1>2. \A w \in Workers : worker'[w] = worker[w] \/ worker'[w].phase = "idle"
    BY RestingPhase DEF Crash
  <1>3. ASSUME NEW k \in Messages
        PROVE  (Visible(k) => Visible(k)') /\ (msg'[k].local => Publisher[k] \in Hosts)
    <2>1. msg[k] \in MessageRecord /\ (msg[k].local => Publisher[k] \in Hosts)
      BY DEF FenceInv, TypeOK, OnHosts
    <2>2. msg'[k].local = msg[k].local /\ (Visible(k) => Visible(k)')
      BY <2>1 DEF Crash, MessageRecord, MessageStates, Visible
    <2> QED
      BY <2>1, <2>2
  <1> QED
    BY <1>1, <1>2, <1>3 DEF CalmStep, Claiming

\* Initially nothing runs and no row exists.
LEMMA InitFence == Init => FenceInv
  <1> SUFFICES ASSUME Init PROVE FenceInv
    OBVIOUS
  <1>1. \A w \in Workers : worker[w].phase = "idle"
    BY RestingPhase DEF Init
  <1> QED
    BY <1>1, InitType
    DEF Init, FenceInv, OnHosts, ClockPast, Claiming, Ownership, ExhaustionExact,
        RowsPublished

\* Starting a dispatch reads the clock of the worker's own node.
LEMMA DispatchPreserves ==
    ASSUME FenceInv, TypeOK', NEW w \in Workers, Dispatch(w)
    PROVE  FenceInv'
  <1>1. /\ worker'[w].phase = "claim" /\ worker'[w].clock = Clock(Home(w))
        /\ \A v \in Workers \ {w} : worker'[v] = worker[v]
        /\ UNCHANGED <<now, msg, delivery>> /\ worker[w].phase = "batch"
    BY DEF Dispatch, FenceInv, TypeOK
  <1>2. Clock(Home(w)) \in Nat /\ \A n : Clock(n)' = Clock(n)
    BY <1>1, HomeType, ClockType DEF FenceInv, Clock
  <1>3. OnHosts' /\ ClockPast'
    BY <1>1, <1>2 DEF FenceInv, OnHosts, ClockPast, Home, Claiming
  <1>4. Ownership'
    BY <1>1 DEF FenceInv, Ownership, Owns, Fenced, SettlementCondition, LeaseLive, Clock
  <1>5. ExhaustionExact' /\ RowsPublished'
    BY <1>1 DEF FenceInv, ExhaustionExact, RowsPublished, Visible
  <1> QED
    BY <1>3, <1>4, <1>5 DEF FenceInv

\* A claim takes a row only from nobody or from a dispatch whose lease expired.
LEMMA ClaimPreserves ==
    ASSUME FenceInv, TypeOK', NEW w \in Workers, Claimed(w), ClaimCondition(w),
           worker[w].phase \in {"claim", "write"}, UNCHANGED <<now, msg>>
    PROVE  FenceInv'
  <1> DEFINE m == worker[w].msg
  <1>1. /\ m \in Messages
        /\ delivery'[m].status = "PROCESSING" /\ delivery'[m].token = w
        /\ delivery'[m].claimDate = worker[w].clock
        /\ delivery'[m].attempts = worker[w].attempts + 1
        /\ \A k \in Messages \ {m} : delivery'[k] = delivery[k]
        /\ worker'[w].phase = "run" /\ worker'[w].msg = m
        /\ worker'[w].clock = worker[w].clock
        /\ worker'[w].attempts = worker[w].attempts
        /\ \A v \in Workers \ {w} : worker'[v] = worker[v]
    BY ClaimedEffect DEF FenceInv
  <1>2. \A n : Clock(n)' = Clock(n)
    BY DEF Clock
  <1>3. OnHosts'
    BY <1>1 DEF FenceInv, OnHosts, Home
  <1>4. ClockPast'
    BY <1>1, <1>2 DEF FenceInv, ClockPast, Home, Claiming
  <1>5. Ownership'
    <2> SUFFICES ASSUME NEW v \in Workers, worker'[v].phase = "run"
                 PROVE  Owns(v)' \/ Fenced(v)'
      BY DEF Ownership
    <2>1. CASE v = w
      BY <1>1, <2>1 DEF Owns, SettlementCondition
    <2>2. CASE v # w
      <3>1. worker'[v] = worker[v] /\ worker[v].phase = "run" /\ worker[v].msg \in Messages
        BY <1>1, <2>2 DEF FenceInv, TypeOK, WorkerRecord
      <3>2. LeaseLive(v)' = LeaseLive(v)
        BY <1>2, <3>1 DEF LeaseLive
      <3>3. CASE worker[v].msg # m
        BY <1>1, <3>1, <3>2, <3>3 DEF FenceInv, Ownership, Owns, Fenced, SettlementCondition
      <3>4. CASE worker[v].msg = m
        <4>1. CASE Fenced(v)
          BY <1>1, <2>2, <3>1, <3>2, <3>4, <4>1 DEF Fenced
        <4>2. CASE Owns(v)
          <5>1. worker[v].clock < worker[w].clock - Lease
            BY <3>4, <4>2 DEF Owns, SettlementCondition, ClaimCondition, Due
          <5>2. Home(w) \in Hosts /\ worker[w].clock <= Clock(Home(w))
            BY DEF FenceInv, OnHosts, ClockPast, Claiming
          <5>3. Clock(Home(w)) \in Nat /\ worker[v].clock \in Int /\ worker[w].clock \in Int
                /\ Lease \in Nat
            BY HomeType, ClockType, TimesAssumption DEF FenceInv, TypeOK, WorkerRecord
          <5>4. ~LeaseLive(v)
            BY <5>1, <5>2, <5>3 DEF LeaseLive
          <5> QED
            BY <1>1, <2>2, <3>1, <3>2, <3>4, <5>4 DEF Fenced
        <4> QED
          BY <3>1, <4>1, <4>2 DEF FenceInv, Ownership
      <3> QED
        BY <3>3, <3>4
    <2> QED
      BY <2>1, <2>2
  <1>6. ExhaustionExact'
    BY <1>1 DEF FenceInv, ExhaustionExact
  <1>7. RowsPublished'
    <2>1. \A v \in Workers : worker[v].msg \in Messages
      BY DEF FenceInv, TypeOK, WorkerRecord
    <2>2. delivery[m].status # "ABSENT"
      BY DEF ClaimCondition, Due
    <2> QED
      BY <1>1, <2>1, <2>2 DEF FenceInv, RowsPublished, Visible
  <1> QED
    BY <1>3, <1>4, <1>5, <1>6, <1>7 DEF FenceInv

\* A settlement the fence lets through comes from the owner of the row, so the
\* attempts it decides on are the row's.
LEMMA SettlePreserves ==
    ASSUME FenceInv, TypeOK', NEW w \in Workers, SettleStep(w), UNCHANGED <<now, msg>>
    PROVE  FenceInv'
  <1> DEFINE m == worker[w].msg
  <1>1. /\ worker[w].phase = "run" /\ m \in Messages
        /\ \/ delivery' = delivery
           \/ /\ SettlementCondition(w)
              /\ delivery'[m].status = "COMPLETED"
           \/ /\ SettlementCondition(w)
              /\ delivery'[m].status = IF worker[w].attempts + 1 >= MaxAttempts
                                       THEN "EXHAUSTED" ELSE "FAILED"
        /\ delivery'[m].attempts = delivery[m].attempts
        /\ delivery'[m].token = delivery[m].token
        /\ \A k \in Messages \ {m} : delivery'[k] = delivery[k]
    BY SettledEffect DEF FenceInv
  <1>2. /\ worker'[w].phase = "batch"
        /\ \A v \in Workers \ {w} : worker'[v] = worker[v]
    BY SettledEffect, RestingPhase DEF FenceInv, TypeOK
  <1>3. \A n : Clock(n)' = Clock(n)
    BY DEF Clock
  <1>4. OnHosts' /\ ClockPast'
    BY <1>1, <1>2, <1>3 DEF FenceInv, OnHosts, ClockPast, Home, Claiming
  <1>5. Ownership'
    <2> SUFFICES ASSUME NEW v \in Workers, worker'[v].phase = "run"
                 PROVE  Owns(v)' \/ Fenced(v)'
      BY DEF Ownership
    <2>1. v # w /\ worker'[v] = worker[v] /\ worker[v].phase = "run"
          /\ worker[v].msg \in Messages
      BY <1>2 DEF FenceInv, TypeOK, WorkerRecord
    <2>2. LeaseLive(v)' = LeaseLive(v)
      BY <1>3, <2>1 DEF LeaseLive
    <2>3. CASE Fenced(v)
      BY <1>1, <2>1, <2>2, <2>3 DEF Fenced
    <2>4. CASE Owns(v)
      <3>1. delivery'[worker[v].msg] = delivery[worker[v].msg]
        BY <1>1, <2>1, <2>4 DEF Owns, SettlementCondition
      <3> QED
        BY <2>1, <2>4, <3>1 DEF Owns, SettlementCondition
    <2> QED
      BY <2>1, <2>3, <2>4 DEF FenceInv, Ownership
  <1>6. ExhaustionExact'
    <2>1. SettlementCondition(w) => delivery[m].attempts = worker[w].attempts + 1
      BY <1>1 DEF FenceInv, Ownership, Owns, Fenced, SettlementCondition
    <2>2. worker[w].attempts \in Nat /\ MaxAttempts \in Nat
      BY PolicyAssumption DEF FenceInv, TypeOK, WorkerRecord
    <2> HIDE DEF m
    <2>3. ASSUME NEW k \in Messages
          PROVE  /\ delivery'[k].status = "FAILED" => delivery'[k].attempts < MaxAttempts
                 /\ delivery'[k].status = "EXHAUSTED" => delivery'[k].attempts >= MaxAttempts
      <3>1. CASE delivery'[k] = delivery[k]
        BY <3>1 DEF FenceInv, ExhaustionExact
      <3>2. CASE k = m
        BY <1>1, <2>1, <2>2, <3>1, <3>2
      <3> QED
        BY <1>1, <3>1, <3>2
    <2> QED
      BY <2>3 DEF ExhaustionExact
  <1>7. RowsPublished'
    <2>1. \A v \in Workers : worker[v].msg \in Messages
      BY DEF FenceInv, TypeOK, WorkerRecord
    <2>2. delivery[m].status # "ABSENT"
      BY <1>1 DEF FenceInv, RowsPublished
    <2>3. \A k \in Messages : delivery'[k].status # "ABSENT" <=> delivery[k].status # "ABSENT"
      BY <1>1, <2>2
    <2> QED
      BY <1>1, <1>2, <2>1, <2>3 DEF FenceInv, RowsPublished, Visible
  <1> QED
    BY <1>4, <1>5, <1>6, <1>7 DEF FenceInv

\* Every step preserves the fence invariant.
LEMMA NextFence == FenceInv /\ [Next]_vars => FenceInv'
  <1> SUFFICES ASSUME FenceInv, [Next]_vars PROVE FenceInv'
    OBVIOUS
  <1>0. TypeOK'
    BY NextType DEF FenceInv
  <1>1. CASE CalmStep
    BY <1>0, <1>1, CalmPreserves
  <1>2. ASSUME NEW m \in Messages, Publication(m) \/ ResubmitDelivery(m) PROVE CalmStep
    BY <1>2, PublicationCalm
  <1>3. ASSUME NEW n \in Hosts, Pass(n) PROVE CalmStep
    BY <1>3, PassCalm
  <1>4. ASSUME NEW n \in Faulty, Crash(n) PROVE CalmStep
    BY <1>4, CrashCalm
  <1>5. \A k \in Messages : msg[k].local => Publisher[k] \in Hosts
    BY DEF FenceInv, OnHosts
  <1>6. CASE Tick
    BY <1>1, <1>5, <1>6 DEF Tick, CalmStep, Visible
  <1>7. CASE UNCHANGED vars
    BY <1>1, <1>5, <1>7 DEF vars, CalmStep, Visible
  <1>8. ASSUME NEW w \in Workers, Delivering(w) PROVE FenceInv'
    <2>1. /\ ClaimStep(w) \/ SettleStep(w) \/ EndBatch(w) \/ Dispatch(w)
          /\ UNCHANGED <<now, msg, consumer, attached>>
      BY <1>8, WorkerStep
    <2>2. CASE Dispatch(w)
      BY <1>0, <2>2, DispatchPreserves
    <2>3. CASE SettleStep(w)
      BY <1>0, <2>1, <2>3, SettlePreserves
    <2>4. CASE EndBatch(w)
      <3>1. worker[w].phase # "idle" /\ UNCHANGED <<now, msg, delivery>>
        BY <2>4 DEF EndBatch
      <3>2. PICK phase \in {"find", "idle"} :
                worker' = [worker EXCEPT ![w] = Resting(phase, {})]
        BY <2>4 DEF EndBatch
      <3> QED
        BY <1>1, <3>1, <3>2, RestIsCalm
    <2>5. CASE Claimed(w) /\ ClaimCondition(w) /\ worker[w].phase \in {"claim", "write"}
      BY <1>0, <2>1, <2>5, ClaimPreserves
    <2>6. CASE NotClaimed(w) /\ worker[w].phase # "idle"
      BY <1>1, <2>1, <2>6, RestIsCalm DEF NotClaimed
    <2>7. CASE /\ worker[w].phase = "claim" /\ UNCHANGED delivery
               /\ worker' = [worker EXCEPT ![w].phase = "write"]
      <3>1. /\ worker'[w].phase = "write" /\ worker'[w].clock = worker[w].clock
            /\ \A v \in Workers \ {w} : worker'[v] = worker[v]
        BY <2>7 DEF FenceInv, TypeOK, WorkerRecord
      <3>2. \A n : Clock(n)' = Clock(n)
        BY <2>1 DEF Clock
      <3>3. OnHosts' /\ ClockPast'
        BY <2>1, <2>7, <3>1, <3>2 DEF FenceInv, OnHosts, ClockPast, Home, Claiming
      <3>4. Ownership'
        BY <2>1, <2>7, <3>1, <3>2
        DEF FenceInv, Ownership, Owns, Fenced, SettlementCondition, LeaseLive
      <3>5. ExhaustionExact' /\ RowsPublished'
        BY <2>1, <2>7, <3>1 DEF FenceInv, ExhaustionExact, RowsPublished, Visible
      <3> QED
        BY <1>0, <3>3, <3>4, <3>5 DEF FenceInv
    <2>8. CASE ClaimStep(w)
      BY <2>8, <2>5, <2>6, <2>7 DEF ClaimStep
    <2> QED
      BY <2>1, <2>2, <2>3, <2>4, <2>8
  <1> QED
    BY <1>1, <1>2, <1>3, <1>4, <1>6, <1>7, <1>8 DEF Next

\* While its lease is live on every host's clock a running dispatch owns its row,
\* whatever the skew, the delays between statements and the crashes.
THEOREM LeaseIsProtected == Spec => []LeaseProtects
  <1>1. FenceInv => LeaseProtects
    BY DEF FenceInv, Ownership, Owns, Fenced, LeaseProtects
  <1> QED
    BY <1>1, InitFence, NextFence, PTL DEF Spec

\* FailDelivery's decision, taken without reading the row, is always the row's.
THEOREM ExhaustionIsExact == Spec => []ExhaustionExact
  <1>1. FenceInv => ExhaustionExact
    BY DEF FenceInv
  <1> QED
    BY <1>1, InitFence, NextFence, PTL DEF Spec

\* No listener runs for an event that was not published.
THEOREM OnlyPublishedRuns == Spec => []RunsPublishedOnly
  <1>1. FenceInv => RunsPublishedOnly
    BY DEF FenceInv, TypeOK, WorkerRecord, RowsPublished, RunsPublishedOnly, Visible
  <1> QED
    BY <1>1, InitFence, NextFence, PTL DEF Spec

\* No step takes a delivery out of COMPLETED: inserts skip existing rows, claims
\* need a due row, settlements a processing one.
THEOREM CompletionIsFinal == Spec => CompletedIsFinal
  <1> DEFINE Final == \A m \in Messages : delivery[m].status = "COMPLETED"
                                          => delivery'[m].status = "COMPLETED"
  <1>1. FenceInv /\ [Next]_vars => [Final]_delivery
    <2> SUFFICES ASSUME FenceInv, [Next]_vars PROVE Final
      OBVIOUS
    <2>1. ASSUME NEW m \in Messages, Publication(m) PROVE Final
      <3>1. delivery \in [Messages -> DeliveryRecord] /\ delivery[m] \in DeliveryRecord
        BY DEF FenceInv, TypeOK
      <3>2. delivery' = delivery \/ delivery' = [delivery EXCEPT ![m] = Inserted(delivery[m])]
        BY <2>1 DEF Publication, BeginPublish, CommitPublish, RollbackPublish,
                    DiscardPublish, StoreMessage, StoreDeliveries, StoreDeliveriesFails
      <3> QED
        BY <3>1, <3>2, InsertedEffect
    <2>2. ASSUME NEW m \in Messages, ResubmitDelivery(m) PROVE Final
      <3>1. delivery \in [Messages -> DeliveryRecord]
        BY DEF FenceInv, TypeOK
      <3>2. delivery[m].status # "COMPLETED"
            /\ \A k \in Messages \ {m} : delivery'[k] = delivery[k]
        BY <2>2, <3>1 DEF ResubmitDelivery
      <3> QED
        BY <3>2
    <2>3. ASSUME NEW n \in Hosts, Pass(n) PROVE Final
      <3>1. CASE MaterializeDeliveries(n)
        <4>1. \A k \in Messages : delivery[k] \in DeliveryRecord
          BY DEF FenceInv, TypeOK
        <4> QED
          BY <3>1, <4>1, InsertedEffect DEF MaterializeDeliveries
      <3>2. CASE delivery' = delivery
        BY <3>2
      <3> QED
        BY <2>3, <3>1, <3>2
        DEF Pass, Attach, StartPass, AdvanceFrontier, AbortPass, FindDueDeliveries
    <2>4. ASSUME NEW w \in Workers, Delivering(w) PROVE Final
      <3>1. CASE ClaimStep(w)
        <4>1. CASE ClaimCondition(w) /\ Claimed(w)
          <5>1. delivery[worker[w].msg].status # "COMPLETED"
            BY <4>1 DEF ClaimCondition, Due
          <5> QED
            BY <4>1, <5>1, ClaimedEffect DEF FenceInv
        <4> QED
          BY <3>1, <4>1 DEF ClaimStep, NotClaimed
      <3>2. CASE SettleStep(w)
        BY <3>2, SettledEffect DEF FenceInv, SettlementCondition
      <3>3. CASE delivery' = delivery
        BY <3>3
      <3> QED
        BY <2>4, <3>1, <3>2, <3>3, WorkerStep DEF EndBatch, Dispatch
    <2>5. CASE delivery' = delivery
      BY <2>5
    <2> QED
      BY <2>1, <2>2, <2>3, <2>4, <2>5 DEF Next, Crash, Tick, vars
  <1> QED
    BY <1>1, InitFence, NextFence, PTL DEF Spec, CompletedIsFinal

-----------------------------------------------------------------------------
(***************************************************************************)
(* The order.  An ordered claim judges the rows of the queue, so what it   *)
(* decides is the order of the events only where the queue is complete:    *)
(* below the frontier, where find looks, and where a claim must still be   *)
(* when it is sent.  Under SQLite a claim is one step; PostgreSQL takes    *)
(* two, and the run SqlBusPostgres refutes what follows.                   *)
(***************************************************************************)

\* Event m is covered by the queue: it is out, and the frontier has passed it.
Ready(m) == consumer.registered /\ Visible(m) /\ msg[m].date < consumer.frontier

\* The consumer is ordered; without fast paths only the dispatchers of hosts work.
Ordered ==
    /\ consumer.registered => consumer.ordering = "FIFO"
    /\ \A m \in Messages : /\ msg[m].local => consumer.registered
                           /\ worker[m].phase = "idle"
    /\ \A w \in Workers : /\ worker[w].phase # "idle" => consumer.registered
                          /\ worker[w].phase # "write"

\* What a dispatcher has found or sends a claim for lies below the frontier.
BelowFrontier ==
    \A w \in Workers : /\ \A x \in worker[w].due : Ready(x.msg)
                       /\ worker[w].phase = "claim" => Ready(worker[w].msg)

\* The inductive invariant of the order, beside those of the frontier and of the fence.
OrderInv == FrontierInv /\ FenceInv /\ Ordered /\ BelowFrontier /\ SerialWithinLease

\* Nobody un-registers the consumer, and its frontier only moves on.
LEMMA ConsumerStays ==
    ASSUME TypeOK, consumer.registered, [Next]_vars
    PROVE  /\ consumer'.registered /\ consumer'.ordering = consumer.ordering
           /\ consumer'.frontier >= consumer.frontier
  <1>1. CASE consumer' = consumer
    BY <1>1 DEF TypeOK, ConsumerRecord
  <1>2. ASSUME NEW n \in Hosts, AdvanceFrontier(n)
        PROVE  /\ consumer'.registered /\ consumer'.ordering = consumer.ordering
               /\ consumer'.frontier >= consumer.frontier
    <2>1. worker[n].clock \in Int
      BY NodesAssumption DEF TypeOK, WorkerRecord, Workers
    <2> QED
      BY <1>2, <2>1 DEF AdvanceFrontier, TypeOK, ConsumerRecord
  <1>3. ASSUME NEW n \in Hosts, Pass(n)
        PROVE  consumer' = consumer \/ AdvanceFrontier(n)
    BY <1>3 DEF Pass, Attach, StartPass, MaterializeDeliveries, AbortPass, FindDueDeliveries
  <1>4. ASSUME NEW m \in Messages, Publication(m) \/ ResubmitDelivery(m)
        PROVE  consumer' = consumer
    BY <1>4 DEF Publication, BeginPublish, CommitPublish, RollbackPublish, DiscardPublish,
                StoreMessage, StoreDeliveries, StoreDeliveriesFails, ResubmitDelivery
  <1>5. ASSUME NEW w \in Workers, Delivering(w)
        PROVE  consumer' = consumer
    BY <1>5, WorkerStep
  <1> QED
    BY <1>1, <1>2, <1>3, <1>4, <1>5 DEF Next, Crash, Tick, vars

\* A message that is out stays out, at its date.
LEMMA VisibleStays ==
    ASSUME TypeOK, NEW m \in Messages, Visible(m), [Next]_vars
    PROVE  Visible(m)' /\ msg'[m].date = msg[m].date
  <1>0. msg \in [Messages -> MessageRecord]
    BY DEF TypeOK
  <1>1. CASE msg' = msg
    BY <1>1 DEF Visible
  <1>2. ASSUME NEW k \in Messages, Publication(k) \/ ResubmitDelivery(k)
        PROVE  Visible(m)' /\ msg'[m].date = msg[m].date
    <2>1. CASE k # m
      BY <1>0, <1>2, <2>1
      DEF Publication, BeginPublish, CommitPublish, RollbackPublish, DiscardPublish,
          StoreMessage, StoreDeliveries, StoreDeliveriesFails, ResubmitDelivery, Visible
    <2>2. CASE k = m
      BY <1>0, <1>2, <2>2
      DEF Publication, BeginPublish, CommitPublish, RollbackPublish, DiscardPublish,
          StoreMessage, StoreDeliveries, StoreDeliveriesFails, ResubmitDelivery, Visible,
          MessageRecord
    <2> QED
      BY <2>1, <2>2
  <1>3. ASSUME NEW n \in Faulty, Crash(n)
        PROVE  Visible(m)' /\ msg'[m].date = msg[m].date
    <2>1. msg[m] \in MessageRecord
      BY <1>0
    <2> QED
      BY <1>3, <2>1 DEF Crash, Visible, MessageRecord, MessageStates
  <1>4. ASSUME NEW n \in Hosts, Pass(n)
        PROVE  msg' = msg
    BY <1>4 DEF Pass, Attach, StartPass, MaterializeDeliveries, AdvanceFrontier, AbortPass,
                FindDueDeliveries
  <1>5. ASSUME NEW w \in Workers, Delivering(w)
        PROVE  msg' = msg
    BY <1>5, WorkerStep
  <1> QED
    BY <1>1, <1>2, <1>3, <1>4, <1>5 DEF Next, Tick, vars

\* What the queue covers stays covered.
LEMMA ReadyStays ==
    ASSUME TypeOK, TypeOK', NEW m \in Messages, Ready(m), [Next]_vars
    PROVE  Ready(m)'
  <1>1. Visible(m)' /\ msg'[m].date = msg[m].date
    BY VisibleStays DEF Ready
  <1>2. consumer'.registered /\ consumer'.frontier >= consumer.frontier
    BY ConsumerStays DEF Ready
  <1>3. msg[m].date \in Int /\ consumer.frontier \in Int /\ consumer'.frontier \in Int
    BY DEF TypeOK, MessageRecord, ConsumerRecord
  <1> QED
    BY <1>1, <1>2, <1>3 DEF Ready

\* The claim of an ordered delivery that takes effect.
ClaimsInOrder(w) ==
    /\ worker[w].phase = "claim" /\ ClaimCondition(w) /\ InOrder(w) /\ Claimed(w)
    /\ UNCHANGED <<now, msg, consumer>>

\* What a step does with worker w: nothing; it stays outside a dispatch, with less to do or
\* with what the find just found; it begins a dispatch on what it had to do; or it claims.
Moves(w) ==
    \/ worker'[w] = worker[w]
    \/ /\ worker'[w].phase \notin Claiming
       /\ worker'[w].phase # "idle" => w \in Nodes /\ consumer.registered
       /\ \A x \in worker'[w].due : x \in worker[w].due \/ Ready(x.msg)
    \/ /\ w \in Nodes /\ worker[w].phase # "idle" /\ worker'[w].phase = "claim"
       /\ \E x \in worker[w].due : worker'[w].msg = x.msg
       /\ worker'[w].due \subseteq worker[w].due
    \/ ClaimsInOrder(w)

\* A worker that rests keeps part of its batch, or has one that is covered.
LEMMA RestMoves ==
    ASSUME TypeOK, NEW w \in Workers, NEW phase \in {"idle", "find", "batch"}, NEW due,
           worker' = [worker EXCEPT ![w] = Resting(phase, due)],
           phase # "idle" => w \in Nodes /\ consumer.registered,
           \A x \in due : x \in worker[w].due \/ Ready(x.msg)
    PROVE  \A v \in Workers : Moves(v)
  <1>1. /\ worker'[w].phase = phase /\ worker'[w].due = due
        /\ \A v \in Workers \ {w} : worker'[v] = worker[v]
    BY RestingPhase DEF TypeOK
  <1> QED
    BY <1>1 DEF Moves, Claiming

\* No publication starts a fast path: an ordered consumer has none.
LEMMA PublicationMoves ==
    ASSUME FrontierInv, Ordered, NEW m \in Messages, Publication(m) \/ ResubmitDelivery(m)
    PROVE  worker' = worker
  <1>1. \A keys : (keys => consumer.ordering = "FIFO") => FastPath(m, keys) = worker[m]
    BY DEF FastPath
  <1>2. msg[m].local => consumer.ordering = "FIFO"
    BY DEF Ordered
  <1>3. Publisher[m] \in attached => consumer.ordering = "FIFO"
    BY DEF FrontierInv, RegisteredFirst, Ordered
  <1>4. worker = [worker EXCEPT ![m] = worker[m]]
    BY DEF FrontierInv, TypeOK, Workers
  <1>5. CASE CommitPublish(m) \/ DiscardPublish(m)
    <2>1. FastPath(m, msg[m].local) = worker[m]
      BY <1>1, <1>2
    <2> QED
      BY <1>4, <1>5, <2>1 DEF CommitPublish, DiscardPublish
  <1>6. CASE StoreDeliveries(m)
    <2>1. FastPath(m, Publisher[m] \in attached) = worker[m]
      BY <1>1, <1>3
    <2> QED
      BY <1>4, <1>6, <2>1 DEF StoreDeliveries
  <1> QED
    BY <1>5, <1>6 DEF Publication, BeginPublish, RollbackPublish, StoreMessage,
                      StoreDeliveriesFails, ResubmitDelivery

\* A pass finds what lies below the frontier.
LEMMA PassMoves ==
    ASSUME FrontierInv, FenceInv, Ordered, NEW n \in Hosts, Pass(n)
    PROVE  \A v \in Workers : Moves(v)
  <1>0. /\ n \in Nodes /\ n \in Workers /\ worker \in [Workers -> WorkerRecord]
        /\ worker[n] \in WorkerRecord /\ TypeOK
    BY NodesAssumption DEF FrontierInv, TypeOK, Workers
  <1>1. CASE Attach(n)
    BY <1>1 DEF Attach, Moves
  <1>2. CASE StartPass(n)
    <2>1. /\ worker'[n].phase = "materialize" /\ worker'[n].due = worker[n].due
          /\ \A v \in Workers \ {n} : worker'[v] = worker[v]
      BY <1>0, <1>2 DEF StartPass, WorkerRecord
    <2>2. consumer.registered
      BY <1>2 DEF StartPass, FrontierInv, RegisteredFirst
    <2> QED
      BY <1>0, <2>1, <2>2 DEF Moves, Claiming
  <1>3. CASE MaterializeDeliveries(n)
    <2>1. /\ worker'[n].phase = "advance" /\ worker'[n].due = worker[n].due
          /\ \A v \in Workers \ {n} : worker'[v] = worker[v]
          /\ worker[n].phase = "materialize"
      BY <1>0, <1>3 DEF MaterializeDeliveries, WorkerRecord
    <2> QED
      BY <1>0, <2>1 DEF Moves, Claiming, Ordered
  <1>4. CASE AdvanceFrontier(n)
    <2>1. worker' = [worker EXCEPT ![n] = Resting("find", {})] /\ worker[n].phase = "advance"
      BY <1>4 DEF AdvanceFrontier
    <2>2. consumer.registered
      BY <1>0, <2>1 DEF Ordered
    <2>3. /\ worker'[n].phase = "find" /\ worker'[n].due = {}
          /\ \A v \in Workers \ {n} : worker'[v] = worker[v]
      BY <1>0, <2>1, RestingPhase
    <2> QED
      BY <1>0, <2>2, <2>3 DEF Moves, Claiming
  <1>5. CASE AbortPass(n)
    <2>1. worker' = [worker EXCEPT ![n] = Resting("idle", {})]
      BY <1>5 DEF AbortPass
    <2>2. /\ worker'[n].phase = "idle" /\ worker'[n].due = {}
          /\ \A v \in Workers \ {n} : worker'[v] = worker[v]
      BY <1>0, <2>1, RestingPhase
    <2> QED
      BY <1>0, <2>2 DEF Moves, Claiming
  <1>6. CASE FindDueDeliveries(n)
    <2> DEFINE found == FirstOf(Claimable(Clock(n)))
               due == {[msg |-> m, attempts |-> delivery[m].attempts] : m \in found}
    <2>1. worker[n].phase = "find"
          /\ worker' = [worker EXCEPT ![n] = Resting(IF found = {} THEN "idle" ELSE "batch", due)]
      BY <1>6 DEF FindDueDeliveries
    <2>2. consumer.registered /\ consumer.ordering = "FIFO"
      BY <1>0, <2>1 DEF Ordered
    <2>3. ASSUME NEW m \in found
          PROVE  Ready(m)
      <3>1. m \in Messages /\ Due(m, Clock(n)) /\ msg[m].date < consumer.frontier
        BY <2>2 DEF FirstOf, Claimable
      <3>2. delivery[m].status # "ABSENT"
        BY <3>1 DEF Due
      <3> QED
        BY <2>2, <3>1, <3>2 DEF Ready, FenceInv, RowsPublished
    <2>4. \A x \in due : Ready(x.msg)
      BY <2>3
    <2> HIDE DEF found, due
    <2>5. (IF found = {} THEN "idle" ELSE "batch") \in {"idle", "find", "batch"}
      OBVIOUS
    <2> QED
      BY <1>0, <2>1, <2>2, <2>4, <2>5, RestMoves
  <1> QED
    BY <1>1, <1>2, <1>3, <1>4, <1>5, <1>6 DEF Pass

\* A dispatcher claims in order or not at all.
LEMMA DeliveringMoves ==
    ASSUME Dialect = "sqlite", FrontierInv, Ordered, NEW w \in Workers, Delivering(w)
    PROVE  \A v \in Workers : Moves(v)
  <1>0. /\ TypeOK /\ worker \in [Workers -> WorkerRecord]
    BY DEF FrontierInv, TypeOK
  <1>1. worker[w].phase # "idle" => w \in Nodes /\ consumer.registered /\ consumer.ordering = "FIFO"
    BY DEF Ordered, Workers
  <1>2. CASE NotClaimed(w) /\ worker[w].phase # "idle"
    BY <1>0, <1>1, <1>2, RestMoves DEF NotClaimed
  <1>3. CASE SettleStep(w)
    <2>1. worker[w].phase = "run" /\ worker' = [worker EXCEPT ![w] = Resting("batch", worker[w].due)]
      BY <1>0, <1>3, SettledEffect
    <2> QED
      BY <1>0, <1>1, <2>1, RestMoves
  <1>4. CASE EndBatch(w)
    <2>1. PICK phase \in {"find", "idle"} : worker' = [worker EXCEPT ![w] = Resting(phase, {})]
      BY <1>4 DEF EndBatch
    <2> QED
      BY <1>0, <1>1, <1>4, <2>1, RestMoves DEF EndBatch
  <1>5. CASE Dispatch(w)
    <2>1. PICK x \in worker[w].due :
             worker' = [worker EXCEPT ![w] =
                          [phase |-> "claim", msg |-> x.msg, attempts |-> x.attempts,
                           clock |-> Clock(Home(w)), due |-> worker[w].due \ {x}]]
      BY <1>5 DEF Dispatch
    <2>2. /\ worker'[w].phase = "claim" /\ worker'[w].msg = x.msg
          /\ worker'[w].due = worker[w].due \ {x}
          /\ \A v \in Workers \ {w} : worker'[v] = worker[v]
      BY <1>0, <2>1
    <2>3. worker[w].phase = "batch"
      BY <1>5 DEF Dispatch
    <2> QED
      BY <1>1, <2>2, <2>3 DEF Moves
  <1>6. CASE ClaimDelivery(w)
    BY <1>1, <1>6 DEF ClaimDelivery
  <1>7. CASE ClaimDeliveryInOrder(w)
    <2>1. CASE ClaimCondition(w) /\ InOrder(w) /\ Claimed(w)
      <3>1. ClaimsInOrder(w)
        BY <1>7, <2>1 DEF ClaimDeliveryInOrder, ClaimsInOrder
      <3>2. \A v \in Workers \ {w} : worker'[v] = worker[v]
        BY <1>0, <2>1, ClaimedEffect
      <3> QED
        BY <3>1, <3>2 DEF Moves
    <2> QED
      BY <1>2, <1>7, <2>1 DEF ClaimDeliveryInOrder
  <1>8. ~SnapshotInOrder(w) /\ ~WriteInOrder(w)
    BY DEF SnapshotInOrder, WriteInOrder, Ordered
  <1> QED
    BY <1>3, <1>4, <1>5, <1>6, <1>7, <1>8 DEF Delivering, SettleStep

LEMMA WorkersMove ==
    ASSUME Dialect = "sqlite", FrontierInv, FenceInv, Ordered, [Next]_vars
    PROVE  \A v \in Workers : Moves(v)
  <1>1. CASE worker' = worker
    BY <1>1 DEF Moves
  <1>2. ASSUME NEW n \in Faulty, Crash(n)
        PROVE  \A v \in Workers : Moves(v)
    <2>1. \A v \in Workers : \/ worker'[v] = worker[v]
                             \/ worker'[v].phase = "idle" /\ worker'[v].due = {}
      BY <1>2, RestingPhase DEF Crash
    <2> QED
      BY <2>1 DEF Moves, Claiming
  <1> QED
    BY <1>1, <1>2, PublicationMoves, PassMoves, DeliveringMoves DEF Next, Tick, vars

\* A registered consumer is ordered, and a message has local rows only for one.
LEMMA OrderedPreserved ==
    ASSUME Dialect = "sqlite", Orderings \subseteq {"FIFO"}, FrontierInv, FenceInv, Ordered,
           [Next]_vars
    PROVE  Ordered'
  <1>0. TypeOK /\ TypeOK' /\ \A v \in Workers : Moves(v)
    BY WorkersMove, NextType DEF FrontierInv
  <1>1. consumer.registered => consumer'.registered /\ consumer'.ordering = "FIFO"
    BY <1>0, ConsumerStays DEF Ordered
  <1>2. consumer'.registered => consumer'.ordering = "FIFO"
    <2>1. CASE consumer.registered
      BY <1>1, <2>1
    <2>2. CASE ~consumer.registered
      <3>1. ASSUME NEW n \in Hosts, Pass(n), consumer' # consumer
            PROVE  consumer'.ordering = "FIFO"
        <4>1. CASE Attach(n)
          <5>1. PICK ordering \in Orderings :
                   consumer' = [registered |-> TRUE, ordering |-> ordering,
                                boundary |-> Ceiling(n), frontier |-> Ceiling(n)]
            BY <2>2, <4>1 DEF Attach
          <5> QED
            BY <5>1
        <4>2. ~AdvanceFrontier(n)
          <5>1. worker[n].phase # "advance"
            BY <2>2, NodesAssumption DEF Ordered, Workers
          <5> QED
            BY <5>1 DEF AdvanceFrontier
        <4> QED
          BY <3>1, <4>1, <4>2 DEF Pass, StartPass, MaterializeDeliveries, AbortPass,
                                  FindDueDeliveries
      <3>2. ASSUME NEW m \in Messages, Publication(m) \/ ResubmitDelivery(m)
            PROVE  consumer' = consumer
        BY <3>2 DEF Publication, BeginPublish, CommitPublish, RollbackPublish, DiscardPublish,
                    StoreMessage, StoreDeliveries, StoreDeliveriesFails, ResubmitDelivery
      <3>3. ASSUME NEW w \in Workers, Delivering(w)
            PROVE  consumer' = consumer
        BY <3>3, WorkerStep
      <3>4. consumer' = consumer \/ consumer'.ordering = "FIFO"
        BY <3>1, <3>2, <3>3 DEF Next, Crash, Tick, vars
      <3> QED
        BY <2>2, <3>4
    <2> QED
      BY <2>1, <2>2
  <1>3. ASSUME NEW m \in Messages
        PROVE  /\ msg'[m].local => consumer'.registered
               /\ worker'[m].phase = "idle"
    <2>1. m \in Workers /\ m \notin Nodes /\ worker[m].phase = "idle"
      BY NodesAssumption DEF Workers, Ordered
    <2>2. worker'[m].phase = "idle"
      BY <1>0, <2>1 DEF Moves, ClaimsInOrder
    <2>3. msg'[m].local => msg[m].local \/ attached # {}
      <3>0. msg \in [Messages -> MessageRecord] /\ msg[m] \in MessageRecord
        BY <1>0 DEF TypeOK
      <3>1. CASE msg' = msg
        BY <3>1
      <3>2. ASSUME NEW k \in Messages, Publication(k) \/ ResubmitDelivery(k)
            PROVE  msg'[m].local => msg[m].local \/ attached # {}
        BY <3>0, <3>2
        DEF Publication, BeginPublish, CommitPublish, RollbackPublish, DiscardPublish,
            StoreMessage, StoreDeliveries, StoreDeliveriesFails, ResubmitDelivery, MessageRecord
      <3>3. ASSUME NEW n \in Faulty, Crash(n)
            PROVE  msg'[m].local => msg[m].local
        BY <3>0, <3>3 DEF Crash, MessageRecord
      <3>4. ASSUME NEW n \in Hosts, Pass(n)
            PROVE  msg' = msg
        BY <3>4 DEF Pass, Attach, StartPass, MaterializeDeliveries, AdvanceFrontier, AbortPass,
                    FindDueDeliveries
      <3>5. ASSUME NEW w \in Workers, Delivering(w)
            PROVE  msg' = msg
        BY <3>5, WorkerStep
      <3> QED
        BY <3>1, <3>2, <3>3, <3>4, <3>5 DEF Next, Tick, vars
    <2>4. msg[m].local \/ attached # {} => consumer.registered
      BY DEF Ordered, FrontierInv, RegisteredFirst
    <2> QED
      BY <1>1, <2>2, <2>3, <2>4
  <1>4. ASSUME NEW w \in Workers
        PROVE  /\ worker'[w].phase # "idle" => consumer'.registered
               /\ worker'[w].phase # "write"
    <2>1. CASE ClaimsInOrder(w)
      BY <1>0, <1>1, <2>1, ClaimedEffect DEF ClaimsInOrder, Ordered
    <2> QED
      BY <1>0, <1>1, <2>1 DEF Moves, Claiming, Ordered
  <1> QED
    BY <1>2, <1>3, <1>4 DEF Ordered

\* What a dispatcher has to do stays below the frontier.
LEMMA BelowFrontierPreserved ==
    ASSUME Dialect = "sqlite", FrontierInv, FenceInv, Ordered, BelowFrontier, [Next]_vars
    PROVE  BelowFrontier'
  <1>0. TypeOK /\ TypeOK' /\ \A v \in Workers : Moves(v)
    BY WorkersMove, NextType DEF FrontierInv
  <1>1. \A m \in Messages : Ready(m) => Ready(m)'
    BY <1>0, ReadyStays
  <1>2. \A v \in Workers : /\ \A x \in worker[v].due : x.msg \in Messages
                           /\ \A x \in worker'[v].due : x.msg \in Messages
                           /\ worker[v].msg \in Messages
    BY <1>0 DEF TypeOK, WorkerRecord, Work
  <1>3. ASSUME NEW v \in Workers
        PROVE  /\ \A x \in worker'[v].due : Ready(x.msg)
               /\ worker'[v].phase = "claim" => Ready(worker'[v].msg)
    <2>1. CASE ClaimsInOrder(v)
      <3>1. worker'[v].phase = "run"
        BY <1>0, <2>1, ClaimedEffect DEF ClaimsInOrder
      <3>2. worker'[v].due = worker[v].due
        BY <1>0, <2>1 DEF ClaimsInOrder, Claimed, TypeOK, WorkerRecord
      <3> QED
        BY <3>1, <3>2 DEF BelowFrontier
    <2> QED
      BY <1>0, <2>1 DEF Moves, Claiming, BelowFrontier
  <1>4. ASSUME NEW v \in Workers
        PROVE  /\ \A x \in worker'[v].due : Ready(x.msg)'
               /\ worker'[v].phase = "claim" => Ready(worker[v].msg)'
    <2>1. worker'[v].msg \in Messages
      BY <1>0 DEF TypeOK, WorkerRecord
    <2>2. PICK m \in Messages : m = worker'[v].msg
      BY <2>1
    <2>3. Ready(m)' <=> Ready(worker[v].msg)'
      BY <2>2 DEF Ready, Visible
    <2>4. worker'[v].phase = "claim" => Ready(m)
      BY <1>3, <2>2
    <2>5. \A x \in worker'[v].due : Ready(x.msg)'
      <3> TAKE x \in worker'[v].due
      <3>1. PICK k \in Messages : k = x.msg
        BY <1>2
      <3>2. Ready(k)'
        BY <1>1, <1>3, <3>1
      <3> QED
        BY <3>1, <3>2
    <2> QED
      BY <1>1, <2>3, <2>4, <2>5
  <1> QED
    BY <1>4 DEF BelowFrontier, Ready, Visible

\* An ordered claim takes effect only when every other lease of the listener has expired
\* somewhere.
LEMMA ClaimIsAlone ==
    ASSUME FenceInv, NEW w \in Workers, ClaimsInOrder(w),
           NEW v \in Workers, v # w, worker[v].phase = "run"
    PROVE  ~LeaseLive(v)
  <1> SUFFICES ASSUME LeaseLive(v)
               PROVE  FALSE
    OBVIOUS
  <1>1. Owns(v) /\ worker[v].msg \in Messages /\ worker[w].msg \in Messages
    BY DEF FenceInv, Ownership, Fenced, TypeOK, WorkerRecord
  <1>2. Home(w) \in Hosts /\ worker[w].clock <= Clock(Home(w))
    BY DEF FenceInv, OnHosts, ClockPast, Claiming, ClaimsInOrder
  <1>3. Clock(Home(w)) \in Nat /\ worker[v].clock \in Int /\ worker[w].clock \in Int
        /\ Lease \in Nat
    BY HomeType, ClockType, TimesAssumption DEF FenceInv, TypeOK, WorkerRecord
  <1>4. worker[v].clock >= worker[w].clock - Lease
    BY <1>2, <1>3 DEF LeaseLive
  <1>5. /\ delivery[worker[v].msg].status = "PROCESSING"
        /\ delivery[worker[v].msg].claimDate = worker[v].clock
    BY <1>1 DEF Owns, SettlementCondition
  <1>6. CASE worker[v].msg = worker[w].msg
    <2>1. worker[v].clock < worker[w].clock - Lease
      BY <1>5, <1>6 DEF ClaimsInOrder, ClaimCondition, Due
    <2> QED
      BY <1>3, <1>4, <2>1
  <1>7. CASE worker[v].msg # worker[w].msg
    BY <1>1, <1>4, <1>5, <1>7 DEF ClaimsInOrder, InOrder, ConcurrentProcessingExists
  <1> QED
    BY <1>6, <1>7

LEMMA SerialPreserved ==
    ASSUME Dialect = "sqlite", FrontierInv, FenceInv, Ordered, SerialWithinLease, [Next]_vars
    PROVE  SerialWithinLease'
  <1>0. TypeOK /\ TypeOK' /\ \A v \in Workers : Moves(v)
    BY WorkersMove, NextType DEF FrontierInv
  <1>1. now' >= now /\ now \in Nat /\ now' \in Nat
    <2>1. ASSUME NEW n \in Hosts, Pass(n)
          PROVE  now' = now
      BY <2>1 DEF Pass, Attach, StartPass, MaterializeDeliveries, AdvanceFrontier, AbortPass,
                  FindDueDeliveries
    <2>2. ASSUME NEW w \in Workers, Delivering(w)
          PROVE  now' = now
      BY <2>2, WorkerStep
    <2>3. ASSUME NEW m \in Messages, Publication(m) \/ ResubmitDelivery(m)
          PROVE  now' = now
      BY <2>3 DEF Publication, BeginPublish, CommitPublish, RollbackPublish, DiscardPublish,
                  StoreMessage, StoreDeliveries, StoreDeliveriesFails, ResubmitDelivery
    <2> QED
      BY <1>0, <2>1, <2>2, <2>3 DEF Next, Crash, Tick, vars, TypeOK
  <1>2. ASSUME NEW v \in Workers, worker'[v].phase = "run", LeaseLive(v)'
        PROVE  \/ ClaimsInOrder(v)
               \/ worker[v].phase = "run" /\ LeaseLive(v)
    <2>1. worker'[v] = worker[v] \/ ClaimsInOrder(v)
      BY <1>0, <1>2 DEF Moves, Claiming
    <2>2. CASE worker'[v] = worker[v]
      <3>1. ASSUME NEW n \in Hosts
            PROVE  worker[v].clock >= Clock(n) - Lease
        <4>1. Skew[n] \in Nat /\ Lease \in Nat /\ worker[v].clock \in Int
          BY <1>0, NodesAssumption, TimesAssumption DEF TypeOK, WorkerRecord
        <4>2. worker'[v].clock >= Clock(n)' - Lease
          BY <1>2 DEF LeaseLive
        <4>3. Clock(n)' = now' + Skew[n]
          BY DEF Clock
        <4> QED
          BY <1>1, <2>2, <4>1, <4>2, <4>3 DEF Clock
      <3> QED
        BY <1>2, <2>2, <3>1 DEF LeaseLive
    <2> QED
      BY <2>1, <2>2
  <1>3. ASSUME NEW v \in Workers, NEW w \in Workers, ClaimsInOrder(v), ClaimsInOrder(w)
        PROVE  v = w
    BY <1>0, <1>3, ClaimedEffect DEF ClaimsInOrder
  <1>4. ASSUME NEW w \in Workers, worker'[w].phase = "run", LeaseLive(w)',
               NEW v \in Workers, worker'[v].phase = "run", LeaseLive(v)'
        PROVE  w = v
    BY <1>2, <1>3, <1>4, ClaimIsAlone DEF SerialWithinLease
  <1> QED
    BY <1>4 DEF SerialWithinLease

LEMMA OrderInvariant ==
    ASSUME Dialect = "sqlite", Orderings \subseteq {"FIFO"}
    PROVE  Spec => []OrderInv
  <1>1. Init => OrderInv
    <2> SUFFICES ASSUME Init
                 PROVE  OrderInv
      OBVIOUS
    <2>1. \A w \in Workers : worker[w].phase = "idle" /\ worker[w].due = {}
      BY RestingPhase DEF Init
    <2>2. ~consumer.registered /\ \A m \in Messages : msg[m].local = FALSE /\ m \in Workers
      BY DEF Init, Workers
    <2> QED
      BY <2>1, <2>2, InitFrontier, InitFence
      DEF OrderInv, Ordered, BelowFrontier, SerialWithinLease
  <1>2. OrderInv /\ [Next]_vars => OrderInv'
    BY NextFrontier, NextFence, OrderedPreserved, BelowFrontierPreserved, SerialPreserved
    DEF OrderInv
  <1> QED
    BY <1>1, <1>2, PTL DEF Spec

\* Two deliveries of an ordered listener never run at once while their leases last, whatever
\* the clocks, the crashes and the settlements that come too late.
THEOREM OrderedIsSerial ==
    ASSUME Dialect = "sqlite", Orderings \subseteq {"FIFO"}
    PROVE  Spec => []SerialWithinLease
  <1>1. OrderInv => SerialWithinLease
    BY DEF OrderInv
  <1> QED
    BY <1>1, OrderInvariant, PTL

\* Whenever a delivery of an ordered listener starts, every event before it that the consumer
\* covers is completed or a dead letter, and none is still waiting to commit.
THEOREM OrderedIsInOrder ==
    ASSUME Dialect = "sqlite", Orderings \subseteq {"FIFO"}
    PROVE  Spec => FifoInOrder
  <1> DEFINE Starts == \A w \in Workers :
                         worker[w].phase # "run" /\ worker'[w].phase = "run"
                         => \A k \in Messages :
                              /\ Before(k, worker[w].msg)
                              /\ msg[k].date >= consumer.boundary
                              /\ msg[k].state \notin {"none", "lost"}
                              => delivery[k].status \in {"COMPLETED", "EXHAUSTED"}
  <1>1. OrderInv /\ [Next]_vars => Starts
    <2> SUFFICES ASSUME OrderInv, [Next]_vars,
                        NEW w \in Workers, worker[w].phase # "run", worker'[w].phase = "run",
                        NEW k \in Messages, Before(k, worker[w].msg),
                        msg[k].date >= consumer.boundary, msg[k].state \notin {"none", "lost"}
                 PROVE  delivery[k].status \in {"COMPLETED", "EXHAUSTED"}
      OBVIOUS
    <2>1. ClaimsInOrder(w)
      BY WorkersMove DEF OrderInv, Moves, Claiming
    <2>2. /\ Ready(worker[w].msg) /\ worker[w].msg \in Messages
      BY <2>1 DEF OrderInv, FenceInv, TypeOK, WorkerRecord, BelowFrontier, ClaimsInOrder
    <2>3. /\ msg[k].date \in Int /\ msg[worker[w].msg].date \in Int
          /\ consumer.frontier \in Int /\ consumer.boundary \in Int
      BY <2>2 DEF OrderInv, FenceInv, TypeOK, MessageRecord, ConsumerRecord
    <2>4. msg[k].date < consumer.frontier /\ consumer.registered
      BY <2>2, <2>3 DEF Before, Ready
    <2>5. msg[k].state \notin {"open", "auto"}
      BY <2>3, <2>4, FrontierInvImplies DEF OrderInv, NoLateCommit
    <2>6. Visible(k)
      BY <2>5 DEF OrderInv, FenceInv, TypeOK, MessageRecord, MessageStates, Visible
    <2>7. delivery[k].status # "ABSENT"
      BY <2>3, <2>4, <2>6, FrontierInvImplies DEF OrderInv, FrontierComplete
    <2>8. delivery[k].status \notin Incomplete
      BY <2>1 DEF ClaimsInOrder, InOrder, EarlierIncompleteExists
    <2> QED
      BY <2>7, <2>8 DEF OrderInv, FenceInv, TypeOK, DeliveryRecord, Statuses
  <1> QED
    BY <1>1, OrderInvariant, PTL DEF Spec, FifoInOrder
=============================================================================
