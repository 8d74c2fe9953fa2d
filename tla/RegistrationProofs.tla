------------------------- MODULE RegistrationProofs -------------------------
(***************************************************************************)
(* Proofs about Registration for any hosts, maintainers, messages,         *)
(* deployments and times: the arbitration of the delivery mode, and that   *)
(* the upkeep takes nothing away from a registered consumer.               *)
(***************************************************************************)
EXTENDS Registration, TLAPS

(* The invariants.                                                         *)

\* The registration of the listener is the one every attachment agrees with, and
\* nobody is attached, or attaching, while Detach is under way.
Arbitrated ==
    /\ \A a, b \in listener : a = b
    /\ \A n \in Hosts : /\ host[n].phase = "read" => listener # {}
                        /\ host[n].phase \in {"register", "on"} => host[n].want \in listener
    /\ detach.phase # "idle" => \A n \in Hosts : host[n].phase = "off"

\* A clock in hand is neither older than a stall nor in the future.
Clocks ==
    /\ \A n \in Hosts : /\ host[n].phase = "register" => now <= host[n].clock + MaxStall
                        /\ beat[n].phase # "idle" => now <= beat[n].clock + MaxStall
    /\ \A n \in Nodes : loop[n].phase # "idle" => loop[n].clock <= now

\* A message that was deleted as settled has outlived the retention.
Outlived == \A m \in Messages : message[m].state = "gone" => message[m].date < now - Retention

\* What is completed has been completed by a delivery.
Witnessed == \A x \in Messages \X Instances : delivery[x] = "COMPLETED" => x \in history.completed

\* A host that is attached has a registration, or had one that was removed.
Enlisted ==
    \A n \in Hosts :
        host[n].phase = "on" =>
            LET i == InstanceFor(n, host[n].want) IN
            consumer[i].present \/ i \in history.removed

\* The completed deliveries of a registration that was never removed are remembered
\* as long as their message survives.
Remembered ==
    \A x \in history.completed :
        /\ message[x[1]].state # "none"
        /\ x[2] \notin history.removed =>
             /\ consumer[x[2]].present
             /\ \/ delivery[x] = "COMPLETED"
                \/ delivery[x] = "ABSENT" /\ message[x[1]].state \in {"gone", "capped"}

UpkeepInv == Clocks /\ Outlived /\ CoveredKept /\ Witnessed /\ Enlisted /\ Remembered
-----------------------------------------------------------------------------
(* Types.                                                                  *)

\* Names of the records of goroutines.
LEMMA ThreadFacts ==
    ASSUME NEW phases, NEW phase \in phases, NEW want \in Registrations, now \in Nat
    PROVE  /\ At(phase, want) \in Thread(phases) /\ AtNow(phase, want) \in Thread(phases)
           /\ At(phase, want).phase = phase /\ AtNow(phase, want).phase = phase
           /\ At(phase, want).want = want /\ AtNow(phase, want).want = want
           /\ AtNow(phase, want).clock = now
  BY DEF At, AtNow, Thread

\* A thread that goes on keeps its attachment and its clock.
LEMMA ThreadGoesOn ==
    ASSUME NEW phases, NEW t \in Thread(phases), NEW phase \in phases
    PROVE  /\ [t EXCEPT !.phase = phase] \in Thread(phases)
           /\ [t EXCEPT !.phase = phase].phase = phase
           /\ [t EXCEPT !.phase = phase].want = t.want
           /\ [t EXCEPT !.phase = phase].clock = t.clock
  BY DEF Thread

\* There is something to ask for.
LEMMA SomeWantType == SomeWant \in Registrations
  <1>1. [mode |-> "COMPETING", ordering |-> "FIFO"] \in Registrations
    BY DEF Registrations, Modes
  <1> QED
    BY <1>1 DEF SomeWant

\* An idle goroutine.
LEMMA IdleFacts ==
    ASSUME NEW phases, "idle" \in phases
    PROVE  Idle \in Thread(phases) /\ Idle.phase = "idle" /\ Idle.want = SomeWant
  BY SomeWantType DEF Idle, At, Thread

\* A host that is not attached.
LEMMA OffFacts ==
    /\ At("off", SomeWant) \in Thread(HostPhases)
    /\ At("off", SomeWant).phase = "off"
  BY SomeWantType DEF At, Thread, HostPhases

\* A goroutine is replaced by another.
LEMMA ThreadUpdate ==
    ASSUME NEW Who, NEW phases, NEW threads \in [Who -> Thread(phases)],
           NEW n \in Who, NEW t \in Thread(phases)
    PROVE  /\ [threads EXCEPT ![n] = t] \in [Who -> Thread(phases)]
           /\ [threads EXCEPT ![n] = t][n] = t
           /\ \A k \in Who : k # n => [threads EXCEPT ![n] = t][k] = threads[k]
  OBVIOUS

\* The registration rows, as TypeOK has them.
ConsumerOK(c) ==
    /\ c \in [Instances -> ConsumerRecord]
    /\ \A i \in Instances : c[i].present => c[i].mode = IF i = "shared" THEN "COMPETING"
                                                       ELSE "BROADCAST"

\* The instance of a host is an instance.
LEMMA InstanceType ==
    ASSUME NEW n \in Hosts, NEW want \in Registrations
    PROVE  /\ InstanceFor(n, want) \in Instances
           /\ want.mode = IF InstanceFor(n, want) = "shared" THEN "COMPETING" ELSE "BROADCAST"
  BY HostsAssumption DEF InstanceFor, Instances, Registrations, Modes

\* A registration.
LEMMA RegisteredFacts ==
    ASSUME ConsumerOK(consumer), NEW n \in Hosts, NEW want \in Registrations, NEW clock \in Int
    PROVE  LET i == InstanceFor(n, want)
               c == Registered(n, want, clock) IN
           /\ ConsumerOK(c) /\ i \in Instances
           /\ c[i].present
           /\ c[i].boundary = IF consumer[i].present THEN consumer[i].boundary ELSE clock - Grace
           /\ c[i].frontier = IF consumer[i].present THEN consumer[i].frontier ELSE clock - Grace
           /\ \A j \in Instances : j # i => c[j] = consumer[j]
  <1> DEFINE i == InstanceFor(n, want)
             c == Registered(n, want, clock)
             kept == [consumer[i] EXCEPT !.heartbeat = clock]
             fresh == [present |-> TRUE, mode |-> want.mode, boundary |-> clock - Grace,
                       frontier |-> clock - Grace, heartbeat |-> clock]
             r == IF consumer[i].present THEN kept ELSE fresh
  <1>1. /\ i \in Instances
        /\ want.mode = IF i = "shared" THEN "COMPETING" ELSE "BROADCAST"
        /\ want.mode \in Modes
    BY InstanceType DEF Registrations
  <1>2. consumer[i] \in ConsumerRecord /\ consumer \in [Instances -> ConsumerRecord]
        /\ (consumer[i].present => consumer[i].mode = want.mode)
    BY <1>1 DEF ConsumerOK
  <1>3. /\ kept \in ConsumerRecord /\ kept.present = consumer[i].present
        /\ kept.mode = consumer[i].mode /\ kept.boundary = consumer[i].boundary
        /\ kept.frontier = consumer[i].frontier
    BY <1>2 DEF ConsumerRecord
  <1>4. /\ fresh \in ConsumerRecord /\ fresh.present /\ fresh.mode = want.mode
        /\ fresh.boundary = clock - Grace /\ fresh.frontier = clock - Grace
    BY <1>1, UpkeepAssumption DEF ConsumerRecord
  <1>5. c = [consumer EXCEPT ![i] = r]
    BY <1>2 DEF Registered
  <1>6. /\ r \in ConsumerRecord /\ r.present /\ r.mode = want.mode
        /\ r.boundary = IF consumer[i].present THEN consumer[i].boundary ELSE clock - Grace
        /\ r.frontier = IF consumer[i].present THEN consumer[i].frontier ELSE clock - Grace
    <2> HIDE DEF kept, fresh, i
    <2>1. CASE consumer[i].present
      BY <1>2, <1>3, <2>1
    <2>2. CASE ~consumer[i].present
      BY <1>4, <2>2
    <2> QED
      BY <2>1, <2>2
  <1> HIDE DEF r, i, c
  <1>7. c[i] = r /\ \A j \in Instances : j # i => c[j] = consumer[j]
    BY <1>1, <1>2, <1>5
  <1>8. c \in [Instances -> ConsumerRecord]
    BY <1>1, <1>2, <1>5, <1>6
  <1>9. ASSUME NEW j \in Instances, c[j].present
        PROVE  c[j].mode = IF j = "shared" THEN "COMPETING" ELSE "BROADCAST"
    <2>1. CASE j = i
      BY <1>1, <1>6, <1>7, <2>1
    <2>2. CASE j # i
      BY <1>7, <1>9, <2>2 DEF ConsumerOK
    <2> QED
      BY <2>1, <2>2
  <1> QED
    BY <1>1, <1>6, <1>7, <1>8, <1>9 DEF ConsumerOK, i, c

\* The removal of registrations.
LEMMA RemovedFacts ==
    ASSUME TypeOK, NEW gone, gone \subseteq Instances, Removed(gone)
    PROVE  /\ ConsumerOK(consumer')
           /\ \A i \in Instances : i \in gone => ~consumer'[i].present
           /\ \A i \in Instances : i \notin gone => consumer'[i] = consumer[i]
           /\ history' \in [completed : SUBSET (Messages \X Instances),
                            removed : SUBSET Instances]
           /\ history'.completed = history.completed
           /\ history'.removed = history.removed \cup {i \in gone : consumer[i].present}
  <1> DEFINE Cleared(i) == [consumer[i] EXCEPT !.present = FALSE, !.boundary = 0,
                                               !.frontier = 0, !.heartbeat = 0]
             out == {i \in gone : consumer[i].present}
  <1>1. \A i \in Instances : consumer[i] \in ConsumerRecord
    BY DEF TypeOK
  <1>2. ASSUME NEW i \in Instances PROVE Cleared(i) \in ConsumerRecord /\ ~Cleared(i).present
    <2> DEFINE no == FALSE
               zero == 0
               first == [consumer[i] EXCEPT !.present = no]
               second == [first EXCEPT !.boundary = zero]
               third == [second EXCEPT !.frontier = zero]
               fourth == [third EXCEPT !.heartbeat = zero]
    <2>1. consumer[i] \in ConsumerRecord /\ no \in BOOLEAN /\ zero \in Int
      BY <1>1
    <2>2. Cleared(i) = fourth
      BY <2>1 DEF ConsumerRecord
    <2> HIDE DEF no, zero, Cleared
    <2>3. first \in ConsumerRecord /\ first.present = no
      BY <2>1 DEF ConsumerRecord
    <2> HIDE DEF first
    <2>4. fourth \in ConsumerRecord
      BY <2>1, <2>3 DEF ConsumerRecord
    <2>5. fourth.present = no
      BY <2>1, <2>3 DEF ConsumerRecord
    <2> HIDE DEF fourth
    <2> QED
      BY <2>2, <2>4, <2>5 DEF no
  <1>3. consumer' = [i \in Instances |-> IF i \in gone THEN Cleared(i) ELSE consumer[i]]
        /\ history' = [history EXCEPT !.removed = @ \cup out]
    BY DEF Removed
  <1>4. out \subseteq Instances
    OBVIOUS
  <1> HIDE DEF Cleared, out
  <1>5. /\ history' \in [completed : SUBSET (Messages \X Instances), removed : SUBSET Instances]
        /\ history'.completed = history.completed /\ history'.removed = history.removed \cup out
    BY <1>3, <1>4 DEF TypeOK
  <1>6. ConsumerOK(consumer')
    BY <1>1, <1>2, <1>3 DEF ConsumerOK, TypeOK
  <1> QED
    BY <1>2, <1>3, <1>5, <1>6 DEF out

-----------------------------------------------------------------------------
(* What the steps do.                                                      *)

\* A step of Attach leaves everything alone but the registration of the listener, the
\* registration of the host's instance and the host.
LEMMA AttachingFacts ==
    ASSUME TypeOK, NEW n \in Hosts, Attaching(n)
    PROVE  /\ TypeOK'
           /\ UNCHANGED <<cluster, now, message, delivery, beat, loop, detach, history>>
           /\ \A k \in Hosts : k # n => host'[k] = host[k]
           /\ \/ RegisterConsumer(n) /\ host'[n].phase = "on" /\ host'[n].want = host[n].want
              \/ UNCHANGED consumer /\ host'[n].phase # "on"
           /\ \/ InsertMode(n) /\ host'[n].phase = "read" /\ host'[n].want = host[n].want
              \/ UNCHANGED listener
           /\ host'[n].phase = "read" => InsertMode(n)
           /\ host'[n].phase = "register" =>
                /\ host[n].phase = "read" /\ host'[n].want = host[n].want
                /\ host[n].want \in listener /\ host'[n].clock = now
           /\ host[n].phase = "off" => detach.phase = "idle" \/ LiveDetach
  <1>0. /\ host \in [Hosts -> Thread(HostPhases)] /\ host[n] \in Thread(HostPhases)
        /\ host[n].want \in Registrations /\ host[n].clock \in Int /\ now \in Nat
        /\ ConsumerOK(consumer)
    BY DEF TypeOK, Thread, ConsumerOK
  <1>1. ASSUME NEW want \in Registrations, Attach(n, want)
        PROVE  /\ TypeOK' /\ UNCHANGED <<cluster, now, listener, consumer, message, delivery, beat,
                                         loop, detach, history>>
               /\ \A k \in Hosts : k # n => host'[k] = host[k]
               /\ host'[n].phase = "mode" /\ (detach.phase = "idle" \/ LiveDetach)
    <2>1. At("mode", want) \in Thread(HostPhases) /\ At("mode", want).phase = "mode"
      BY <1>0, ThreadFacts DEF HostPhases
    <2>2. /\ host' \in [Hosts -> Thread(HostPhases)] /\ host'[n].phase = "mode"
          /\ \A k \in Hosts : k # n => host'[k] = host[k]
      BY <1>0, <1>1, <2>1 DEF Attach
    <2> QED
      BY <1>1, <2>2 DEF Attach, TypeOK
  <1>2. CASE InsertMode(n)
    <2> DEFINE t == At("read", host[n].want)
    <2>1. t \in Thread(HostPhases) /\ t.phase = "read" /\ t.want = host[n].want
      BY <1>0, ThreadFacts DEF HostPhases
    <2>2. host' = [host EXCEPT ![n] = t]
      BY <1>0, <1>2 DEF InsertMode
    <2> HIDE DEF t
    <2>3. /\ host' \in [Hosts -> Thread(HostPhases)] /\ host'[n] = t
          /\ \A k \in Hosts : k # n => host'[k] = host[k]
      BY <1>0, <2>1, <2>2
    <2>4. listener' \in SUBSET Registrations
      BY <1>0, <1>2 DEF InsertMode, TypeOK
    <2>5. TypeOK'
      BY <1>2, <2>3, <2>4 DEF InsertMode, TypeOK
    <2> QED
      BY <1>2, <2>1, <2>3, <2>5 DEF InsertMode
  <1>3. CASE ReadMode(n)
    <2> DEFINE found == AtNow("register", host[n].want)
               off == At("off", SomeWant)
    <2>1. found \in Thread(HostPhases) /\ found.phase = "register" /\ found.want = host[n].want
          /\ found.clock = now
      BY <1>0 DEF AtNow, Thread, HostPhases
    <2>2. off \in Thread(HostPhases) /\ off.phase = "off"
      BY OffFacts
    <2>3. host' = [host EXCEPT ![n] = IF host[n].want \in listener THEN found ELSE off]
      BY <1>0, <1>3 DEF ReadMode
    <2> HIDE DEF found, off
    <2>4. /\ host' \in [Hosts -> Thread(HostPhases)]
          /\ host'[n] = IF host[n].want \in listener THEN found ELSE off
          /\ \A k \in Hosts : k # n => host'[k] = host[k]
      BY <1>0, <2>1, <2>2, <2>3
    <2>5. TypeOK'
      BY <1>3, <2>4 DEF ReadMode, TypeOK
    <2> QED
      BY <1>3, <2>1, <2>2, <2>4, <2>5 DEF ReadMode
  <1>4. CASE RegisterConsumer(n)
    <2> DEFINE t == At("on", host[n].want)
    <2>1. t \in Thread(HostPhases) /\ t.phase = "on" /\ t.want = host[n].want
      BY <1>0, ThreadFacts DEF HostPhases
    <2>2. host' = [host EXCEPT ![n] = t]
      BY <1>0, <1>4 DEF RegisterConsumer
    <2> HIDE DEF t
    <2>3. /\ host' \in [Hosts -> Thread(HostPhases)] /\ host'[n] = t
          /\ \A k \in Hosts : k # n => host'[k] = host[k]
      BY <1>0, <2>1, <2>2
    <2>4. ConsumerOK(consumer')
      BY <1>0, <1>4, RegisteredFacts DEF RegisterConsumer
    <2>5. TypeOK'
      BY <1>4, <2>3, <2>4 DEF RegisterConsumer, TypeOK, ConsumerOK
    <2> QED
      BY <1>4, <2>1, <2>3, <2>5 DEF RegisterConsumer
  <1>5. CASE AttachFails(n)
    <2> DEFINE off == At("off", SomeWant)
    <2>1. off \in Thread(HostPhases) /\ off.phase = "off"
      BY OffFacts
    <2>2. host' = [host EXCEPT ![n] = off]
      BY <1>5 DEF AttachFails
    <2> HIDE DEF off
    <2>3. /\ host' \in [Hosts -> Thread(HostPhases)] /\ host'[n].phase = "off"
          /\ \A k \in Hosts : k # n => host'[k] = host[k]
      BY <1>0, <2>1, <2>2
    <2>4. faults' \in Nat
      BY <1>5 DEF AttachFails, Fault, TypeOK
    <2>5. TypeOK'
      BY <1>5, <2>3, <2>4 DEF AttachFails, TypeOK
    <2> QED
      BY <1>5, <2>3, <2>5 DEF AttachFails
  <1> QED
    BY <1>1, <1>2, <1>3, <1>4, <1>5 DEF Attaching

\* A step of Detach removes registrations; nobody is detached behind their back unless
\* Detach is called on a live listener.
LEMMA DetachingFacts ==
    ASSUME TypeOK, Detaching
    PROVE  /\ TypeOK'
           /\ UNCHANGED <<cluster, now, message, delivery, beat, loop>>
           /\ (\E n \in Hosts : Detach(n)) \/ UNCHANGED <<consumer, history>>
           /\ \A k \in Hosts : host'[k] = host[k] \/ host'[k].phase = "off"
           /\ listener' = listener \/ (listener' = {} /\ detach.phase = "mode")
           /\ detach'.phase # "idle" =>
                \/ detach.phase # "idle" /\ UNCHANGED host
                \/ /\ LiveDetach \/ \A k \in Hosts : host[k].phase = "off"
                   /\ UNCHANGED host
  <1>0. detach \in [phase : {"idle", "mode", "local"}, by : Hosts, calls : Nat]
    BY DEF TypeOK
  <1>1. CASE \E n \in Hosts : Detach(n)
    <2>1. PICK n \in Hosts : Detach(n)
      BY <1>1
    <2>2. detach' \in [phase : {"idle", "mode", "local"}, by : Hosts, calls : Nat]
      BY <1>0, <2>1 DEF Detach
    <2>3. ConsumerOK(consumer')
          /\ history' \in [completed : SUBSET (Messages \X Instances),
                           removed : SUBSET Instances]
      BY <2>1, RemovedFacts DEF Detach
    <2>4. TypeOK'
      BY <2>1, <2>2, <2>3 DEF Detach, TypeOK, ConsumerOK
    <2> QED
      BY <1>1, <2>1, <2>4 DEF Detach
  <1>2. CASE RemoveMode
    <2>1. detach' \in [phase : {"idle", "mode", "local"}, by : Hosts, calls : Nat]
      BY <1>0, <1>2 DEF RemoveMode
    <2>2. TypeOK'
      BY <1>2, <2>1 DEF RemoveMode, TypeOK
    <2> QED
      BY <1>2, <2>2 DEF RemoveMode
  <1>3. CASE Forget
    <2> DEFINE off == At("off", SomeWant)
    <2>1. /\ detach' \in [phase : {"idle", "mode", "local"}, by : Hosts, calls : Nat]
          /\ detach'.phase = "idle" /\ detach.by \in Hosts
      BY <1>0, <1>3 DEF Forget
    <2>2. off \in Thread(HostPhases) /\ off.phase = "off"
      BY OffFacts
    <2>3. host' = host \/ host' = [host EXCEPT ![detach.by] = off]
      BY <1>3 DEF Forget
    <2> HIDE DEF off
    <2>4. /\ host' \in [Hosts -> Thread(HostPhases)]
          /\ \A k \in Hosts : host'[k] = host[k] \/ host'[k].phase = "off"
      BY <2>1, <2>2, <2>3 DEF TypeOK
    <2>5. TypeOK'
      BY <1>3, <2>1, <2>4 DEF Forget, TypeOK
    <2> QED
      BY <1>3, <2>1, <2>4, <2>5 DEF Forget
  <1>4. CASE DetachFails
    <2>1. /\ detach' \in [phase : {"idle", "mode", "local"}, by : Hosts, calls : Nat]
          /\ detach'.phase = "idle"
      BY <1>0, <1>4 DEF DetachFails
    <2>2. faults' \in Nat
      BY <1>4 DEF DetachFails, Fault, TypeOK
    <2>3. TypeOK'
      BY <1>4, <2>1, <2>2 DEF DetachFails, TypeOK
    <2> QED
      BY <1>4, <2>1, <2>3 DEF DetachFails
  <1> QED
    BY <1>1, <1>2, <1>3, <1>4 DEF Detaching

\* A step of the heartbeat touches the registration of its instance only, and never
\* moves the boundary of one there is.
LEMMA BeatingFacts ==
    ASSUME TypeOK, NEW n \in Hosts, Beating(n)
    PROVE  /\ TypeOK'
           /\ UNCHANGED <<cluster, now, listener, message, delivery, host, loop, detach, history>>
           /\ \A k \in Hosts : k # n => beat'[k] = beat[k]
           /\ beat'[n].phase # "idle" => \/ beat'[n].clock = now
                                         \/ beat[n].phase # "idle" /\ beat'[n].clock = beat[n].clock
           /\ \/ Reregister(n)
              \/ \A i \in Instances : /\ consumer'[i].present = consumer[i].present
                                      /\ consumer'[i].boundary = consumer[i].boundary
  <1>0. /\ beat \in [Hosts -> Thread(BeatPhases)] /\ beat[n] \in Thread(BeatPhases)
        /\ beat[n].want \in Registrations /\ beat[n].clock \in Int /\ now \in Nat
        /\ ConsumerOK(consumer)
    BY DEF TypeOK, Thread, ConsumerOK
  <1>00. Idle \in Thread(BeatPhases) /\ Idle.phase = "idle"
    BY IdleFacts DEF BeatPhases
  <1>000. ASSUME beat' = [beat EXCEPT ![n] = Idle]
          PROVE  /\ beat' \in [Hosts -> Thread(BeatPhases)] /\ beat'[n].phase = "idle"
                 /\ \A k \in Hosts : k # n => beat'[k] = beat[k]
    BY <1>0, <1>00, <1>000
  <1>1. CASE StartBeat(n)
    <2> DEFINE t == AtNow("update", host[n].want)
    <2>1. t \in Thread(BeatPhases) /\ t.clock = now
      <3>1. host[n].want \in Registrations
        BY DEF TypeOK, Thread
      <3> QED
        BY <1>0, <3>1 DEF AtNow, Thread, BeatPhases
    <2>2. beat' = [beat EXCEPT ![n] = t]
      BY <1>1 DEF StartBeat
    <2> HIDE DEF t
    <2>3. /\ beat' \in [Hosts -> Thread(BeatPhases)] /\ beat'[n] = t
          /\ \A k \in Hosts : k # n => beat'[k] = beat[k]
      BY <1>0, <2>1, <2>2
    <2>4. TypeOK'
      BY <1>1, <2>3 DEF StartBeat, Unheard, TypeOK
    <2> QED
      BY <1>1, <2>1, <2>3, <2>4 DEF StartBeat, Unheard
  <1>2. CASE Heartbeat(n)
    <2> DEFINE i == InstanceFor(n, beat[n].want)
               r == [consumer[i] EXCEPT !.heartbeat = beat[n].clock]
               t == [beat[n] EXCEPT !.phase = "register"]
    <2>1. i \in Instances /\ consumer \in [Instances -> ConsumerRecord]
      BY <1>0, InstanceType DEF ConsumerOK
    <2>2. /\ r \in ConsumerRecord /\ r.mode = consumer[i].mode
          /\ r.present = consumer[i].present /\ r.boundary = consumer[i].boundary
      BY <1>0, <2>1 DEF ConsumerRecord
    <2>3. t \in Thread(BeatPhases) /\ t.clock = beat[n].clock
      BY <1>0 DEF Thread, BeatPhases
    <2>4. \/ consumer' = [consumer EXCEPT ![i] = r] /\ beat' = [beat EXCEPT ![n] = Idle]
          \/ consumer' = consumer /\ beat' = [beat EXCEPT ![n] = t]
      BY <1>0, <1>2, <2>1 DEF Heartbeat
    <2> HIDE DEF i, r, t
    <2>5. /\ consumer' \in [Instances -> ConsumerRecord]
          /\ \A j \in Instances : /\ consumer'[j].present = consumer[j].present
                                  /\ consumer'[j].boundary = consumer[j].boundary
                                  /\ consumer'[j].mode = consumer[j].mode
      BY <2>1, <2>2, <2>4
    <2>6. ConsumerOK(consumer')
      BY <1>0, <2>5 DEF ConsumerOK
    <2>7. /\ beat' \in [Hosts -> Thread(BeatPhases)]
          /\ beat'[n].phase = "idle" \/ beat'[n].clock = beat[n].clock
          /\ \A k \in Hosts : k # n => beat'[k] = beat[k]
      BY <1>0, <1>00, <2>3, <2>4
    <2>8. TypeOK'
      BY <1>2, <2>6, <2>7 DEF Heartbeat, Unheard, TypeOK, ConsumerOK
    <2> QED
      BY <1>2, <2>5, <2>7, <2>8 DEF Heartbeat, Unheard
  <1>3. CASE Reregister(n)
    <2>1. ConsumerOK(consumer')
      BY <1>0, <1>3, RegisteredFacts DEF Reregister
    <2>2. TypeOK'
      BY <1>3, <1>000, <2>1 DEF Reregister, Unheard, TypeOK, ConsumerOK
    <2> QED
      BY <1>3, <1>000, <2>2 DEF Reregister, Unheard
  <1>4. CASE BeatFails(n)
    <2>1. faults' \in Nat
      BY <1>4 DEF BeatFails, Fault, TypeOK
    <2>2. TypeOK'
      BY <1>4, <1>000, <2>1 DEF BeatFails, TypeOK
    <2> QED
      BY <1>4, <1>000, <2>2 DEF BeatFails
  <1> QED
    BY <1>1, <1>2, <1>3, <1>4 DEF Beating

\* The loop after a step of a pass or of maintenance.
LoopStep(n) ==
    /\ loop' \in [Nodes -> Thread(LoopPhases)]
    /\ \A k \in Nodes : k # n => loop'[k] = loop[k]
    /\ loop'[n].phase # "idle" => \/ loop'[n].clock = now
                                  \/ loop[n].phase # "idle" /\ loop'[n].clock = loop[n].clock

\* The three ways a loop goes on.
LEMMA LoopGoesOn ==
    ASSUME TypeOK, NEW n \in Nodes
    PROVE  /\ loop' = [loop EXCEPT ![n] = Idle] => LoopStep(n)
           /\ \A phase \in LoopPhases \ {"idle"}, want \in Registrations :
                loop' = [loop EXCEPT ![n] = AtNow(phase, want)] => LoopStep(n)
           /\ \A phase \in LoopPhases \ {"idle"} :
                loop[n].phase # "idle" /\ loop' = [loop EXCEPT ![n].phase = phase] => LoopStep(n)
  <1>0. /\ loop \in [Nodes -> Thread(LoopPhases)] /\ loop[n] \in Thread(LoopPhases) /\ now \in Nat
    BY DEF TypeOK
  <1>1. ASSUME loop' = [loop EXCEPT ![n] = Idle] PROVE LoopStep(n)
    <2>1. Idle \in Thread(LoopPhases) /\ Idle.phase = "idle"
      BY IdleFacts DEF LoopPhases
    <2> QED
      BY <1>0, <1>1, <2>1 DEF LoopStep
  <1>2. ASSUME NEW phase \in LoopPhases \ {"idle"}, NEW want \in Registrations,
               loop' = [loop EXCEPT ![n] = AtNow(phase, want)]
        PROVE  LoopStep(n)
    <2>1. AtNow(phase, want) \in Thread(LoopPhases) /\ AtNow(phase, want).clock = now
      BY <1>0 DEF AtNow, Thread
    <2> QED
      BY <1>0, <1>2, <2>1 DEF LoopStep
  <1>3. ASSUME NEW phase \in LoopPhases \ {"idle"}, loop[n].phase # "idle",
               loop' = [loop EXCEPT ![n].phase = phase]
        PROVE  LoopStep(n)
    <2> DEFINE t == [loop[n] EXCEPT !.phase = phase]
    <2>1. t \in Thread(LoopPhases) /\ t.clock = loop[n].clock
      BY <1>0 DEF Thread
    <2>2. loop' = [loop EXCEPT ![n] = t]
      BY <1>0, <1>3
    <2> HIDE DEF t
    <2> QED
      BY <1>0, <1>3, <2>1, <2>2 DEF LoopStep
  <1> QED
    BY <1>1, <1>2, <1>3

\* A step of a pass: a missing delivery may be created, nothing else is lost or found.
LEMMA PassingFacts ==
    ASSUME TypeOK, NEW n \in Hosts, Passing(n)
    PROVE  /\ TypeOK' /\ LoopStep(n)
           /\ UNCHANGED <<cluster, now, listener, message, host, beat, detach, faults, history>>
           /\ \A i \in Instances : /\ consumer'[i].present = consumer[i].present
                                   /\ consumer'[i].boundary = consumer[i].boundary
           /\ \A x \in Messages \X Instances :
                \/ delivery'[x] = delivery[x]
                \/ /\ delivery[x] = "ABSENT" /\ delivery'[x] = "PENDING"
                   /\ message[x[1]].state = "visible"
  <1>0. /\ loop \in [Nodes -> Thread(LoopPhases)] /\ n \in Nodes /\ loop[n] \in Thread(LoopPhases)
        /\ loop[n].want \in Registrations /\ loop[n].clock \in Int
        /\ consumer \in [Instances -> ConsumerRecord]
        /\ host[n].want \in Registrations
    BY DEF TypeOK, Thread, Nodes
  <1>1. CASE StartPass(n)
    <2>1. LoopStep(n)
      BY <1>0, <1>1, LoopGoesOn DEF StartPass, LoopPhases
    <2>2. TypeOK'
      BY <1>1, <2>1 DEF StartPass, Unheard, LoopStep, TypeOK
    <2> QED
      BY <1>1, <2>1, <2>2 DEF StartPass, Unheard
  <1>2. CASE MaterializeDeliveries(n)
    <2>1. LoopStep(n)
      BY <1>0, <1>2, LoopGoesOn DEF MaterializeDeliveries, LoopPhases
    <2>2. ASSUME NEW x \in Messages \X Instances
          PROVE  \/ delivery'[x] = delivery[x]
                 \/ /\ delivery[x] = "ABSENT" /\ delivery'[x] = "PENDING"
                    /\ message[x[1]].state = "visible"
      BY <1>2 DEF MaterializeDeliveries
    <2>3. delivery' \in [Messages \X Instances -> DeliveryStatuses]
      BY <1>2 DEF MaterializeDeliveries, DeliveryStatuses, TypeOK
    <2>4. TypeOK'
      BY <1>2, <2>1, <2>3 DEF MaterializeDeliveries, Unheard, LoopStep, TypeOK
    <2> QED
      BY <1>2, <2>1, <2>2, <2>4 DEF MaterializeDeliveries, Unheard
  <1>3. CASE AdvanceFrontier(n)
    <2> DEFINE i == InstanceFor(n, loop[n].want)
               to == loop[n].clock - Grace
               r == [consumer[i] EXCEPT !.frontier = to]
    <2>1. LoopStep(n)
      BY <1>0, <1>3, LoopGoesOn DEF AdvanceFrontier
    <2>2. i \in Instances /\ to \in Int
      BY <1>0, InstanceType, UpkeepAssumption
    <2>3. consumer' = consumer \/ consumer' = [consumer EXCEPT ![i] = r]
      BY <1>0, <1>3, <2>2 DEF AdvanceFrontier
    <2> HIDE DEF to
    <2>4. /\ r \in ConsumerRecord /\ r.mode = consumer[i].mode
          /\ r.present = consumer[i].present /\ r.boundary = consumer[i].boundary
      BY <1>0, <2>2 DEF ConsumerRecord
    <2> HIDE DEF i, r
    <2>5. /\ consumer' \in [Instances -> ConsumerRecord]
          /\ \A j \in Instances : /\ consumer'[j].present = consumer[j].present
                                  /\ consumer'[j].boundary = consumer[j].boundary
                                  /\ consumer'[j].mode = consumer[j].mode
      BY <1>0, <2>2, <2>3, <2>4
    <2>6. TypeOK'
      BY <1>3, <2>1, <2>5 DEF AdvanceFrontier, Unheard, LoopStep, TypeOK
    <2> QED
      BY <1>3, <2>1, <2>5, <2>6 DEF AdvanceFrontier, Unheard
  <1> QED
    BY <1>1, <1>2, <1>3 DEF Passing

\* A publication.
LEMMA PublishFacts ==
    ASSUME TypeOK, NEW m \in Messages, NEW n \in Hosts, Publish(m, n)
    PROVE  /\ TypeOK'
           /\ UNCHANGED <<cluster, now, listener, consumer, host, beat, loop, detach, faults, history>>
           /\ message[m].state = "none" /\ message'[m].state = "visible"
           /\ \A k \in Messages : k # m => message'[k] = message[k]
           /\ \A x \in Messages \X Instances :
                delivery'[x] = delivery[x] \/ (x[1] = m /\ delivery'[x] = "PENDING")
  <1>1. PICK date \in (now - MaxTx)..now :
          message' = [message EXCEPT ![m] = [state |-> "visible", date |-> date]]
    BY DEF Publish
  <1>2. [state |-> "visible", date |-> date] \in MessageRecord
    BY UpkeepAssumption DEF TypeOK, MessageRecord
  <1>3. PICK local \in {{}, {host[n].want}} :
          delivery' = [x \in Messages \X Instances |->
                         IF \E want \in local : x = <<m, InstanceFor(n, want)>>
                         THEN "PENDING" ELSE delivery[x]]
    BY DEF Publish
  <1>4. ASSUME NEW x \in Messages \X Instances
        PROVE  delivery'[x] = delivery[x] \/ (x[1] = m /\ delivery'[x] = "PENDING")
    BY <1>3
  <1>5. delivery' \in [Messages \X Instances -> DeliveryStatuses]
    BY <1>3, <1>4 DEF DeliveryStatuses, TypeOK
  <1>6. /\ message' \in [Messages -> MessageRecord] /\ message'[m].state = "visible"
        /\ \A k \in Messages : k # m => message'[k] = message[k]
    BY <1>1, <1>2 DEF TypeOK
  <1>7. TypeOK'
    BY <1>5, <1>6 DEF Publish, Unheard, TypeOK
  <1> QED
    BY <1>4, <1>6, <1>7 DEF Publish, Unheard

\* The outcome of a claim, or a resubmission.
LEMMA SettleFacts ==
    ASSUME TypeOK, NEW m \in Messages, NEW n \in Hosts, Settle(m, n)
    PROVE  /\ TypeOK'
           /\ UNCHANGED <<cluster, now, listener, consumer, message, host, beat, loop, detach, faults>>
           /\ history'.removed = history.removed
           /\ message[m].state = "visible" /\ host[n].phase = "on"
           /\ LET x == <<m, InstanceFor(n, host[n].want)>> IN
              /\ x \in Messages \X Instances
              /\ \A y \in Messages \X Instances : y # x => delivery'[y] = delivery[y]
              /\ \/ /\ delivery[x] = "PENDING" /\ delivery'[x] = "COMPLETED"
                    /\ history'.completed = history.completed \cup {x}
                 \/ /\ delivery[x] = "PENDING" /\ delivery'[x] = "EXHAUSTED"
                    /\ history'.completed = history.completed
                 \/ /\ delivery[x] = "EXHAUSTED" /\ delivery'[x] = "PENDING"
                    /\ history'.completed = history.completed
  <1> DEFINE x == <<m, InstanceFor(n, host[n].want)>>
  <1>1. x \in Messages \X Instances
    <2>1. host[n].want \in Registrations
      BY DEF TypeOK, Thread
    <2> QED
      BY <2>1, InstanceType
  <1>2. \/ /\ delivery[x] = "PENDING" /\ delivery' = [delivery EXCEPT ![x] = "COMPLETED"]
           /\ history' = [history EXCEPT !.completed = @ \cup {x}]
        \/ /\ delivery[x] = "PENDING" /\ delivery' = [delivery EXCEPT ![x] = "EXHAUSTED"]
           /\ history' = history
        \/ /\ delivery[x] = "EXHAUSTED" /\ delivery' = [delivery EXCEPT ![x] = "PENDING"]
           /\ history' = history
    BY DEF Settle
  <1> HIDE DEF x
  <1>3. /\ delivery' \in [Messages \X Instances -> DeliveryStatuses]
        /\ \A y \in Messages \X Instances : y # x => delivery'[y] = delivery[y]
        /\ history' \in [completed : SUBSET (Messages \X Instances), removed : SUBSET Instances]
        /\ history'.removed = history.removed
        /\ \/ /\ delivery[x] = "PENDING" /\ delivery'[x] = "COMPLETED"
              /\ history'.completed = history.completed \cup {x}
           \/ /\ delivery[x] = "PENDING" /\ delivery'[x] = "EXHAUSTED"
              /\ history'.completed = history.completed
           \/ /\ delivery[x] = "EXHAUSTED" /\ delivery'[x] = "PENDING"
              /\ history'.completed = history.completed
    BY <1>1, <1>2 DEF TypeOK, DeliveryStatuses
  <1>4. TypeOK'
    BY <1>3 DEF Settle, Unheard, TypeOK
  <1> QED
    BY <1>1, <1>3, <1>4 DEF Settle, Unheard, x

\* The next duty of maintenance.
LEMMA ContinueFacts ==
    ASSUME TypeOK, NEW n \in Nodes, loop[n].phase # "idle", NEW phase \in LoopPhases,
           Continue(n, phase)
    PROVE  LoopStep(n) /\ UNCHANGED <<cluster, now, detach, faults, listener, host, beat>>
  <1>1. \/ loop' = [loop EXCEPT ![n] = Idle]
        \/ phase # "idle" /\ loop' = [loop EXCEPT ![n].phase = phase]
    BY DEF Continue, TypeOK
  <1>2. LoopStep(n)
    BY <1>1, LoopGoesOn
  <1> QED
    BY <1>2 DEF Continue, Unheard

\* A deletion of messages.
LEMMA DeletedFacts ==
    ASSUME TypeOK, NEW gone, NEW state \in {"gone", "capped"}, Deleted(gone, state)
    PROVE  /\ message' \in [Messages -> MessageRecord]
           /\ \A m \in Messages :
                /\ message'[m].date = message[m].date
                /\ \/ message'[m] = message[m]
                   \/ m \in gone /\ message[m].state = "visible" /\ message'[m].state = state
  <1>1. ASSUME NEW m \in Messages
        PROVE  /\ [message[m] EXCEPT !.state = state] \in MessageRecord
               /\ [message[m] EXCEPT !.state = state].date = message[m].date
               /\ [message[m] EXCEPT !.state = state].state = state
    BY DEF TypeOK, MessageRecord
  <1> QED
    BY <1>1 DEF Deleted, TypeOK

\* A sweep of the delivery table.
LEMMA SweptFacts ==
    ASSUME TypeOK, NEW orphans, Swept(orphans)
    PROVE  /\ delivery' \in [Messages \X Instances -> DeliveryStatuses]
           /\ \A x \in Messages \X Instances :
                delivery'[x] = delivery[x] \/ (x \in orphans /\ delivery'[x] = "ABSENT")
  BY DEF Swept, DeliveryStatuses, TypeOK

\* A duty of maintenance: registrations expire, messages are deleted that nobody needs
\* or that are too old, rows are swept that belong to nobody.
LEMMA MaintainingFacts ==
    ASSUME TypeOK, NEW n \in Maintainers, Maintaining(n)
    PROVE  /\ TypeOK' /\ LoopStep(n)
           /\ UNCHANGED <<cluster, now, detach, faults, listener, host, beat>>
           /\ \/ UNCHANGED <<consumer, history>>
              \/ \E gone \in SUBSET Instances : Removed(gone)
           /\ \A m \in Messages :
                /\ message'[m].date = message[m].date
                /\ \/ message'[m] = message[m]
                   \/ message[m].state = "visible" /\ message'[m].state = "capped"
                   \/ /\ message[m].state = "visible" /\ message'[m].state = "gone"
                      /\ message[m].date < loop[n].clock - Retention /\ ~Pinned(m)
                      /\ loop[n].phase = "settled" /\ UNCHANGED <<consumer, delivery, history>>
           /\ UNCHANGED message \/ UNCHANGED <<consumer, delivery, history>>
           /\ \A x \in Messages \X Instances :
                \/ delivery'[x] = delivery[x]
                \/ /\ WithoutMessage(x) \/ WithoutConsumer(x)
                   /\ delivery'[x] = "ABSENT" /\ UNCHANGED <<consumer, message, history>>
  <1>0. n \in Nodes /\ {"settled", "aged", "messageless", "consumerless", "idle"} \subseteq LoopPhases
    BY DEF Nodes, LoopPhases
  <1>1. CASE StartMaintenance(n)
    <2>1. LoopStep(n)
      BY <1>0, <1>1, LoopGoesOn, SomeWantType DEF StartMaintenance, LoopPhases
    <2>2. TypeOK'
      BY <1>1, <2>1 DEF StartMaintenance, Unheard, LoopStep, TypeOK
    <2> QED
      BY <1>1, <2>1, <2>2 DEF StartMaintenance, Unheard
  <1>2. CASE ExpireBroadcastConsumers(n)
    <2> DEFINE gone == {i \in Hosts : consumer[i].heartbeat < loop[n].clock - Expiry}
    <2>1. gone \subseteq Instances /\ Removed(gone)
      BY <1>2 DEF ExpireBroadcastConsumers, Instances
    <2> HIDE DEF gone
    <2>2. LoopStep(n) /\ UNCHANGED <<cluster, now, detach, faults, listener, host, beat>>
      BY <1>0, <1>2, ContinueFacts DEF ExpireBroadcastConsumers
    <2>3. ConsumerOK(consumer')
          /\ history' \in [completed : SUBSET (Messages \X Instances),
                           removed : SUBSET Instances]
      BY <2>1, RemovedFacts
    <2>4. UNCHANGED <<message, delivery>>
      BY <1>2 DEF ExpireBroadcastConsumers
    <2>5. TypeOK'
      BY <2>2, <2>3, <2>4 DEF LoopStep, TypeOK, ConsumerOK
    <2> QED
      BY <2>1, <2>2, <2>4, <2>5
  <1>3. CASE DeleteSettledMessages(n)
    <2> DEFINE gone == {m \in Messages : message[m].date < loop[n].clock - Retention /\ ~Pinned(m)}
    <2>1. Deleted(gone, "gone") /\ loop[n].phase = "settled"
          /\ UNCHANGED <<consumer, delivery, history>>
      BY <1>3 DEF DeleteSettledMessages
    <2>2. LoopStep(n) /\ UNCHANGED <<cluster, now, detach, faults, listener, host, beat>>
      BY <1>0, <1>3, ContinueFacts DEF DeleteSettledMessages
    <2>3. \A m \in gone : message[m].date < loop[n].clock - Retention /\ ~Pinned(m)
      OBVIOUS
    <2> HIDE DEF gone
    <2>4. /\ message' \in [Messages -> MessageRecord]
          /\ \A m \in Messages :
               /\ message'[m].date = message[m].date
               /\ \/ message'[m] = message[m]
                  \/ m \in gone /\ message[m].state = "visible" /\ message'[m].state = "gone"
      BY <2>1, DeletedFacts
    <2>5. TypeOK'
      BY <2>1, <2>2, <2>4 DEF LoopStep, TypeOK
    <2> QED
      BY <2>1, <2>2, <2>3, <2>4, <2>5
  <1>4. CASE DeleteMessagesOlderThan(n)
    <2> DEFINE gone == {m \in Messages : message[m].date < loop[n].clock - MaxAge}
    <2>1. Deleted(gone, "capped") /\ loop[n].phase = "aged"
          /\ UNCHANGED <<consumer, delivery, history>>
      BY <1>4 DEF DeleteMessagesOlderThan
    <2> HIDE DEF gone
    <2>2. LoopStep(n) /\ UNCHANGED <<cluster, now, detach, faults, listener, host, beat>>
      BY <1>0, <1>4, ContinueFacts DEF DeleteMessagesOlderThan
    <2>4. /\ message' \in [Messages -> MessageRecord]
          /\ \A m \in Messages :
               /\ message'[m].date = message[m].date
               /\ \/ message'[m] = message[m]
                  \/ message[m].state = "visible" /\ message'[m].state = "capped"
      BY <2>1, DeletedFacts
    <2>5. TypeOK'
      BY <2>1, <2>2, <2>4 DEF LoopStep, TypeOK
    <2> QED
      BY <2>1, <2>2, <2>4, <2>5
  <1>5. ASSUME NEW orphans, \A x \in orphans : WithoutMessage(x) \/ WithoutConsumer(x),
               Swept(orphans), NEW phase \in LoopPhases, Continue(n, phase),
               loop[n].phase # "idle", UNCHANGED <<consumer, message, history>>
        PROVE  /\ TypeOK' /\ LoopStep(n)
               /\ UNCHANGED <<cluster, now, detach, faults, listener, host, beat>>
               /\ \A x \in Messages \X Instances :
                    \/ delivery'[x] = delivery[x]
                    \/ (WithoutMessage(x) \/ WithoutConsumer(x)) /\ delivery'[x] = "ABSENT"
    <2>1. LoopStep(n) /\ UNCHANGED <<cluster, now, detach, faults, listener, host, beat>>
      BY <1>0, <1>5, ContinueFacts
    <2>2. /\ delivery' \in [Messages \X Instances -> DeliveryStatuses]
          /\ \A x \in Messages \X Instances :
               delivery'[x] = delivery[x] \/ (x \in orphans /\ delivery'[x] = "ABSENT")
      BY <1>5, SweptFacts
    <2>3. TypeOK'
      BY <1>5, <2>1, <2>2 DEF LoopStep, TypeOK
    <2> QED
      BY <1>5, <2>1, <2>2, <2>3
  <1>6. CASE SweepMessageless(n)
    <2> DEFINE orphans == {x \in Messages \X Instances : WithoutMessage(x)}
    <2>1. \A x \in orphans : WithoutMessage(x) \/ WithoutConsumer(x)
      OBVIOUS
    <2>2. /\ Swept(orphans) /\ Continue(n, "consumerless") /\ loop[n].phase # "idle"
          /\ UNCHANGED <<consumer, message, history>>
      BY <1>6 DEF SweepMessageless
    <2> HIDE DEF orphans
    <2> QED
      BY <1>0, <1>5, <2>1, <2>2
  <1>7. CASE SweepConsumerless(n)
    <2> DEFINE orphans == {x \in Messages \X Instances : WithoutConsumer(x)}
    <2>1. \A x \in orphans : WithoutMessage(x) \/ WithoutConsumer(x)
      OBVIOUS
    <2>2. /\ Swept(orphans) /\ Continue(n, "idle") /\ loop[n].phase # "idle"
          /\ UNCHANGED <<consumer, message, history>>
      BY <1>7 DEF SweepConsumerless
    <2> HIDE DEF orphans
    <2> QED
      BY <1>0, <1>5, <2>1, <2>2
  <1> QED
    BY <1>1, <1>2, <1>3, <1>4, <1>6, <1>7 DEF Maintaining

\* A failing statement of a loop.
LEMMA LoopFailsFacts ==
    ASSUME TypeOK, NEW n \in Nodes, LoopFails(n)
    PROVE  /\ TypeOK' /\ LoopStep(n)
           /\ UNCHANGED <<cluster, now, listener, consumer, message, delivery, host, beat, detach,
                          history>>
  <1>1. PICK phase \in {"settled", "aged", "messageless"} :
          \/ loop' = [loop EXCEPT ![n] = Idle]
          \/ loop[n].phase # "idle" /\ loop' = [loop EXCEPT ![n].phase = phase]
    BY DEF LoopFails
  <1>2. LoopStep(n)
    BY <1>1, LoopGoesOn DEF LoopPhases
  <1>3. faults' \in Nat
    BY DEF LoopFails, Fault, TypeOK
  <1>4. TypeOK'
    BY <1>2, <1>3 DEF LoopFails, LoopStep, TypeOK
  <1> QED
    BY <1>2, <1>4 DEF LoopFails

\* The end of a process.
LEMMA CrashFacts ==
    ASSUME TypeOK, NEW n \in Hosts, Crash(n)
    PROVE  /\ TypeOK' /\ LoopStep(n)
           /\ UNCHANGED <<cluster, now, listener, consumer, message, delivery, detach, history>>
           /\ host'[n].phase = "off" /\ beat'[n].phase = "idle"
           /\ \A k \in Hosts : k # n => host'[k] = host[k] /\ beat'[k] = beat[k]
  <1> DEFINE off == At("off", SomeWant)
  <1>1. n \in Nodes /\ LoopStep(n)
    <2>1. n \in Nodes
      BY DEF Nodes
    <2> QED
      BY <2>1, LoopGoesOn DEF Crash
  <1>2. off \in Thread(HostPhases) /\ off.phase = "off"
    BY OffFacts
  <1>3. Idle \in Thread(BeatPhases) /\ Idle.phase = "idle"
    BY IdleFacts DEF BeatPhases
  <1>4. host' = [host EXCEPT ![n] = off] /\ beat' = [beat EXCEPT ![n] = Idle]
    BY DEF Crash
  <1> HIDE DEF off
  <1>5. /\ host' \in [Hosts -> Thread(HostPhases)] /\ host'[n].phase = "off"
        /\ beat' \in [Hosts -> Thread(BeatPhases)] /\ beat'[n].phase = "idle"
        /\ \A k \in Hosts : k # n => host'[k] = host[k] /\ beat'[k] = beat[k]
    BY <1>2, <1>3, <1>4 DEF TypeOK
  <1>6. faults' \in Nat
    BY DEF Crash, Fault, TypeOK
  <1>7. TypeOK'
    BY <1>1, <1>5, <1>6 DEF Crash, LoopStep, TypeOK
  <1> QED
    BY <1>1, <1>5, <1>7 DEF Crash

\* Initially everything is well-formed.
LEMMA InitType == Init => TypeOK
  <1> SUFFICES ASSUME Init PROVE TypeOK
    OBVIOUS
  <1>1. cluster \in Clusters /\ faults \in Nat /\ now \in Nat
    BY ClustersAssumption DEF Init
  <1>2. ASSUME NEW i \in Instances
        PROVE  /\ consumer[i] \in ConsumerRecord
               /\ consumer[i].present => consumer[i].mode = IF i = "shared" THEN "COMPETING"
                                                            ELSE "BROADCAST"
    <2> DEFINE r == [present |-> FALSE, mode |-> IF i = "shared" THEN "COMPETING" ELSE "BROADCAST",
                     boundary |-> 0, frontier |-> 0, heartbeat |-> 0]
    <2>1. r \in ConsumerRecord
      BY DEF ConsumerRecord, Modes
    <2>2. consumer[i] = r /\ ~r.present
      BY DEF Init
    <2> QED
      BY <2>1, <2>2
  <1>3. consumer \in [Instances -> ConsumerRecord]
    BY <1>2 DEF Init
  <1>4. message \in [Messages -> MessageRecord] /\ delivery \in [Messages \X Instances -> DeliveryStatuses]
    BY DEF Init, MessageRecord, DeliveryStatuses
  <1>5. /\ host \in [Hosts -> Thread(HostPhases)] /\ beat \in [Hosts -> Thread(BeatPhases)]
        /\ loop \in [Nodes -> Thread(LoopPhases)]
    <2>1. Idle \in Thread(BeatPhases) /\ Idle \in Thread(LoopPhases)
      BY IdleFacts DEF BeatPhases, LoopPhases
    <2> QED
      BY <2>1, OffFacts DEF Init
  <1>6. detach \in [phase : {"idle", "mode", "local"}, by : Hosts, calls : Nat]
    <2>1. (CHOOSE n \in Hosts : TRUE) \in Hosts
      BY HostsAssumption
    <2> QED
      BY <2>1 DEF Init
  <1>7. listener \in SUBSET Registrations
        /\ history \in [completed : SUBSET (Messages \X Instances), removed : SUBSET Instances]
    BY DEF Init
  <1> QED
    BY <1>1, <1>2, <1>3, <1>4, <1>5, <1>6, <1>7 DEF TypeOK

\* Every step keeps everything well-formed.
LEMMA NextType == TypeOK /\ [Next]_vars => TypeOK'
  <1> SUFFICES ASSUME TypeOK, [Next]_vars PROVE TypeOK'
    OBVIOUS
  <1>1. ASSUME NEW n \in Hosts, Attaching(n) \/ Beating(n) \/ Passing(n) \/ Crash(n) PROVE TypeOK'
    BY <1>1, AttachingFacts, BeatingFacts, PassingFacts, CrashFacts
  <1>2. ASSUME NEW m \in Messages, NEW n \in Hosts, Publish(m, n) \/ Settle(m, n) PROVE TypeOK'
    BY <1>2, PublishFacts, SettleFacts
  <1>3. ASSUME NEW n \in Maintainers, Maintaining(n) PROVE TypeOK'
    BY <1>3, MaintainingFacts
  <1>4. ASSUME NEW n \in Nodes, LoopFails(n) PROVE TypeOK'
    BY <1>4, LoopFailsFacts
  <1>5. CASE Detaching
    BY <1>5, DetachingFacts
  <1>6. CASE Tick
    <2>1. now' \in Nat
      BY <1>6 DEF Tick, TypeOK
    <2> QED
      BY <1>6, <2>1 DEF Tick, TypeOK
  <1>7. CASE UNCHANGED vars
    BY <1>7 DEF vars, TypeOK
  <1> QED
    BY <1>1, <1>2, <1>3, <1>4, <1>5, <1>6, <1>7 DEF Next

\* What the tables and the goroutines hold is what they may hold; a registration of
\* the shared instance is a competing one, one of a node's instance a broadcast one.
THEOREM TypeCorrect == Spec => []TypeOK
  BY InitType, NextType, PTL DEF Spec

-----------------------------------------------------------------------------
(* The arbitration of the delivery mode.                                   *)

\* Every step keeps it, as long as Detach is not called on a listener that is hosted.
LEMMA NextArbitrates ==
    ASSUME LiveDetach = FALSE
    PROVE  TypeOK /\ Arbitrated /\ [Next]_vars => Arbitrated'
  <1> SUFFICES ASSUME TypeOK, Arbitrated, [Next]_vars PROVE Arbitrated'
    OBVIOUS
  <1>1. ASSUME UNCHANGED <<listener, host, detach>> PROVE Arbitrated'
    BY <1>1 DEF Arbitrated
  <1>2. ASSUME NEW n \in Hosts, Attaching(n) PROVE Arbitrated'
    <2>0. /\ UNCHANGED detach
          /\ \A k \in Hosts : k # n => host'[k] = host[k]
          /\ host[n].phase = "off" => detach.phase = "idle"
      BY <1>2, AttachingFacts
    <2>1. detach.phase = "idle"
      BY <2>0 DEF Arbitrated
    <2>2. CASE InsertMode(n)
      <3>1. /\ host'[n].phase = "read" /\ host'[n].want = host[n].want
            /\ host' = [host EXCEPT ![n] = At("read", @.want)]
            /\ listener' = IF listener = {} THEN {host[n].want} ELSE listener
        BY <2>2, HostsAssumption DEF InsertMode, At, TypeOK
      <3>2. listener' # {} /\ \A a, b \in listener' : a = b
        BY <3>1 DEF Arbitrated
      <3>3. ASSUME NEW k \in Hosts
            PROVE  /\ host'[k].phase = "read" => listener' # {}
                   /\ host'[k].phase \in {"register", "on"} => host'[k].want \in listener'
        BY <2>0, <3>1, <3>2 DEF Arbitrated
      <3> QED
        BY <2>0, <2>1, <3>2, <3>3 DEF Arbitrated
    <2>3. CASE ~InsertMode(n)
      <3>1. /\ UNCHANGED listener /\ host'[n].phase # "read"
            /\ host'[n].phase = "on" => host[n].phase = "register" /\ host'[n].want = host[n].want
            /\ host'[n].phase = "register" => host'[n].want \in listener
        BY <1>2, <2>3, AttachingFacts DEF RegisterConsumer
      <3>2. ASSUME NEW k \in Hosts
            PROVE  /\ host'[k].phase = "read" => listener' # {}
                   /\ host'[k].phase \in {"register", "on"} => host'[k].want \in listener'
        BY <2>0, <3>1 DEF Arbitrated
      <3> QED
        BY <2>0, <2>1, <3>1, <3>2 DEF Arbitrated
    <2> QED
      BY <2>2, <2>3
  <1>3. ASSUME Detaching PROVE Arbitrated'
    <2>1. /\ \A k \in Hosts : host'[k] = host[k] \/ host'[k].phase = "off"
          /\ listener' = listener \/ (listener' = {} /\ detach.phase # "idle")
          /\ detach'.phase # "idle" => /\ UNCHANGED host
                                       /\ \/ detach.phase # "idle"
                                          \/ \A k \in Hosts : host[k].phase = "off"
      BY <1>3, DetachingFacts
    <2>2. \A a, b \in listener' : a = b
      BY <2>1 DEF Arbitrated
    <2>3. ASSUME NEW k \in Hosts
          PROVE  /\ host'[k].phase = "read" => listener' # {}
                 /\ host'[k].phase \in {"register", "on"} => host'[k].want \in listener'
      BY <2>1 DEF Arbitrated
    <2>4. detach'.phase # "idle" => \A k \in Hosts : host'[k].phase = "off"
      BY <2>1 DEF Arbitrated
    <2> QED
      BY <2>2, <2>3, <2>4 DEF Arbitrated
  <1>4. ASSUME NEW n \in Hosts, Crash(n) PROVE Arbitrated'
    BY <1>4, CrashFacts DEF Arbitrated
  <1>5. ASSUME NEW n \in Hosts, Beating(n) \/ Passing(n) PROVE Arbitrated'
    BY <1>1, <1>5, BeatingFacts, PassingFacts
  <1>6. ASSUME NEW m \in Messages, NEW n \in Hosts, Publish(m, n) \/ Settle(m, n) PROVE Arbitrated'
    BY <1>1, <1>6, PublishFacts, SettleFacts
  <1>7. ASSUME NEW n \in Maintainers, Maintaining(n) PROVE Arbitrated'
    BY <1>1, <1>7, MaintainingFacts
  <1>8. ASSUME NEW n \in Nodes, LoopFails(n) PROVE Arbitrated'
    BY <1>1, <1>8, LoopFailsFacts
  <1>9. CASE Tick \/ UNCHANGED vars
    BY <1>1, <1>9 DEF Tick, vars
  <1> QED
    BY <1>2, <1>3, <1>4, <1>5, <1>6, <1>7, <1>8, <1>9 DEF Next

\* Two nodes never run one listener under different delivery modes or orderings, when
\* Detach is called only for a listener nobody hosts: the first registration wins,
\* whatever statements fail and whoever crashes in the middle of an Attach.
THEOREM FirstRegistrationWins ==
    ASSUME LiveDetach = FALSE
    PROVE  Spec => []ModesAgree
  <1>1. Init => Arbitrated
    <2> SUFFICES ASSUME Init PROVE Arbitrated
      OBVIOUS
    <2>1. \A n \in Hosts : host[n].phase = "off"
      BY DEF Init, At
    <2> QED
      BY <2>1 DEF Init, Arbitrated
  <1>2. TypeOK /\ Arbitrated /\ [Next]_vars => Arbitrated'
    BY NextArbitrates
  <1>3. Arbitrated => ModesAgree
    BY DEF Arbitrated, ModesAgree
  <1> QED
    BY <1>1, <1>2, <1>3, TypeCorrect, PTL DEF Spec

-----------------------------------------------------------------------------
(* The upkeep.                                                             *)

\* What is completed stays on record, and so does what was removed.
LEMMA HistoryGrows ==
    ASSUME TypeOK, [Next]_vars
    PROVE  /\ history.completed \subseteq history'.completed
           /\ history.removed \subseteq history'.removed
  <1>1. ASSUME NEW gone \in SUBSET Instances, Removed(gone)
        PROVE  /\ history.completed \subseteq history'.completed
               /\ history.removed \subseteq history'.removed
    BY <1>1, RemovedFacts
  <1>2. ASSUME NEW m \in Messages, NEW n \in Hosts, Settle(m, n)
        PROVE  /\ history.completed \subseteq history'.completed
               /\ history.removed \subseteq history'.removed
    BY <1>2, SettleFacts
  <1>3. ASSUME UNCHANGED history
        PROVE  /\ history.completed \subseteq history'.completed
               /\ history.removed \subseteq history'.removed
    BY <1>3
  <1>4. ASSUME NEW n \in Hosts, Attaching(n) \/ Beating(n) \/ Passing(n) \/ Crash(n)
        PROVE  UNCHANGED history
    BY <1>4, AttachingFacts, BeatingFacts, PassingFacts, CrashFacts
  <1>5. ASSUME NEW m \in Messages, NEW n \in Hosts, Publish(m, n) PROVE UNCHANGED history
    BY <1>5, PublishFacts
  <1>6. ASSUME NEW n \in Nodes, LoopFails(n) PROVE UNCHANGED history
    BY <1>6, LoopFailsFacts
  <1>7. ASSUME Tick \/ UNCHANGED vars PROVE UNCHANGED history
    BY <1>7 DEF Tick, vars
  <1>8. ASSUME NEW n \in Maintainers, Maintaining(n)
        PROVE  UNCHANGED history \/ \E gone \in SUBSET Instances : Removed(gone)
    BY <1>8, MaintainingFacts
  <1>9. ASSUME Detaching
        PROVE  UNCHANGED history \/ \E gone \in SUBSET Instances : Removed(gone)
    BY <1>9, DetachingFacts DEF Detach
  <1> QED
    BY <1>1, <1>2, <1>3, <1>4, <1>5, <1>6, <1>7, <1>8, <1>9 DEF Next

\* A registration that disappears is on record, one that appears begins at a recent
\* boundary, and any other keeps its boundary.
ConsumerMoves(i) ==
    /\ consumer[i].present =>
          \/ i \in history'.removed
          \/ consumer'[i].present /\ consumer'[i].boundary = consumer[i].boundary
    /\ consumer'[i].present =>
          \/ consumer[i].present /\ consumer'[i].boundary = consumer[i].boundary
          \/ now - MaxStall - Grace <= consumer'[i].boundary /\ UNCHANGED message

LEMMA ConsumerStep ==
    ASSUME TypeOK, Clocks, [Next]_vars, NEW i \in Instances
    PROVE  ConsumerMoves(i)
  <1>0. now \in Nat /\ MaxStall \in Nat /\ Grace \in Nat
    BY UpkeepAssumption DEF TypeOK
  <1>1. ASSUME NEW gone \in SUBSET Instances, Removed(gone) PROVE ConsumerMoves(i)
    BY <1>1, RemovedFacts DEF ConsumerMoves
  <1>2. ASSUME NEW n \in Hosts, NEW want \in Registrations, NEW clock \in Int,
               now <= clock + MaxStall, consumer' = Registered(n, want, clock), UNCHANGED message
        PROVE  ConsumerMoves(i)
    <2> DEFINE j == InstanceFor(n, want)
    <2>1. ConsumerOK(consumer)
      BY DEF TypeOK, ConsumerOK
    <2>2. /\ consumer'[j].present
          /\ consumer'[j].boundary = IF consumer[j].present THEN consumer[j].boundary
                                     ELSE clock - Grace
          /\ \A k \in Instances : k # j => consumer'[k] = consumer[k]
      BY <1>2, <2>1, RegisteredFacts
    <2> HIDE DEF j
    <2>3. now - MaxStall - Grace <= clock - Grace
      BY <1>0, <1>2
    <2>4. CASE i = j
      BY <1>2, <2>2, <2>3, <2>4 DEF ConsumerMoves
    <2>5. CASE i # j
      BY <2>2, <2>5 DEF ConsumerMoves
    <2> QED
      BY <2>4, <2>5
  <1>3. ASSUME consumer'[i].present = consumer[i].present,
               consumer'[i].boundary = consumer[i].boundary
        PROVE  ConsumerMoves(i)
    BY <1>3 DEF ConsumerMoves
  <1>4. ASSUME NEW n \in Hosts, Attaching(n) PROVE ConsumerMoves(i)
    <2>1. CASE RegisterConsumer(n)
      <3>1. /\ host[n].want \in Registrations /\ host[n].clock \in Int
            /\ now <= host[n].clock + MaxStall
            /\ consumer' = Registered(n, host[n].want, host[n].clock) /\ UNCHANGED message
        BY <2>1 DEF RegisterConsumer, Clocks, TypeOK, Thread
      <3> QED
        BY <1>2, <3>1
    <2>2. CASE UNCHANGED consumer
      BY <1>3, <2>2
    <2> QED
      BY <1>4, <2>1, <2>2, AttachingFacts
  <1>5. ASSUME NEW n \in Hosts, Beating(n) PROVE ConsumerMoves(i)
    <2>1. CASE Reregister(n)
      <3>1. /\ beat[n].want \in Registrations /\ beat[n].clock \in Int
            /\ now <= beat[n].clock + MaxStall
            /\ consumer' = Registered(n, beat[n].want, beat[n].clock) /\ UNCHANGED message
        BY <2>1 DEF Reregister, Clocks, TypeOK, Thread
      <3> QED
        BY <1>2, <3>1
    <2>2. CASE ~Reregister(n)
      BY <1>3, <1>5, <2>2, BeatingFacts
    <2> QED
      BY <2>1, <2>2
  <1>6. ASSUME NEW n \in Hosts, Passing(n) \/ Crash(n) PROVE ConsumerMoves(i)
    BY <1>3, <1>6, PassingFacts, CrashFacts
  <1>7. ASSUME NEW m \in Messages, NEW n \in Hosts, Publish(m, n) \/ Settle(m, n) PROVE ConsumerMoves(i)
    BY <1>3, <1>7, PublishFacts, SettleFacts
  <1>8. ASSUME NEW n \in Maintainers, Maintaining(n) PROVE ConsumerMoves(i)
    BY <1>1, <1>3, <1>8, MaintainingFacts
  <1>9. ASSUME NEW n \in Nodes, LoopFails(n) PROVE ConsumerMoves(i)
    BY <1>3, <1>9, LoopFailsFacts
  <1>10. CASE Detaching
    <2>1. UNCHANGED consumer \/ \E gone \in SUBSET Instances : Removed(gone)
      BY <1>10, DetachingFacts DEF Detach
    <2> QED
      BY <1>1, <1>3, <2>1
  <1>11. CASE Tick \/ UNCHANGED vars
    BY <1>3, <1>11 DEF Tick, vars
  <1> QED
    BY <1>4, <1>5, <1>6, <1>7, <1>8, <1>9, <1>10, <1>11 DEF Next

\* What becomes of a message.
LEMMA MessageStep ==
    ASSUME TypeOK, Clocks, [Next]_vars, NEW m \in Messages
    PROVE  \/ message'[m] = message[m]
           \/ message[m].state = "none" /\ message'[m].state = "visible"
           \/ message[m].state = "visible" /\ message'[m].state = "capped"
           \/ /\ message[m].state = "visible" /\ message'[m].state = "gone"
              /\ message'[m].date = message[m].date /\ message[m].date < now - Retention
              /\ ~Pinned(m) /\ UNCHANGED <<consumer, delivery, history>>
  <1>1. ASSUME NEW n \in Maintainers, Maintaining(n),
               message[m].state = "visible", message'[m].state = "gone"
        PROVE  /\ message'[m].date = message[m].date /\ message[m].date < now - Retention
               /\ ~Pinned(m) /\ UNCHANGED <<consumer, delivery, history>>
    <2>1. /\ message'[m].date = message[m].date /\ message[m].date < loop[n].clock - Retention
          /\ loop[n].phase = "settled" /\ ~Pinned(m) /\ UNCHANGED <<consumer, delivery, history>>
      BY <1>1, MaintainingFacts
    <2>2. loop[n].clock <= now /\ loop[n].clock \in Int /\ now \in Nat /\ message[m].date \in Int
          /\ Retention \in Nat
      BY <2>1, UpkeepAssumption DEF Clocks, TypeOK, Thread, Nodes, MessageRecord
    <2> QED
      BY <2>1, <2>2
  <1>2. ASSUME NEW n \in Maintainers, Maintaining(n)
        PROVE  \/ message'[m] = message[m]
               \/ message[m].state = "visible" /\ message'[m].state \in {"capped", "gone"}
    BY <1>2, MaintainingFacts
  <1>3. ASSUME NEW k \in Messages, NEW n \in Hosts, Publish(k, n)
        PROVE  message'[m] = message[m]
               \/ (message[m].state = "none" /\ message'[m].state = "visible")
    BY <1>3, PublishFacts
  <1>4. ASSUME NEW n \in Hosts, Attaching(n) \/ Beating(n) \/ Passing(n) \/ Crash(n)
        PROVE  UNCHANGED message
    BY <1>4, AttachingFacts, BeatingFacts, PassingFacts, CrashFacts
  <1>5. ASSUME NEW k \in Messages, NEW n \in Hosts, Settle(k, n) PROVE UNCHANGED message
    BY <1>5, SettleFacts
  <1>6. ASSUME NEW n \in Nodes, LoopFails(n) PROVE UNCHANGED message
    BY <1>6, LoopFailsFacts
  <1>7. ASSUME Detaching PROVE UNCHANGED message
    BY <1>7, DetachingFacts
  <1>8. ASSUME Tick \/ UNCHANGED vars PROVE UNCHANGED message
    BY <1>8 DEF Tick, vars
  <1> QED
    BY <1>1, <1>2, <1>3, <1>4, <1>5, <1>6, <1>7, <1>8 DEF Next

\* What becomes of a delivery: a row appears for a message that is there, is settled, is
\* resubmitted, or is swept with its message or its registration.
DeliveryMoves(x) ==
    \/ delivery'[x] = delivery[x]
    \/ /\ delivery'[x] = "PENDING"
       /\ \/ delivery[x] = "ABSENT" /\ message[x[1]].state = "visible"
          \/ message[x[1]].state = "none"
          \/ delivery[x] = "EXHAUSTED"
    \/ delivery[x] = "PENDING" /\ delivery'[x] = "EXHAUSTED"
    \/ delivery[x] = "PENDING" /\ delivery'[x] = "COMPLETED" /\ x \in history'.completed
    \/ /\ WithoutMessage(x) \/ WithoutConsumer(x)
       /\ delivery'[x] = "ABSENT" /\ UNCHANGED <<consumer, message, history>>

LEMMA DeliveryStep ==
    ASSUME TypeOK, [Next]_vars, NEW x \in Messages \X Instances
    PROVE  DeliveryMoves(x)
  <1>1. ASSUME UNCHANGED delivery PROVE DeliveryMoves(x)
    BY <1>1 DEF DeliveryMoves
  <1>2. ASSUME NEW n \in Hosts, Passing(n) PROVE DeliveryMoves(x)
    BY <1>2, PassingFacts DEF DeliveryMoves
  <1>3. ASSUME NEW m \in Messages, NEW n \in Hosts, Publish(m, n) PROVE DeliveryMoves(x)
    BY <1>3, PublishFacts DEF DeliveryMoves
  <1>4. ASSUME NEW m \in Messages, NEW n \in Hosts, Settle(m, n) PROVE DeliveryMoves(x)
    BY <1>4, SettleFacts DEF DeliveryMoves
  <1>5. ASSUME NEW n \in Maintainers, Maintaining(n) PROVE DeliveryMoves(x)
    BY <1>5, MaintainingFacts DEF DeliveryMoves
  <1>6. ASSUME NEW n \in Hosts, Attaching(n) \/ Beating(n) \/ Crash(n) PROVE DeliveryMoves(x)
    BY <1>1, <1>6, AttachingFacts, BeatingFacts, CrashFacts
  <1>7. ASSUME NEW n \in Nodes, LoopFails(n) PROVE DeliveryMoves(x)
    BY <1>1, <1>7, LoopFailsFacts
  <1>8. CASE Detaching
    BY <1>1, <1>8, DetachingFacts
  <1>9. CASE Tick \/ UNCHANGED vars
    BY <1>1, <1>9 DEF Tick, vars
  <1> QED
    BY <1>2, <1>3, <1>4, <1>5, <1>6, <1>7, <1>8, <1>9 DEF Next

\* A delivery is completed by a host that is attached.
LEMMA CompletedStep ==
    ASSUME TypeOK, [Next]_vars, NEW x \in history'.completed, x \notin history.completed
    PROVE  /\ x \in Messages \X Instances
           /\ delivery'[x] = "COMPLETED" /\ message[x[1]].state = "visible"
           /\ UNCHANGED <<message, consumer>> /\ history'.removed = history.removed
           /\ \E n \in Hosts : host[n].phase = "on" /\ x[2] = InstanceFor(n, host[n].want)
  <1>1. ASSUME NEW gone \in SUBSET Instances, Removed(gone) PROVE FALSE
    BY <1>1, RemovedFacts
  <1>2. ASSUME UNCHANGED history PROVE FALSE
    BY <1>2
  <1>3. ASSUME NEW n \in Hosts, Attaching(n) \/ Beating(n) \/ Passing(n) \/ Crash(n) PROVE FALSE
    BY <1>2, <1>3, AttachingFacts, BeatingFacts, PassingFacts, CrashFacts
  <1>4. ASSUME NEW m \in Messages, NEW n \in Hosts, Publish(m, n) PROVE FALSE
    BY <1>2, <1>4, PublishFacts
  <1>5. ASSUME NEW n \in Maintainers, Maintaining(n) PROVE FALSE
    BY <1>1, <1>2, <1>5, MaintainingFacts
  <1>6. ASSUME NEW n \in Nodes, LoopFails(n) PROVE FALSE
    BY <1>2, <1>6, LoopFailsFacts
  <1>7. ASSUME Detaching PROVE FALSE
    <2>1. UNCHANGED history \/ Removed(Instances)
      BY <1>7, DetachingFacts DEF Detach
    <2> QED
      BY <1>1, <1>2, <2>1
  <1>8. ASSUME Tick \/ UNCHANGED vars PROVE FALSE
    BY <1>2, <1>8 DEF Tick, vars
  <1>9. PICK m \in Messages, n \in Hosts : Settle(m, n)
    BY <1>3, <1>4, <1>5, <1>6, <1>7, <1>8 DEF Next
  <1> DEFINE y == <<m, InstanceFor(n, host[n].want)>>
  <1>10. /\ y \in Messages \X Instances /\ message[m].state = "visible" /\ host[n].phase = "on"
         /\ UNCHANGED <<message, consumer>> /\ history'.removed = history.removed
         /\ \/ delivery'[y] = "COMPLETED" /\ history'.completed = history.completed \cup {y}
            \/ history'.completed = history.completed
    BY <1>9, SettleFacts
  <1>11. x = y /\ delivery'[y] = "COMPLETED"
    BY <1>10
  <1>12. x[1] = m /\ x[2] = InstanceFor(n, host[n].want)
    BY <1>11
  <1> HIDE DEF y
  <1> QED
    BY <1>10, <1>11, <1>12

\* A loop whose clock is not in the future keeps such a one.
LEMMA LoopClocks ==
    ASSUME TypeOK, Clocks, NEW n \in Nodes, LoopStep(n), UNCHANGED now
    PROVE  \A k \in Nodes : loop'[k].phase # "idle" => loop'[k].clock <= now'
  <1>1. now \in Nat
    BY DEF TypeOK
  <1>2. ASSUME NEW k \in Nodes, loop'[k].phase # "idle" PROVE loop'[k].clock <= now'
    <2>1. CASE k # n
      BY <1>2, <2>1 DEF LoopStep, Clocks
    <2>2. CASE k = n
      BY <1>1, <1>2, <2>2 DEF LoopStep, Clocks
    <2> QED
      BY <2>1, <2>2
  <1> QED
    BY <1>2

\* Nobody stalls longer than MaxStall with a clock in hand.
LEMMA ClocksKept == TypeOK /\ Clocks /\ [Next]_vars => Clocks'
  <1> SUFFICES ASSUME TypeOK, Clocks, [Next]_vars PROVE Clocks'
    OBVIOUS
  <1>0. now \in Nat /\ MaxStall \in Nat
    BY UpkeepAssumption DEF TypeOK
  <1>1. ASSUME UNCHANGED <<now, host, beat>>, NEW n \in Nodes, LoopStep(n) PROVE Clocks'
    BY <1>1, LoopClocks DEF Clocks
  <1>2. ASSUME NEW n \in Hosts, Attaching(n) PROVE Clocks'
    <2>1. /\ UNCHANGED <<now, beat, loop>>
          /\ \A k \in Hosts : k # n => host'[k] = host[k]
          /\ host'[n].phase = "register" => host'[n].clock = now
      BY <1>2, AttachingFacts
    <2>2. ASSUME NEW k \in Hosts, host'[k].phase = "register"
          PROVE  now' <= host'[k].clock + MaxStall
      <3>1. CASE k = n
        BY <1>0, <2>1, <2>2, <3>1
      <3>2. CASE k # n
        BY <2>1, <2>2, <3>2 DEF Clocks
      <3> QED
        BY <3>1, <3>2
    <2> QED
      BY <2>1, <2>2 DEF Clocks
  <1>3. ASSUME Detaching PROVE Clocks'
    <2>1. UNCHANGED <<now, beat, loop>> /\ \A k \in Hosts : host'[k] = host[k] \/ host'[k].phase = "off"
      BY <1>3, DetachingFacts
    <2> QED
      BY <2>1 DEF Clocks
  <1>4. ASSUME NEW n \in Hosts, Beating(n) PROVE Clocks'
    <2>1. /\ UNCHANGED <<now, host, loop>>
          /\ \A k \in Hosts : k # n => beat'[k] = beat[k]
          /\ beat'[n].phase # "idle" => \/ beat'[n].clock = now
                                        \/ beat[n].phase # "idle" /\ beat'[n].clock = beat[n].clock
      BY <1>4, BeatingFacts
    <2>2. ASSUME NEW k \in Hosts, beat'[k].phase # "idle"
          PROVE  now' <= beat'[k].clock + MaxStall
      <3>1. CASE k = n
        BY <1>0, <2>1, <2>2, <3>1 DEF Clocks
      <3>2. CASE k # n
        BY <2>1, <2>2, <3>2 DEF Clocks
      <3> QED
        BY <3>1, <3>2
    <2> QED
      BY <2>1, <2>2 DEF Clocks
  <1>5. ASSUME NEW n \in Hosts, Passing(n) PROVE Clocks'
    BY <1>1, <1>5, PassingFacts DEF Nodes
  <1>6. ASSUME NEW n \in Hosts, Crash(n) PROVE Clocks'
    <2>1. /\ LoopStep(n) /\ UNCHANGED now /\ host'[n].phase = "off" /\ beat'[n].phase = "idle"
          /\ \A k \in Hosts : k # n => host'[k] = host[k] /\ beat'[k] = beat[k]
      BY <1>6, CrashFacts
    <2>2. n \in Nodes
      BY DEF Nodes
    <2> QED
      BY <2>1, <2>2, LoopClocks DEF Clocks
  <1>7. ASSUME NEW m \in Messages, NEW n \in Hosts, Publish(m, n) \/ Settle(m, n) PROVE Clocks'
    <2>1. UNCHANGED <<now, host, beat, loop>>
      BY <1>7, PublishFacts, SettleFacts
    <2> QED
      BY <2>1 DEF Clocks
  <1>8. ASSUME NEW n \in Maintainers, Maintaining(n) PROVE Clocks'
    BY <1>1, <1>8, MaintainingFacts DEF Nodes
  <1>9. ASSUME NEW n \in Nodes, LoopFails(n) PROVE Clocks'
    BY <1>1, <1>9, LoopFailsFacts
  <1>10. CASE Tick
    <2>1. UNCHANGED <<host, beat, loop>> /\ now' = now + 1
      BY <1>10 DEF Tick
    <2>2. ASSUME NEW k \in Hosts
          PROVE  /\ host[k].phase = "register" => now + 1 <= host[k].clock + MaxStall
                 /\ beat[k].phase # "idle" => now + 1 <= beat[k].clock + MaxStall
      <3>1. host[k].clock \in Int /\ beat[k].clock \in Int
        BY DEF TypeOK, Thread
      <3> QED
        BY <1>0, <1>10, <3>1 DEF Tick
    <2>3. ASSUME NEW k \in Nodes, loop[k].phase # "idle" PROVE loop[k].clock <= now + 1
      <3>1. loop[k].clock \in Int /\ loop[k].clock <= now
        BY <2>3 DEF TypeOK, Thread, Clocks
      <3> QED
        BY <1>0, <3>1
    <2> QED
      BY <2>1, <2>2, <2>3 DEF Clocks
  <1>11. CASE UNCHANGED vars
    BY <1>11 DEF vars, Clocks
  <1> QED
    BY <1>2, <1>3, <1>4, <1>5, <1>6, <1>7, <1>8, <1>9, <1>10, <1>11 DEF Next

\* Time never goes back.
LEMMA TimePasses ==
    ASSUME TypeOK, [Next]_vars
    PROVE  now' \in Nat /\ now <= now'
  <1>0. now \in Nat
    BY DEF TypeOK
  <1>1. ASSUME NEW n \in Hosts, Attaching(n) \/ Beating(n) \/ Passing(n) \/ Crash(n)
        PROVE  UNCHANGED now
    BY <1>1, AttachingFacts, BeatingFacts, PassingFacts, CrashFacts
  <1>2. ASSUME NEW m \in Messages, NEW n \in Hosts, Publish(m, n) \/ Settle(m, n)
        PROVE  UNCHANGED now
    BY <1>2, PublishFacts, SettleFacts
  <1>3. ASSUME NEW n \in Maintainers, Maintaining(n) PROVE UNCHANGED now
    BY <1>3, MaintainingFacts
  <1>4. ASSUME NEW n \in Nodes, LoopFails(n) PROVE UNCHANGED now
    BY <1>4, LoopFailsFacts
  <1>5. ASSUME Detaching \/ UNCHANGED vars PROVE UNCHANGED now
    BY <1>5, DetachingFacts DEF vars
  <1>6. UNCHANGED now \/ now' = now + 1
    BY <1>1, <1>2, <1>3, <1>4, <1>5 DEF Next, Tick
  <1> QED
    BY <1>0, <1>6

\* Retention deletes only what has outlived it.
LEMMA OutlivedKept == TypeOK /\ Clocks /\ Outlived /\ [Next]_vars => Outlived'
  <1> SUFFICES ASSUME TypeOK, Clocks, Outlived, [Next]_vars,
                      NEW m \in Messages, message'[m].state = "gone"
               PROVE  message'[m].date < now' - Retention
    BY DEF Outlived
  <1>1. message'[m].date = message[m].date /\ message[m].date < now - Retention
    BY MessageStep DEF Outlived
  <1>2. now \in Nat /\ message[m].date \in Int /\ Retention \in Nat
    BY UpkeepAssumption DEF TypeOK, MessageRecord
  <1> QED
    BY <1>1, <1>2, TimePasses

\* A registration that appears or appears again begins above everything that retention
\* has deleted, and nothing is deleted that a registration still needs.
LEMMA CoveredStays ==
    ASSUME TypeOK, Clocks, Outlived, Witnessed, CoveredKept, [Next]_vars
    PROVE  CoveredKept'
  <1> SUFFICES ASSUME NEW m \in Messages, NEW i \in Instances, message'[m].state = "gone",
                      consumer'[i].present, consumer'[i].boundary <= message'[m].date
               PROVE  <<m, i>> \in history'.completed
    BY DEF CoveredKept
  <1>0. /\ now \in Nat /\ MaxStall \in Nat /\ Grace \in Nat /\ Retention \in Nat
        /\ Grace + MaxStall <= Retention
    BY UpkeepAssumption, RetentionAssumption DEF TypeOK
  <1>1. <<m, i>> \in history.completed => <<m, i>> \in history'.completed
    BY HistoryGrows
  <1>2. CASE message'[m] = message[m]
    <2>1. CASE consumer[i].present /\ consumer'[i].boundary = consumer[i].boundary
      BY <1>1, <1>2, <2>1 DEF CoveredKept
    <2>2. CASE now - MaxStall - Grace <= consumer'[i].boundary
      <3>1. message[m].date < now - Retention /\ message[m].date \in Int
        BY <1>2 DEF Outlived, TypeOK, MessageRecord
      <3>2. TypeOK'
        BY NextType
      <3>3. consumer'[i].boundary \in Int
        BY <3>2 DEF TypeOK, ConsumerRecord
      <3> QED
        BY <1>0, <1>2, <2>2, <3>1, <3>3
    <2> QED
      BY <2>1, <2>2, ConsumerStep DEF ConsumerMoves
  <1>3. CASE message'[m] # message[m]
    <2>1. message'[m].date = message[m].date /\ ~Pinned(m) /\ UNCHANGED <<consumer, history>>
      BY <1>3, MessageStep
    <2>2. delivery[<<m, i>>] = "COMPLETED"
      BY <2>1 DEF Pinned
    <2>3. <<m, i>> \in Messages \X Instances
      OBVIOUS
    <2> QED
      BY <1>1, <2>2, <2>3 DEF Witnessed
  <1> QED
    BY <1>2, <1>3

\* A completion is on record.
LEMMA WitnessedKept == TypeOK /\ Witnessed /\ [Next]_vars => Witnessed'
  <1> SUFFICES ASSUME TypeOK, Witnessed, [Next]_vars,
                      NEW x \in Messages \X Instances, delivery'[x] = "COMPLETED"
               PROVE  x \in history'.completed
    BY DEF Witnessed
  <1> QED
    BY DeliveryStep, HistoryGrows DEF DeliveryMoves, Witnessed

\* A host that is attached has been registered.
LEMMA EnlistedKept == TypeOK /\ Clocks /\ Enlisted /\ [Next]_vars => Enlisted'
  <1> SUFFICES ASSUME TypeOK, Clocks, Enlisted, [Next]_vars, NEW k \in Hosts, host'[k].phase = "on"
               PROVE  \/ consumer'[InstanceFor(k, host'[k].want)].present
                      \/ InstanceFor(k, host'[k].want) \in history'.removed
    BY DEF Enlisted, InstanceFor
  <1>0. host[k].want \in Registrations /\ InstanceFor(k, host[k].want) \in Instances
    BY InstanceType DEF TypeOK, Thread
  <1>1. ASSUME host'[k] = host[k]
        PROVE  \/ consumer'[InstanceFor(k, host'[k].want)].present
               \/ InstanceFor(k, host'[k].want) \in history'.removed
    BY <1>0, <1>1, ConsumerStep, HistoryGrows DEF Enlisted, ConsumerMoves
  <1>2. ASSUME RegisterConsumer(k)
        PROVE  consumer'[InstanceFor(k, host'[k].want)].present
    <2>1. host'[k].want = host[k].want
      BY <1>2 DEF RegisterConsumer, At, TypeOK
    <2>2. ConsumerOK(consumer) /\ host[k].clock \in Int
      BY DEF TypeOK, ConsumerOK, Thread
    <2> QED
      BY <1>0, <1>2, <2>1, <2>2, RegisteredFacts DEF RegisterConsumer
  <1>3. host'[k] = host[k] \/ RegisterConsumer(k)
    <2>1. ASSUME NEW n \in Hosts, Attaching(n) PROVE host'[k] = host[k] \/ RegisterConsumer(k)
      BY <2>1, AttachingFacts
    <2>2. ASSUME NEW n \in Hosts, Beating(n) \/ Passing(n) \/ Crash(n) PROVE host'[k] = host[k]
      BY <2>2, BeatingFacts, PassingFacts, CrashFacts
    <2>3. ASSUME NEW m \in Messages, NEW n \in Hosts, Publish(m, n) \/ Settle(m, n)
          PROVE  host'[k] = host[k]
      BY <2>3, PublishFacts, SettleFacts
    <2>4. ASSUME NEW n \in Maintainers, Maintaining(n) PROVE host'[k] = host[k]
      BY <2>4, MaintainingFacts
    <2>5. ASSUME NEW n \in Nodes, LoopFails(n) PROVE host'[k] = host[k]
      BY <2>5, LoopFailsFacts
    <2>6. ASSUME Detaching PROVE host'[k] = host[k]
      BY <2>6, DetachingFacts
    <2>7. ASSUME Tick \/ UNCHANGED vars PROVE host'[k] = host[k]
      BY <2>7 DEF Tick, vars
    <2> QED
      BY <2>1, <2>2, <2>3, <2>4, <2>5, <2>6, <2>7 DEF Next
  <1> QED
    BY <1>1, <1>2, <1>3

\* The memory of completed deliveries survives as long as their registration.
LEMMA RememberedKept ==
    ASSUME TypeOK, Clocks, Enlisted, Remembered, [Next]_vars
    PROVE  Remembered'
  <1> SUFFICES ASSUME NEW x \in history'.completed
               PROVE  /\ message'[x[1]].state # "none"
                      /\ x[2] \notin history'.removed =>
                           /\ consumer'[x[2]].present
                           /\ \/ delivery'[x] = "COMPLETED"
                              \/ /\ delivery'[x] = "ABSENT"
                                 /\ message'[x[1]].state \in {"gone", "capped"}
    BY DEF Remembered
  <1>1. CASE x \in history.completed
    <2>0. x \in Messages \X Instances /\ x[1] \in Messages /\ x[2] \in Instances
          /\ message[x[1]].state \in {"none", "visible", "gone", "capped"}
      BY <1>1 DEF TypeOK, MessageRecord
    <2>1. message[x[1]].state # "none" /\ message'[x[1]].state # "none"
      BY <1>1, <2>0, MessageStep DEF Remembered
    <2> SUFFICES ASSUME x[2] \notin history'.removed
                 PROVE  /\ consumer'[x[2]].present
                        /\ \/ delivery'[x] = "COMPLETED"
                           \/ /\ delivery'[x] = "ABSENT"
                              /\ message'[x[1]].state \in {"gone", "capped"}
      BY <2>1
    <2>2. /\ consumer[x[2]].present
          /\ \/ delivery[x] = "COMPLETED"
             \/ delivery[x] = "ABSENT" /\ message[x[1]].state \in {"gone", "capped"}
      BY <1>1, HistoryGrows DEF Remembered
    <2>3. consumer'[x[2]].present
      BY <2>0, <2>2, ConsumerStep DEF ConsumerMoves
    <2>4. message[x[1]].state \in {"gone", "capped"} => message'[x[1]].state \in {"gone", "capped"}
      BY <2>0, MessageStep
    <2>5. DeliveryMoves(x)
      BY <2>0, DeliveryStep
    <2>6. CASE delivery[x] = "COMPLETED"
      BY <2>0, <2>1, <2>2, <2>3, <2>5, <2>6 DEF DeliveryMoves, WithoutMessage, WithoutConsumer
    <2>7. CASE delivery[x] = "ABSENT" /\ message[x[1]].state \in {"gone", "capped"}
      BY <2>0, <2>1, <2>3, <2>4, <2>5, <2>7 DEF DeliveryMoves
    <2> QED
      BY <2>2, <2>6, <2>7
  <1>2. CASE x \notin history.completed
    <2>1. PICK n \in Hosts : host[n].phase = "on" /\ x[2] = InstanceFor(n, host[n].want)
      BY <1>2, CompletedStep
    <2>2. consumer[x[2]].present \/ x[2] \in history.removed
      BY <2>1 DEF Enlisted
    <2> QED
      BY <1>2, <2>2, CompletedStep
  <1> QED
    BY <1>1, <1>2

\* The invariant of the upkeep.
LEMMA UpkeepInvariant == Spec => [](TypeOK /\ UpkeepInv)
  <1>1. Init => UpkeepInv
    <2> SUFFICES ASSUME Init PROVE UpkeepInv
      OBVIOUS
    <2>1. /\ \A n \in Hosts : host[n].phase = "off" /\ beat[n].phase = "idle"
          /\ \A n \in Nodes : loop[n].phase = "idle"
      BY DEF Init, At, Idle
    <2>2. /\ \A m \in Messages : message[m].state = "none"
          /\ \A x \in Messages \X Instances : delivery[x] = "ABSENT"
          /\ history.completed = {}
      BY DEF Init
    <2> QED
      BY <2>1, <2>2 DEF UpkeepInv, Clocks, Outlived, CoveredKept, Witnessed, Enlisted, Remembered
  <1>2. TypeOK /\ UpkeepInv /\ [Next]_vars => UpkeepInv'
    BY ClocksKept, OutlivedKept, CoveredStays, WitnessedKept, EnlistedKept, RememberedKept
       DEF UpkeepInv
  <1> QED
    BY <1>1, <1>2, TypeCorrect, PTL DEF Spec

\* Retention never takes a message away from a registered consumer that covers it and
\* has not completed it, whenever the consumer registered, re-registered or stalled.
THEOREM RetentionKeepsCovered == Spec => []CoveredKept
  BY UpkeepInvariant, PTL DEF UpkeepInv

\* A completed delivery becomes pending again only if its registration was removed in
\* between: no sweep, pass, publication or resubmission reopens it otherwise.
THEOREM CompletedStaysCompleted == Spec => ResurrectedOnlyAfterRemoval
  <1>1. ASSUME TypeOK, UpkeepInv, [Next]_vars,
               NEW x \in history.completed, delivery[x] # "PENDING", delivery'[x] = "PENDING"
        PROVE  x[2] \in history.removed
    <2>0. x \in Messages \X Instances
      BY <1>1 DEF TypeOK
    <2>1. DeliveryMoves(x)
      BY <1>1, <2>0, DeliveryStep
    <2> QED
      BY <1>1, <2>1 DEF UpkeepInv, Remembered, DeliveryMoves
  <1> DEFINE Reopens ==
               \A x \in history.completed :
                 delivery[x] # "PENDING" /\ delivery'[x] = "PENDING" => x[2] \in history.removed
  <1>2. TypeOK /\ UpkeepInv /\ [Next]_vars => [Reopens]_vars
    BY <1>1
  <1>3. ResurrectedOnlyAfterRemoval <=> [][Reopens]_vars
    BY DEF ResurrectedOnlyAfterRemoval
  <1> HIDE DEF Reopens
  <1> QED
    BY <1>2, <1>3, UpkeepInvariant, PTL DEF Spec
=============================================================================
