-------------------------- MODULE DispatcherProofs --------------------------
(***************************************************************************)
(* Proofs about Dispatcher for any nodes, attachments, messages and        *)
(* bounds: the dispatcher loops implement at-least-once delivery, and a    *)
(* loop that is stopped leaves no claim behind.                            *)
(***************************************************************************)
EXTENDS Dispatcher, WellFoundedInduction, TLAPS

(* The invariant.                                                          *)

\* Only a committed message has rows.
Unpublished == \A x \in Deliveries : x[1] \notin visible => row[x].status = "ABSENT"

\* A loop that works on an attachment works on one there is.
Positioned(n) == loop[n].phase \notin {"off", "wait"} => loop[n].next \in DOMAIN Attachments

\* A loop in a batch has a delivery at its head, and what is in the batch has a row.
Batched(n) ==
    loop[n].phase \in {"claim", "deliver", "settle"} =>
        /\ loop[n].due # {}
        /\ \A w \in loop[n].due : row[<<w.msg, Listener(n)>>].status # "ABSENT"

\* Whoever is about to settle has delivered.
Succeeded(n) == loop[n].phase = "settle" => Current(n) \in accepted

\* A claim is at work or orphaned.
Claims(n) ==
    \A x \in Deliveries :
        SettlementCondition(n, x) =>
            \/ <<n, x>> \in orphaned
            \/ loop[n].phase \in {"deliver", "settle"} /\ Current(n) = x

NodeInv(n) == Positioned(n) /\ Batched(n) /\ Succeeded(n) /\ Claims(n)

LoopInv == Unpublished /\ \A n \in Nodes : NodeInv(n)

-----------------------------------------------------------------------------
(* Batches.                                                                *)

\* A set of naturals that is not empty has a smallest element.
LEMMA SmallestExists ==
    ASSUME NEW T \in SUBSET Nat, T # {}
    PROVE  \E m \in T : \A k \in T : m <= k
  <1> DEFINE R == {s \in Nat \X Nat : s[1] < s[2]}
  <1>1. IsWellFoundedOn(R, Nat)
    BY NatLessThanWellFounded DEF OpToRel
  <1>2. PICK m \in T : \A k \in T : ~(<<k, m>> \in R)
    BY <1>1, WFMin
  <1>3. ASSUME NEW k \in T, k < m PROVE FALSE
    <2>1. <<k, m>> \in Nat \X Nat
      OBVIOUS
    <2>2. <<k, m>>[1] < <<k, m>>[2]
      BY <1>3
    <2> QED
      BY <1>2, <2>1, <2>2
  <1> QED
    BY <1>3

\* The head of a batch is one of its entries.
LEMMA HeadOfBatch ==
    ASSUME TypeOK, NEW n \in Nodes, loop[n].due # {}
    PROVE  WorkOf(n) \in loop[n].due /\ WorkOf(n) \in Work
  <1>1. loop[n].due \in SUBSET Work
    BY DEF TypeOK, LoopRecord
  <1> DEFINE T == {w.msg : w \in loop[n].due}
  <1>2. T \in SUBSET Nat /\ T # {}
    BY <1>1, LoopsAssumption DEF Work, Messages
  <1>3. PICK m \in T : \A k \in T : m <= k
    BY <1>2, SmallestExists
  <1>4. \E w \in loop[n].due : \A v \in loop[n].due : w.msg <= v.msg
    BY <1>3
  <1> QED
    BY <1>1, <1>4 DEF WorkOf

\* The delivery a loop works on has a row, and its message is committed.
LEMMA CurrentFacts ==
    ASSUME TypeOK, LoopInv, NEW n \in Nodes, loop[n].phase \in {"claim", "deliver", "settle"}
    PROVE  /\ Listener(n) \in Listeners /\ Current(n) \in Deliveries
           /\ WorkOf(n) \in loop[n].due /\ WorkOf(n) \in Work
           /\ row[Current(n)].status # "ABSENT" /\ Current(n)[1] \in visible
  <1>1. WorkOf(n) \in loop[n].due /\ WorkOf(n) \in Work
    BY HeadOfBatch DEF LoopInv, NodeInv, Batched
  <1>2. Listener(n) \in Listeners
    BY DEF LoopInv, NodeInv, Positioned, Listener, Listeners
  <1>3. Current(n) \in Deliveries
    BY <1>1, <1>2 DEF Current, Deliveries, Work
  <1>4. row[Current(n)].status # "ABSENT"
    BY <1>1 DEF LoopInv, NodeInv, Batched, Current
  <1> QED
    BY <1>1, <1>2, <1>3, <1>4 DEF LoopInv, Unpublished

-----------------------------------------------------------------------------
(* Types.                                                                  *)

\* Where a loop goes is a place of a loop, past the batch it was in.
LEMMA PlaceType ==
    ASSUME TypeOK, NEW next \in Nat \ {0}
    PROVE  /\ \A phase \in Phases : At(phase, next) \in LoopRecord
           /\ Begins(next) \in LoopRecord
           /\ \A n \in Nodes : Turn(n, next) \in LoopRecord
  <1>1. \A phase \in Phases : At(phase, next) \in LoopRecord
    BY LoopsAssumption DEF At, LoopRecord
  <1>2. At("wait", 1) \in LoopRecord
    BY LoopsAssumption DEF At, LoopRecord, Phases
  <1>3. [At("materialize", next) EXCEPT !.ceiling = horizon] \in LoopRecord
    <2>1. horizon \in 0..LastMessage
      BY DEF TypeOK
    <2>2. At("materialize", next) \in LoopRecord
      BY <1>1 DEF Phases
    <2> QED
      BY <2>1, <2>2 DEF LoopRecord
  <1> QED
    BY <1>1, <1>2, <1>3 DEF Begins, Turn

\* Where a loop goes it does not work on a delivery, and it works on an attachment there is.
LEMMA PlacePosition ==
    ASSUME NEW next \in Nat \ {0}, NEW n \in Nodes, NEW place \in {Begins(next), Turn(n, next)}
    PROVE  /\ place.phase \in {"wait", "materialize"} /\ place.next \in Nat
           /\ place.phase = "materialize" => place.next \in DOMAIN Attachments
  <1>1. next > Len(Attachments) \/ next \in DOMAIN Attachments
    BY LoopsAssumption
  <1>2. At("wait", 1).phase = "wait" /\ At("wait", 1).next = 1
    BY DEF At
  <1> DEFINE first == [At("materialize", next) EXCEPT !.ceiling = horizon]
  <1>3. first.phase = "materialize" /\ first.next = next
    BY DEF At
  <1>4. place = At("wait", 1) \/ (next <= Len(Attachments) /\ place = first)
    BY LoopsAssumption DEF Begins, Turn
  <1> HIDE DEF first
  <1> QED
    BY <1>1, <1>2, <1>3, <1>4, LoopsAssumption

\* The end of a delivery: the loop is not in a delivery any more.  What is left of its
\* batch was in it.
LEMMA EndDeliveryFacts ==
    ASSUME TypeOK, LoopInv, NEW n \in Nodes, loop[n].phase \in {"claim", "deliver", "settle"},
           EndDelivery(n)
    PROVE  /\ loop' \in [Nodes -> LoopRecord]
           /\ \A m \in Nodes : m # n => loop'[m] = loop[m]
           /\ loop'[n].phase \in {"wait", "materialize", "find", "claim"}
           /\ loop'[n].phase # "wait" => loop'[n].next \in DOMAIN Attachments
           /\ loop'[n].phase = "claim" => /\ loop'[n].next = loop[n].next
                                          /\ loop'[n].due # {} /\ loop'[n].due \subseteq loop[n].due
  <1> DEFINE rest == loop[n].due \ {WorkOf(n)}
             again == deployment.ordering[Listener(n)] = "FIFO" \/ loop[n].full
             ends == IF rest = {} THEN ~again ELSE n \in stopping
             stays == [loop[n] EXCEPT !.phase = IF rest = {} THEN "find" ELSE "claim",
                                      !.due = rest]
             next == loop[n].next + 1
  <1>1. loop' = [loop EXCEPT ![n] = IF ends THEN Turn(n, next) ELSE stays]
    BY DEF EndDelivery
  <1>2. loop[n] \in LoopRecord /\ loop \in [Nodes -> LoopRecord] /\ next \in Nat \ {0}
    BY DEF TypeOK, LoopRecord
  <1>3. /\ stays \in LoopRecord /\ stays.next = loop[n].next /\ stays.due = rest
        /\ stays.phase = IF rest = {} THEN "find" ELSE "claim"
    BY <1>2 DEF LoopRecord, Phases
  <1>4. loop[n].next \in DOMAIN Attachments /\ rest \subseteq loop[n].due
    BY DEF LoopInv, NodeInv, Positioned
  <1> HIDE DEF rest, again, ends, stays, next
  <1>5. Turn(n, next) \in LoopRecord /\ Turn(n, next).phase \in {"wait", "materialize"}
        /\ (Turn(n, next).phase = "materialize" => Turn(n, next).next \in DOMAIN Attachments)
    BY <1>2, PlaceType, PlacePosition
  <1>6. CASE ends
    BY <1>1, <1>2, <1>5, <1>6
  <1>7. CASE ~ends
    BY <1>1, <1>2, <1>3, <1>4, <1>7
  <1> QED
    BY <1>6, <1>7

\* The end of an attachment.
LEMMA EndAttachmentFacts ==
    ASSUME TypeOK, NEW n \in Nodes, EndAttachment(n)
    PROVE  /\ loop' \in [Nodes -> LoopRecord]
           /\ \A m \in Nodes : m # n => loop'[m] = loop[m]
           /\ loop'[n].phase \in {"wait", "materialize"}
           /\ loop'[n].phase # "wait" => loop'[n].next \in DOMAIN Attachments
  <1> DEFINE next == loop[n].next + 1
  <1>1. next \in Nat \ {0} /\ loop \in [Nodes -> LoopRecord]
    BY DEF TypeOK, LoopRecord
  <1>2. loop' = [loop EXCEPT ![n] = Turn(n, next)]
    BY DEF EndAttachment
  <1> HIDE DEF next
  <1>3. Turn(n, next) \in LoopRecord
    BY <1>1, PlaceType
  <1> QED
    BY <1>1, <1>2, <1>3, PlacePosition

\* Rows written are rows.
LEMMA RowType ==
    ASSUME TypeOK, NEW x \in Deliveries
    PROVE  /\ Inserted(x) \in RowRecord
           /\ Inserted(x).holder = row[x].holder
           /\ row[x].status # "ABSENT" => Inserted(x) = row[x]
           /\ row[x].status = "ABSENT" => Inserted(x).status = "PENDING"
           /\ \A status \in Incomplete \cup Settled, attempts \in Nat, holder \in Nodes,
                 ripe \in BOOLEAN :
                 /\ RowWith(status, attempts, holder, ripe) \in RowRecord
                 /\ RowWith(status, attempts, holder, ripe).status = status
                 /\ RowWith(status, attempts, holder, ripe).holder = holder
  <1>1. row[x] \in RowRecord
    BY DEF TypeOK
  <1>2. [row[x] EXCEPT !.status = "PENDING"] \in RowRecord
        /\ [row[x] EXCEPT !.status = "PENDING"].holder = row[x].holder
        /\ [row[x] EXCEPT !.status = "PENDING"].status = "PENDING"
    BY <1>1 DEF RowRecord, Incomplete
  <1> QED
    BY <1>1, <1>2 DEF RowRecord, Inserted, RowWith

\* Initially everything is well-formed.
LEMMA InitType == Init => TypeOK
  <1> SUFFICES ASSUME Init PROVE TypeOK
    OBVIOUS
  <1>1. (CHOOSE n \in Nodes : TRUE) \in Nodes
    BY LoopsAssumption
  <1>2. RowWith("ABSENT", 0, CHOOSE n \in Nodes : TRUE, FALSE) \in RowRecord
    BY <1>1 DEF RowWith, RowRecord
  <1>3. At("off", 1) \in LoopRecord
    BY LoopsAssumption DEF At, LoopRecord, Phases
  <1>4. deployment \in Deployments /\ faults \in Nat
    BY DeploymentsAssumption DEF Init
  <1>5. 0 \in 0..LastMessage
    BY LoopsAssumption
  <1>6. row \in [Deliveries -> RowRecord] /\ loop \in [Nodes -> LoopRecord]
    BY <1>2, <1>3 DEF Init
  <1>7. frontier \in [Listeners -> 0..LastMessage] /\ horizon \in 0..LastMessage
    BY <1>5 DEF Init
  <1> QED
    BY <1>4, <1>6, <1>7 DEF Init, TypeOK

\* A settlement or a claim changes the row of the delivery.
LEMMA RowUpdate ==
    ASSUME TypeOK, NEW x \in Deliveries, NEW r \in RowRecord, row' = [row EXCEPT ![x] = r]
    PROVE  /\ row' \in [Deliveries -> RowRecord] /\ row'[x] = r
           /\ \A y \in Deliveries : y # x => row'[y] = row[y]
  BY DEF TypeOK

\* The row after a settlement.
LEMMA SettledType ==
    ASSUME TypeOK, NEW x \in Deliveries, NEW status \in Incomplete \cup Settled,
           NEW ripe \in BOOLEAN
    PROVE  /\ [row[x] EXCEPT !.status = status] \in RowRecord
           /\ [row[x] EXCEPT !.status = status].status = status
           /\ [row[x] EXCEPT !.status = status].holder = row[x].holder
           /\ [row[x] EXCEPT !.ripe = ripe] \in RowRecord
           /\ [row[x] EXCEPT !.ripe = ripe].status = row[x].status
           /\ [row[x] EXCEPT !.ripe = ripe].holder = row[x].holder
           /\ [row[x] EXCEPT !.status = status, !.ripe = ripe] \in RowRecord
           /\ [row[x] EXCEPT !.status = status, !.ripe = ripe].status = status
  BY DEF TypeOK, RowRecord

\* A batch is the first of the claimable deliveries, which have rows.
LEMMA BatchFacts ==
    ASSUME TypeOK, LoopInv, NEW n \in Nodes, loop[n].phase = "find",
           NEW found, found = FirstOf(Claimable(Listener(n)))
    PROVE  /\ Batch(n, found) \in LoopRecord
           /\ Batch(n, found).phase = "claim" /\ Batch(n, found).next = loop[n].next
           /\ found # {} => Batch(n, found).due # {}
           /\ \A w \in Batch(n, found).due :
                row[<<w.msg, Listener(n)>>].status # "ABSENT"
  <1> DEFINE due == {[msg |-> m, attempts |-> row[<<m, Listener(n)>>].attempts] : m \in found}
             full == Cardinality(found) = BatchSize
  <1>1. Listener(n) \in Listeners
    BY DEF LoopInv, NodeInv, Positioned, Listener, Listeners
  <1>2. \A m \in found : /\ m \in Messages /\ <<m, Listener(n)>> \in Deliveries
                         /\ row[<<m, Listener(n)>>].status # "ABSENT"
    BY <1>1 DEF FirstOf, Claimable, Deliveries, Due
  <1>3. \A m \in found : row[<<m, Listener(n)>>].attempts \in Nat
    BY <1>2 DEF TypeOK, RowRecord
  <1>4. ASSUME NEW w \in due
        PROVE  w \in Work /\ row[<<w.msg, Listener(n)>>].status # "ABSENT"
    <2>1. PICK m \in found : w = [msg |-> m, attempts |-> row[<<m, Listener(n)>>].attempts]
      OBVIOUS
    <2> QED
      BY <1>2, <1>3, <2>1 DEF Work
  <1>5. full \in BOOLEAN /\ due \in SUBSET Work /\ (found # {} => due # {})
    BY <1>4
  <1>6. loop[n] \in LoopRecord /\ loop[n].batches + 1 \in Nat /\ "claim" \in Phases
    BY DEF TypeOK, LoopRecord, Phases
  <1>7. Batch(n, found) = [loop[n] EXCEPT !.phase = "claim", !.batches = @ + 1, !.full = full,
                                          !.due = due]
    BY DEF Batch
  <1> HIDE DEF due, full
  <1>8. [loop[n] EXCEPT !.phase = "claim", !.batches = @ + 1] \in LoopRecord
    BY <1>6 DEF LoopRecord
  <1>9. /\ Batch(n, found) \in LoopRecord /\ Batch(n, found).due = due
        /\ Batch(n, found).phase = "claim" /\ Batch(n, found).next = loop[n].next
    BY <1>5, <1>6, <1>7, <1>8 DEF LoopRecord
  <1> QED
    BY <1>4, <1>5, <1>9

\* A statement of the loop that is not about one delivery.
LEMMA PassType ==
    ASSUME TypeOK, LoopInv, NEW n \in Nodes,
           \/ Start(n) \/ Wait(n) \/ MaterializeDeliveries(n) \/ AdvanceFrontier(n)
           \/ FindDueDeliveries(n) \/ StatementFails(n)
    PROVE  TypeOK'
  <1> USE DEF Rows
  <1>0. loop \in [Nodes -> LoopRecord] /\ loop[n] \in LoopRecord /\ loop[n].next \in Nat
    BY DEF TypeOK, LoopRecord
  <1>1. CASE Start(n)
    <2>1. Begins(1) \in LoopRecord
      BY PlaceType
    <2> QED
      BY <1>0, <1>1, <2>1 DEF Start, TypeOK
  <1>2. CASE Wait(n)
    <2>1. At("off", 1) \in LoopRecord /\ Turn(n, 1) \in LoopRecord
      BY PlaceType DEF Phases
    <2> QED
      BY <1>0, <1>2, <2>1 DEF Wait, TypeOK
  <1>3. CASE MaterializeDeliveries(n)
    <2>1. row' \in [Deliveries -> RowRecord]
      BY <1>3, RowType DEF MaterializeDeliveries, TypeOK
    <2>2. [loop[n] EXCEPT !.phase = "advance"] \in LoopRecord
      BY <1>0 DEF LoopRecord, Phases
    <2> QED
      BY <1>0, <1>3, <2>1, <2>2 DEF MaterializeDeliveries, Phase, TypeOK
  <1>4. CASE AdvanceFrontier(n)
    <2>1. loop[n].next \in DOMAIN Attachments
      BY <1>4 DEF AdvanceFrontier, LoopInv, NodeInv, Positioned
    <2>2. At("find", loop[n].next) \in LoopRecord
      BY <1>0, <2>1, LoopsAssumption, PlaceType DEF Phases
    <2>3. loop[n].ceiling \in 0..LastMessage
      BY <1>0 DEF LoopRecord
    <2>4. frontier' \in [Listeners -> 0..LastMessage]
      BY <1>4, <2>3 DEF AdvanceFrontier, TypeOK
    <2> QED
      BY <1>0, <1>4, <2>2, <2>4 DEF AdvanceFrontier, TypeOK
  <1>5. CASE FindDueDeliveries(n)
    <2> DEFINE found == FirstOf(Claimable(Listener(n)))
    <2>1. EndAttachment(n) \/ (found # {} /\ loop' = [loop EXCEPT ![n] = Batch(n, found)])
      BY <1>5 DEF FindDueDeliveries
    <2>2. Batch(n, found) \in LoopRecord
      BY <1>5, BatchFacts DEF FindDueDeliveries
    <2> HIDE DEF found
    <2>3. loop' \in [Nodes -> LoopRecord]
      BY <1>0, <2>1, <2>2, EndAttachmentFacts
    <2> QED
      BY <1>5, <2>3 DEF FindDueDeliveries, TypeOK
  <1>6. CASE StatementFails(n)
    <2>1. loop' \in [Nodes -> LoopRecord]
      BY <1>6, EndAttachmentFacts DEF StatementFails
    <2>2. faults' \in Nat
      BY <1>6 DEF StatementFails, Fault, TypeOK
    <2> QED
      BY <1>6, <2>1, <2>2 DEF StatementFails, TypeOK
  <1> QED
    BY <1>1, <1>2, <1>3, <1>4, <1>5, <1>6

-----------------------------------------------------------------------------
(* The deliveries.                                                         *)

\* The claim makes the delivery one the node may settle.
LEMMA ClaimFacts ==
    ASSUME TypeOK, LoopInv, NEW n \in Nodes, loop[n].phase = "claim", Claimed(n)
    PROVE  /\ row' \in [Deliveries -> RowRecord]
           /\ row'[Current(n)].status = "PROCESSING" /\ row'[Current(n)].holder = n
           /\ \A y \in Deliveries : y # Current(n) => row'[y] = row[y]
  <1> DEFINE r == RowWith("PROCESSING", WorkOf(n).attempts + 1, n, FALSE)
  <1>1. Current(n) \in Deliveries /\ WorkOf(n).attempts + 1 \in Nat
    BY CurrentFacts DEF Work
  <1>2. r \in RowRecord /\ r.status = "PROCESSING" /\ r.holder = n
    BY <1>1 DEF RowWith, RowRecord, Incomplete
  <1>3. row' = [row EXCEPT ![Current(n)] = r]
    BY DEF Claimed
  <1> HIDE DEF r
  <1> QED
    BY <1>1, <1>2, <1>3, RowUpdate

\* A failed delivery is not processing any more, unless its claim was stolen.
LEMMA FailFacts ==
    ASSUME TypeOK, LoopInv, NEW n \in Nodes, FailDelivery(n)
    PROVE  /\ row' \in [Deliveries -> RowRecord]
           /\ row' = row \/ row'[Current(n)].status \in {"FAILED", "EXHAUSTED"}
           /\ ~(row'[Current(n)].status = "PROCESSING" /\ row'[Current(n)].holder = n)
           /\ \A y \in Deliveries : y # Current(n) => row'[y] = row[y]
  <1> DEFINE x == Current(n)
             status == IF WorkOf(n).attempts + 1 >= Budget THEN "EXHAUSTED" ELSE "FAILED"
  <1>1. x \in Deliveries
    BY CurrentFacts DEF FailDelivery
  <1>2. PICK ripe \in BOOLEAN :
          row' = IF SettlementCondition(n, x)
                 THEN [row EXCEPT ![x] = [@ EXCEPT !.status = status,
                                                   !.ripe = ripe /\ status = "FAILED"]]
                 ELSE row
    BY DEF FailDelivery
  <1> DEFINE later == ripe /\ status = "FAILED"
             r == [row[x] EXCEPT !.status = status, !.ripe = later]
  <1>3. status \in {"FAILED", "EXHAUSTED"} /\ later \in BOOLEAN
    OBVIOUS
  <1>4. r \in RowRecord /\ r.status = status
    <2>1. row[x] \in RowRecord
      BY <1>1 DEF TypeOK
    <2> HIDE DEF later, status
    <2> QED
      BY <1>3, <2>1 DEF RowRecord, Incomplete, Settled
  <1>5. row' = IF SettlementCondition(n, x) THEN [row EXCEPT ![x] = r] ELSE row
    BY <1>1, <1>2 DEF TypeOK
  <1> HIDE DEF r, later, status
  <1>6. CASE SettlementCondition(n, x)
    <2>1. /\ row' \in [Deliveries -> RowRecord] /\ row'[x] = r
          /\ \A y \in Deliveries : y # x => row'[y] = row[y]
      BY <1>1, <1>4, <1>5, <1>6, RowUpdate
    <2>2. row'[x].status \in {"FAILED", "EXHAUSTED"}
      BY <1>3, <1>4, <2>1
    <2>3. ~(row'[x].status = "PROCESSING" /\ row'[x].holder = n)
      BY <2>2
    <2> QED
      BY <2>1, <2>2, <2>3 DEF SettlementCondition
  <1>7. CASE ~SettlementCondition(n, x)
    <2>1. row' = row
      BY <1>5, <1>7
    <2> QED
      BY <1>7, <2>1 DEF TypeOK, SettlementCondition
  <1> QED
    BY <1>6, <1>7

\* A settled delivery.
LEMMA CompletedFacts ==
    ASSUME TypeOK, NEW x \in Deliveries, row' = [row EXCEPT ![x].status = "COMPLETED"]
    PROVE  /\ row' \in [Deliveries -> RowRecord] /\ row'[x].status = "COMPLETED"
           /\ \A y \in Deliveries : y # x => row'[y] = row[y]
  <1> DEFINE r == [row[x] EXCEPT !.status = "COMPLETED"]
  <1>1. r \in RowRecord /\ r.status = "COMPLETED"
    <2>1. row[x] \in RowRecord
      BY DEF TypeOK
    <2> QED
      BY <2>1 DEF RowRecord, Settled
  <1>2. row' = [row EXCEPT ![x] = r]
    BY DEF TypeOK
  <1> HIDE DEF r
  <1> QED
    BY <1>1, <1>2, RowUpdate

\* The steps of a loop that are about one delivery.
Dispatches(n) ==
    \/ ClaimDelivery(n) \/ ClaimFails(n) \/ Succeed(n)
    \/ CompleteDelivery(n) \/ FailDelivery(n) \/ Abandon(n)

\* What such a step does to the row of the delivery.
LEMMA DispatchRow ==
    ASSUME TypeOK, LoopInv, NEW n \in Nodes, Dispatches(n)
    PROVE  /\ loop[n].phase \in {"claim", "deliver", "settle"}
           /\ row' \in [Deliveries -> RowRecord]
           /\ \A y \in Deliveries : y # Current(n) => row'[y] = row[y]
           /\ \/ row' = row
              \/ loop[n].phase = "claim" /\ Claimed(n)
              \/ row'[Current(n)].status \in {"FAILED", "EXHAUSTED"}
              \/ loop[n].phase = "settle" /\ row'[Current(n)].status = "COMPLETED"
  <1>0. loop[n].phase \in {"claim", "deliver", "settle"} /\ row \in [Deliveries -> RowRecord]
    BY DEF Dispatches, ClaimDelivery, ClaimFails, Succeed, CompleteDelivery, FailDelivery,
           Abandon, TypeOK
  <1>1. Current(n) \in Deliveries
    BY <1>0, CurrentFacts
  <1>2. CASE row' = row
    BY <1>0, <1>2
  <1>3. CASE loop[n].phase = "claim" /\ Claimed(n)
    BY <1>0, <1>3, ClaimFacts
  <1>4. CASE FailDelivery(n)
    BY <1>0, <1>4, FailFacts
  <1>5. CASE loop[n].phase = "settle" /\ row' = [row EXCEPT ![Current(n)].status = "COMPLETED"]
    BY <1>0, <1>1, <1>5, CompletedFacts
  <1> QED
    BY <1>2, <1>3, <1>4, <1>5
       DEF Dispatches, ClaimDelivery, ClaimFails, Succeed, CompleteDelivery, FailDelivery, Abandon

\* What it does to the loops.
LEMMA DispatchLoop ==
    ASSUME TypeOK, LoopInv, NEW n \in Nodes, Dispatches(n)
    PROVE  /\ loop' \in [Nodes -> LoopRecord]
           /\ \A m \in Nodes : m # n => loop'[m] = loop[m]
           /\ loop'[n].phase \in Phases \ {"off"}
           /\ loop'[n].phase # "wait" => loop'[n].next \in DOMAIN Attachments
           /\ loop'[n].phase \in {"claim", "deliver", "settle"} =>
                /\ loop'[n].next = loop[n].next
                /\ loop'[n].due # {} /\ loop'[n].due \subseteq loop[n].due
           /\ loop'[n].phase \in {"deliver", "settle"} =>
                /\ loop'[n].due = loop[n].due
                /\ loop'[n].phase = "deliver" => ClaimDelivery(n)
                /\ loop'[n].phase = "settle" => Succeed(n)
  <1>0. loop[n].phase \in {"claim", "deliver", "settle"} /\ loop \in [Nodes -> LoopRecord]
    BY DispatchRow DEF TypeOK
  <1>1. CASE EndDelivery(n)
    <2>1. loop'[n].phase \notin {"deliver", "settle"}
      BY <1>0, <1>1, EndDeliveryFacts
    <2> QED
      BY <1>0, <1>1, <2>1, EndDeliveryFacts DEF Phases
  <1>2. ASSUME NEW phase \in {"deliver", "settle"}, Phase(n, phase),
               phase = "deliver" => ClaimDelivery(n), phase = "settle" => Succeed(n)
        PROVE  /\ loop' \in [Nodes -> LoopRecord]
               /\ \A m \in Nodes : m # n => loop'[m] = loop[m]
               /\ loop'[n].phase = phase /\ loop'[n].next = loop[n].next
               /\ loop'[n].due = loop[n].due
    BY <1>0, <1>2 DEF Phase, LoopRecord, Phases
  <1>3. loop[n].due # {} /\ loop[n].next \in DOMAIN Attachments
    BY <1>0 DEF LoopInv, NodeInv, Batched, Positioned
  <1>4. CASE ClaimDelivery(n) /\ Phase(n, "deliver")
    BY <1>2, <1>3, <1>4 DEF Phases
  <1>5. CASE Succeed(n) /\ Phase(n, "settle")
    BY <1>2, <1>3, <1>5 DEF Phases
  <1> QED
    BY <1>1, <1>4, <1>5
       DEF Dispatches, ClaimDelivery, ClaimFails, Succeed, CompleteDelivery, FailDelivery, Abandon

\* And that everything stays well-formed.
LEMMA DispatchType ==
    ASSUME TypeOK, LoopInv, NEW n \in Nodes, Dispatches(n)
    PROVE  TypeOK'
  <1>1. loop' \in [Nodes -> LoopRecord] /\ row' \in [Deliveries -> RowRecord]
    BY DispatchRow, DispatchLoop
  <1>2. Current(n) \in Deliveries
    BY DispatchRow, CurrentFacts
  <1>3. UNCHANGED <<deployment, visible, horizon, frontier, stopping>>
    BY DEF Dispatches, ClaimDelivery, ClaimFails, Succeed, CompleteDelivery, FailDelivery,
           Abandon, Rows
  <1>4. accepted' \in SUBSET Deliveries
    BY <1>2 DEF Dispatches, ClaimDelivery, ClaimFails, Succeed, CompleteDelivery, FailDelivery,
                Abandon, Rows, TypeOK
  <1>5. orphaned' \in SUBSET (Nodes \X Deliveries) /\ faults' \in Nat
    <2>0. orphaned \in SUBSET (Nodes \X Deliveries) /\ faults \in Nat
      BY DEF TypeOK
    <2> DEFINE claim == <<n, Current(n)>>
    <2>1. claim \in Nodes \X Deliveries
      BY <1>2
    <2>2. orphaned' \in {orphaned, orphaned \cup {claim}, orphaned \ {claim}}
      BY DEF Dispatches, ClaimDelivery, ClaimFails, Succeed, CompleteDelivery, FailDelivery,
             Abandon, Rows
    <2>3. UNCHANGED faults \/ Fault
      BY DEF Dispatches, ClaimDelivery, ClaimFails, Succeed, CompleteDelivery, FailDelivery,
             Abandon
    <2>4. faults' \in Nat
      BY <2>0, <2>3 DEF Fault
    <2> HIDE DEF claim
    <2> QED
      BY <2>0, <2>1, <2>2, <2>4
  <1> QED
    BY <1>1, <1>3, <1>4, <1>5 DEF TypeOK

-----------------------------------------------------------------------------
(* The environment.                                                        *)

\* What it does to the rows: no row appears but one of a message just published, no
\* row disappears, and no delivery becomes one that is processing.
LEMMA OutsideRow ==
    ASSUME TypeOK, LoopInv,
           \/ \E m \in Messages : Publish(m)
           \/ \E x \in Deliveries : Ripen(x) \/ ResubmitDelivery(x)
    PROVE  /\ row' \in [Deliveries -> RowRecord] /\ visible \subseteq visible'
           /\ visible' \in SUBSET Messages /\ UNCHANGED loop
           /\ \A y \in Deliveries :
                /\ row[y].status # "ABSENT" => row'[y].status # "ABSENT"
                /\ y[1] \notin visible' => row'[y] = row[y]
                /\ row'[y].status = "PROCESSING" => row[y].status = "PROCESSING"
                /\ row'[y].status = "COMPLETED" <=> row[y].status = "COMPLETED"
                /\ row'[y].holder = row[y].holder
  <1>0. row \in [Deliveries -> RowRecord]
    BY DEF TypeOK
  <1>1. CASE \E m \in Messages : Publish(m)
    <2>1. PICK m \in Messages : Publish(m)
      BY <1>1
    <2>2. PICK local \in BOOLEAN :
            row' = [x \in Deliveries |-> IF local /\ x[1] = m THEN Inserted(x) ELSE row[x]]
      BY <2>1 DEF Publish
    <2>3. visible' = visible \cup {m} /\ UNCHANGED loop
      BY <2>1 DEF Publish
    <2>4. ASSUME NEW y \in Deliveries
          PROVE  /\ row'[y] \in RowRecord /\ row'[y].holder = row[y].holder
                 /\ row[y].status # "ABSENT" => row'[y] = row[y]
                 /\ row[y].status = "ABSENT" => row'[y].status \in {"ABSENT", "PENDING"}
                 /\ y[1] # m => row'[y] = row[y]
      BY <1>0, <2>2, RowType
    <2>5. row' \in [Deliveries -> RowRecord]
      BY <2>2, <2>4
    <2> QED
      BY <2>3, <2>4, <2>5 DEF TypeOK
  <1>2. ASSUME NEW x \in Deliveries, Ripen(x) \/ ResubmitDelivery(x)
        PROVE  /\ row' \in [Deliveries -> RowRecord] /\ UNCHANGED <<visible, loop>>
               /\ row'[x].status \in {row[x].status, "PENDING"}
               /\ row[x].status \notin {"ABSENT", "COMPLETED"}
               /\ row'[x].holder = row[x].holder
               /\ \A y \in Deliveries : y # x => row'[y] = row[y]
    <2>0. UNCHANGED <<visible, loop>> /\ row[x].status \notin {"ABSENT", "COMPLETED"}
          /\ row[x].holder \in Nodes
      BY <1>0, <1>2 DEF Ripen, ResubmitDelivery, Rows, RowRecord
    <2>1. CASE Ripen(x)
      <3> DEFINE r == [row[x] EXCEPT !.ripe = TRUE]
      <3>1. r \in RowRecord /\ r.status = row[x].status /\ r.holder = row[x].holder
        BY <1>0 DEF RowRecord
      <3>2. row' = [row EXCEPT ![x] = r]
        BY <1>0, <2>1 DEF Ripen
      <3> HIDE DEF r
      <3> QED
        BY <2>0, <3>1, <3>2, RowUpdate
    <2>2. CASE ResubmitDelivery(x)
      <3> DEFINE r == RowWith("PENDING", 0, row[x].holder, FALSE)
      <3>1. r \in RowRecord /\ r.status = "PENDING" /\ r.holder = row[x].holder
        BY <2>0 DEF RowWith, RowRecord, Incomplete
      <3>2. row' = [row EXCEPT ![x] = r]
        BY <2>2 DEF ResubmitDelivery
      <3> HIDE DEF r
      <3> QED
        BY <2>0, <3>1, <3>2, RowUpdate
    <2> QED
      BY <1>2, <2>1, <2>2
  <1>3. CASE \E x \in Deliveries : Ripen(x) \/ ResubmitDelivery(x)
    <2>1. PICK x \in Deliveries : Ripen(x) \/ ResubmitDelivery(x)
      BY <1>3
    <2>2. /\ row' \in [Deliveries -> RowRecord] /\ UNCHANGED <<visible, loop>>
          /\ row'[x].status \in {row[x].status, "PENDING"}
          /\ row[x].status \notin {"ABSENT", "COMPLETED"}
          /\ row'[x].holder = row[x].holder
          /\ \A y \in Deliveries : y # x => row'[y] = row[y]
      BY <1>2, <2>1
    <2>3. ASSUME NEW y \in Deliveries
          PROVE  /\ row[y].status # "ABSENT" => row'[y].status # "ABSENT"
                 /\ y[1] \notin visible' => row'[y] = row[y]
                 /\ row'[y].status = "PROCESSING" => row[y].status = "PROCESSING"
                 /\ row'[y].status = "COMPLETED" <=> row[y].status = "COMPLETED"
                 /\ row'[y].holder = row[y].holder
      <3>1. CASE y = x
        BY <2>2, <3>1 DEF LoopInv, Unpublished
      <3>2. CASE y # x
        BY <2>2, <3>2
      <3> QED
        BY <3>1, <3>2
    <2> QED
      BY <2>2, <2>3 DEF TypeOK
  <1> QED
    BY <1>1, <1>3

\* Every step keeps everything well-formed.
LEMMA NextType == TypeOK /\ LoopInv /\ [Next]_vars => TypeOK'
  <1> SUFFICES ASSUME TypeOK, LoopInv, [Next]_vars PROVE TypeOK'
    OBVIOUS
  <1> USE DEF Rows
  <1>1. ASSUME NEW n \in Nodes, Start(n) \/ Running(n) PROVE TypeOK'
    BY <1>1, PassType, DispatchType DEF Running, Dispatches
  <1>2. ASSUME NEW n \in Nodes, Stop(n) PROVE TypeOK'
    BY <1>2 DEF Stop, Fault, TypeOK
  <1>3. ASSUME NEW n \in Nodes, Crash(n) PROVE TypeOK'
    <2>1. At("off", 1) \in LoopRecord
      BY PlaceType DEF Phases
    <2>2. loop' \in [Nodes -> LoopRecord]
      BY <1>3, <2>1 DEF Crash, TypeOK
    <2>3. orphaned' \in SUBSET (Nodes \X Deliveries)
      BY <1>3, CurrentFacts DEF Crash, TypeOK
    <2>4. faults' \in Nat
      BY <1>3 DEF Crash, Fault, TypeOK
    <2> QED
      BY <1>3, <2>2, <2>3, <2>4 DEF Crash, TypeOK
  <1>4. ASSUME \/ \E m \in Messages : Publish(m)
               \/ \E x \in Deliveries : Ripen(x) \/ ResubmitDelivery(x)
        PROVE  TypeOK'
    <2>1. row' \in [Deliveries -> RowRecord] /\ visible' \in SUBSET Messages /\ UNCHANGED loop
      BY <1>4, OutsideRow
    <2>2. UNCHANGED <<deployment, horizon, frontier, stopping, accepted, orphaned>>
      BY <1>4 DEF Publish, Ripen, ResubmitDelivery
    <2>3. faults' \in Nat
      <3>1. UNCHANGED faults \/ Fault
        BY <1>4 DEF Publish, Ripen, ResubmitDelivery
      <3> QED
        BY <3>1 DEF Fault, TypeOK
    <2> QED
      BY <2>1, <2>2, <2>3 DEF TypeOK
  <1>5. ASSUME Age PROVE TypeOK'
    <2>1. deployment.published \in 0..LastMessage
      BY DeploymentsAssumption DEF TypeOK
    <2>2. horizon' \in 0..LastMessage
      BY <1>5, <2>1, LoopsAssumption DEF Age, TypeOK
    <2> QED
      BY <1>5, <2>2 DEF Age, TypeOK
  <1>6. CASE UNCHANGED vars
    BY <1>6 DEF vars, TypeOK
  <1> QED
    BY <1>1, <1>2, <1>3, <1>4, <1>5, <1>6 DEF Next

-----------------------------------------------------------------------------
(* The invariant is kept.                                                  *)

\* A loop that looks at the same batch of the same attachment works on the same delivery.
LEMMA SameWork ==
    ASSUME NEW n \in Nodes, loop'[n].due = loop[n].due, loop'[n].next = loop[n].next
    PROVE  /\ Listener(n)' = Listener(n) /\ WorkOf(n)' = WorkOf(n)
           /\ Current(n)' = Current(n)
  <1>1. Listener(n)' = Listener(n)
    BY DEF Listener
  <1>2. WorkOf(n)' = WorkOf(n)
    BY DEF WorkOf
  <1> QED
    BY <1>1, <1>2 DEF Current

\* The rest of a batch is a batch.
LEMMA BatchedKept ==
    ASSUME TypeOK, LoopInv, NEW n \in Nodes,
           loop[n].phase \in {"claim", "deliver", "settle"},
           loop'[n].next = loop[n].next,
           loop'[n].due # {}, loop'[n].due \subseteq loop[n].due,
           \A y \in Deliveries : row[y].status # "ABSENT" => row'[y].status # "ABSENT"
    PROVE  Batched(n)'
  <1>1. loop[n].due \subseteq Work
    BY DEF TypeOK, LoopRecord
  <1>2. Listener(n)' = Listener(n) /\ Listener(n) \in Listeners
    BY CurrentFacts DEF Listener
  <1>3. ASSUME NEW w \in loop'[n].due PROVE row'[<<w.msg, Listener(n)>>].status # "ABSENT"
    <2>1. w \in loop[n].due /\ w.msg \in Messages
      BY <1>1 DEF Work
    <2>2. <<w.msg, Listener(n)>> \in Deliveries
      BY <1>2, <2>1 DEF Deliveries
    <2>3. row[<<w.msg, Listener(n)>>].status # "ABSENT"
      BY <2>1 DEF LoopInv, NodeInv, Batched
    <2> QED
      BY <2>2, <2>3
  <1> QED
    BY <1>2, <1>3 DEF Batched

\* A node the step is not about.
LEMMA NodeKept ==
    ASSUME TypeOK, LoopInv, NEW n \in Nodes,
           loop'[n] = loop[n],
           \A y \in Deliveries : row[y].status # "ABSENT" => row'[y].status # "ABSENT",
           accepted \subseteq accepted',
           \A y \in Deliveries : <<n, y>> \in orphaned => <<n, y>> \in orphaned',
           \A y \in Deliveries :
              row'[y].status = "PROCESSING" /\ row'[y].holder = n
                 => row[y].status = "PROCESSING" /\ row[y].holder = n
    PROVE  NodeInv(n)'
  <1>1. Current(n)' = Current(n)
    BY SameWork
  <1>2. Positioned(n)'
    BY DEF LoopInv, NodeInv, Positioned
  <1>3. Batched(n)'
    <2>1. CASE loop[n].phase \in {"claim", "deliver", "settle"}
      BY <2>1, BatchedKept DEF LoopInv, NodeInv, Batched
    <2> QED
      BY <2>1 DEF Batched
  <1>4. Succeeded(n)'
    BY <1>1 DEF LoopInv, NodeInv, Succeeded
  <1>5. Claims(n)'
    <2> SUFFICES ASSUME NEW x \in Deliveries, SettlementCondition(n, x)'
                 PROVE  \/ <<n, x>> \in orphaned'
                        \/ loop'[n].phase \in {"deliver", "settle"} /\ Current(n)' = x
      BY DEF Claims
    <2>1. SettlementCondition(n, x)
      BY DEF SettlementCondition
    <2> QED
      BY <1>1, <2>1 DEF LoopInv, NodeInv, Claims
  <1> QED
    BY <1>2, <1>3, <1>4, <1>5 DEF NodeInv

\* A loop that is not at work on a delivery now and before.
LEMMA IdleKept ==
    ASSUME TypeOK, LoopInv, NEW n \in Nodes,
           loop[n].phase \notin {"deliver", "settle"},
           loop'[n].phase \notin {"deliver", "settle"},
           Positioned(n)', Batched(n)',
           UNCHANGED orphaned,
           \A y \in Deliveries : row'[y].status = "PROCESSING" => row'[y] = row[y]
    PROVE  NodeInv(n)'
  <1>1. Succeeded(n)'
    BY DEF Succeeded
  <1>2. Claims(n)'
    BY DEF LoopInv, NodeInv, Claims, SettlementCondition
  <1> QED
    BY <1>1, <1>2 DEF NodeInv

\* A step of a pass.
LEMMA PassKeeps ==
    ASSUME TypeOK, LoopInv, NEW n \in Nodes,
           \/ Start(n) \/ Wait(n) \/ MaterializeDeliveries(n) \/ AdvanceFrontier(n)
           \/ FindDueDeliveries(n) \/ StatementFails(n)
    PROVE  LoopInv'
  <1> USE DEF Rows
  <1>0. loop \in [Nodes -> LoopRecord] /\ loop[n] \in LoopRecord /\ loop[n].next \in Nat
    BY DEF TypeOK, LoopRecord
  <1>1. UNCHANGED <<visible, accepted, orphaned>>
        /\ loop[n].phase \in {"off", "wait", "materialize", "advance", "find"}
    BY DEF Start, Wait, MaterializeDeliveries, AdvanceFrontier, FindDueDeliveries, StatementFails
  <1>2. ASSUME NEW y \in Deliveries
        PROVE  /\ row[y].status # "ABSENT" => row'[y] = row[y]
               /\ y[1] \notin visible => row'[y] = row[y]
               /\ row'[y].status = "PROCESSING" => row'[y] = row[y]
    <2>1. CASE MaterializeDeliveries(n)
      <3>1. row'[y] = IF y[2] = Listener(n) /\ y[1] \in visible /\ y[1] > frontier[y[2]]
                      THEN Inserted(y) ELSE row[y]
        BY <2>1 DEF MaterializeDeliveries
      <3> QED
        BY <3>1, RowType
    <2>2. CASE row' = row
      BY <2>2
    <2> QED
      BY <2>1, <2>2 DEF Start, Wait, AdvanceFrontier, FindDueDeliveries, StatementFails
  <1>3. /\ \A m \in Nodes : m # n => loop'[m] = loop[m]
        /\ loop'[n].phase \in {"off", "wait", "materialize", "advance", "find", "claim"}
        /\ loop'[n].phase \notin {"off", "wait"} => loop'[n].next \in DOMAIN Attachments
        /\ loop'[n].phase = "claim" =>
             /\ loop'[n].due # {} /\ loop'[n].next = loop[n].next
             /\ \A w \in loop'[n].due :
                  w \in Work /\ row[<<w.msg, Listener(n)>>].status # "ABSENT"
    <2>1. CASE Start(n)
      BY <1>0, <2>1, PlacePosition DEF Start
    <2>2. CASE Wait(n)
      <3>1. At("off", 1).phase = "off"
        BY DEF At
      <3> QED
        BY <1>0, <2>2, <3>1, PlacePosition DEF Wait
    <2>3. CASE MaterializeDeliveries(n)
      <3>1. loop[n].next \in DOMAIN Attachments
        BY <2>3 DEF MaterializeDeliveries, LoopInv, NodeInv, Positioned
      <3> QED
        BY <1>0, <2>3, <3>1 DEF MaterializeDeliveries, Phase, LoopRecord
    <2>4. CASE AdvanceFrontier(n)
      <3>1. loop[n].next \in DOMAIN Attachments
        BY <2>4 DEF AdvanceFrontier, LoopInv, NodeInv, Positioned
      <3>2. At("find", loop[n].next).phase = "find" /\ At("find", loop[n].next).next = loop[n].next
        BY DEF At
      <3> QED
        BY <1>0, <2>4, <3>1, <3>2 DEF AdvanceFrontier
    <2>5. CASE EndAttachment(n)
      BY <2>5, EndAttachmentFacts
    <2>6. CASE FindDueDeliveries(n) /\ ~EndAttachment(n)
      <3> DEFINE found == FirstOf(Claimable(Listener(n)))
      <3>1. found # {} /\ loop' = [loop EXCEPT ![n] = Batch(n, found)] /\ loop[n].phase = "find"
        BY <2>6 DEF FindDueDeliveries
      <3>2. loop[n].next \in DOMAIN Attachments
        BY <3>1 DEF LoopInv, NodeInv, Positioned
      <3>3. /\ Batch(n, found) \in LoopRecord
            /\ Batch(n, found).phase = "claim" /\ Batch(n, found).next = loop[n].next
            /\ Batch(n, found).due # {}
            /\ \A w \in Batch(n, found).due : row[<<w.msg, Listener(n)>>].status # "ABSENT"
        BY <3>1, BatchFacts
      <3>4. Batch(n, found).due \in SUBSET Work
        BY <3>3 DEF LoopRecord
      <3>5. loop'[n] = Batch(n, found) /\ \A m \in Nodes : m # n => loop'[m] = loop[m]
        BY <1>0, <3>1
      <3> HIDE DEF found
      <3> QED
        BY <3>2, <3>3, <3>4, <3>5
    <2> QED
      BY <2>1, <2>2, <2>3, <2>4, <2>5, <2>6 DEF FindDueDeliveries, StatementFails
  <1>4. Unpublished'
    BY <1>1, <1>2 DEF LoopInv, Unpublished
  <1>5. ASSUME NEW m \in Nodes, m # n PROVE NodeInv(m)'
    BY <1>1, <1>2, <1>3, <1>5, NodeKept
  <1>6. NodeInv(n)'
    <2>1. Positioned(n)'
      BY <1>3 DEF Positioned
    <2>2. Batched(n)'
      <3> SUFFICES ASSUME loop'[n].phase = "claim" PROVE Batched(n)'
        BY <1>3 DEF Batched
      <3>1. Listener(n)' = Listener(n) /\ Listener(n) \in Listeners
        BY <1>3 DEF Listener, Listeners
      <3>2. ASSUME NEW w \in loop'[n].due PROVE row'[<<w.msg, Listener(n)>>].status # "ABSENT"
        <4>1. <<w.msg, Listener(n)>> \in Deliveries
          BY <1>3, <3>1 DEF Work, Deliveries
        <4> QED
          BY <1>2, <1>3, <4>1
      <3> QED
        BY <1>3, <3>1, <3>2 DEF Batched
    <2> QED
      BY <1>1, <1>2, <1>3, <2>1, <2>2, IdleKept
  <1> QED
    BY <1>4, <1>5, <1>6 DEF LoopInv

\* A step about one delivery.
LEMMA DispatchKeeps ==
    ASSUME TypeOK, LoopInv, NEW n \in Nodes, Dispatches(n)
    PROVE  LoopInv'
  <1> DEFINE x == Current(n)
  <1>0. /\ x \in Deliveries /\ row[x].status # "ABSENT" /\ x[1] \in visible
        /\ loop[n].phase \in {"claim", "deliver", "settle"}
        /\ row \in [Deliveries -> RowRecord]
    BY DispatchRow, CurrentFacts DEF TypeOK
  <1>1. visible' = visible /\ accepted \subseteq accepted'
        /\ \A m \in Nodes, y \in Deliveries :
             m # n \/ y # x => (<<m, y>> \in orphaned => <<m, y>> \in orphaned')
    BY DEF Dispatches, ClaimDelivery, ClaimFails, Succeed, CompleteDelivery, FailDelivery,
           Abandon, Rows
  <1>2. /\ \A y \in Deliveries : y # x => row'[y] = row[y]
        /\ \/ row' = row
           \/ row'[x].status = "PROCESSING" /\ row'[x].holder = n
           \/ row'[x].status \in {"FAILED", "EXHAUSTED", "COMPLETED"}
    BY DispatchRow, ClaimFacts
  <1>3. ASSUME NEW y \in Deliveries
        PROVE  /\ row[y].status # "ABSENT" => row'[y].status # "ABSENT"
               /\ \A m \in Nodes : m # n \/ y # x =>
                    (row'[y].status = "PROCESSING" /\ row'[y].holder = m
                       => row[y].status = "PROCESSING" /\ row[y].holder = m)
    <2>1. CASE y = x
      BY <1>2, <2>1
    <2>2. CASE y # x
      BY <1>2, <2>2
    <2> QED
      BY <2>1, <2>2
  <1>4. Unpublished'
    BY <1>0, <1>1, <1>2 DEF LoopInv, Unpublished
  <1>5. ASSUME NEW m \in Nodes, m # n PROVE NodeInv(m)'
    <2>1. loop'[m] = loop[m]
      BY <1>5, DispatchLoop
    <2> QED
      BY <1>1, <1>3, <1>5, <2>1, NodeKept
  <1>6. Positioned(n)'
    BY DispatchLoop DEF Positioned
  <1>7. Batched(n)'
    <2>1. CASE loop'[n].phase \in {"claim", "deliver", "settle"}
      BY <1>0, <1>3, <2>1, DispatchLoop, BatchedKept
    <2> QED
      BY <2>1 DEF Batched
  <1>8. loop'[n].phase \in {"deliver", "settle"} => Current(n)' = x
    BY DispatchLoop, SameWork
  <1>9. Succeeded(n)'
    <2> SUFFICES ASSUME loop'[n].phase = "settle" PROVE Current(n)' \in accepted'
      BY DEF Succeeded
    <2>1. Succeed(n)
      BY DispatchLoop
    <2> QED
      BY <1>8, <2>1 DEF Succeed
  <1>10. ASSUME NEW y \in Deliveries, row'[y].status = "PROCESSING", row'[y].holder = n
         PROVE  \/ <<n, y>> \in orphaned'
                \/ loop'[n].phase \in {"deliver", "settle"} /\ Current(n)' = y
    <2>1. CASE y # x
      <3>1. SettlementCondition(n, y)
        BY <1>3, <1>10, <2>1 DEF SettlementCondition
      <3>2. <<n, y>> \in orphaned
        BY <2>1, <3>1 DEF LoopInv, NodeInv, Claims
      <3> QED
        BY <1>1, <2>1, <3>2
    <2>2. CASE y = x /\ ClaimDelivery(n) /\ ClaimCondition(n)
      <3>1. Phase(n, "deliver") /\ loop[n] \in LoopRecord /\ loop \in [Nodes -> LoopRecord]
        BY <2>2 DEF ClaimDelivery, TypeOK
      <3>2. loop'[n].phase = "deliver"
        BY <3>1 DEF Phase, LoopRecord
      <3> QED
        BY <1>8, <2>2, <3>2
    <2>3. CASE y = x /\ Succeed(n)
      <3>1. Phase(n, "settle") /\ loop[n] \in LoopRecord /\ loop \in [Nodes -> LoopRecord]
        BY <2>3 DEF Succeed, TypeOK
      <3>2. loop'[n].phase = "settle"
        BY <3>1 DEF Phase, LoopRecord
      <3> QED
        BY <1>8, <2>3, <3>2
    <2>4. CASE y = x /\ loop[n].phase = "claim" /\ row' = row /\ UNCHANGED orphaned
      <3>1. SettlementCondition(n, y)
        BY <1>10, <2>4 DEF SettlementCondition
      <3> QED
        BY <2>4, <3>1 DEF LoopInv, NodeInv, Claims
    <2>5. CASE y = x /\ orphaned' = orphaned \cup {<<n, Current(n)>>}
      BY <2>5
    <2>6. CASE y = x /\ FailDelivery(n)
      BY <1>10, <2>6, FailFacts
    <2>7. CASE y = x /\ CompleteDelivery(n)
      <3>1. CASE SettlementCondition(n, x)
        <4>1. row'[x].status = "COMPLETED"
          BY <1>0, <2>7, <3>1, CompletedFacts DEF CompleteDelivery
        <4> QED
          BY <1>10, <2>7, <4>1
      <3>2. CASE ~SettlementCondition(n, x)
        <4>1. row' = row
          BY <2>7, <3>2 DEF CompleteDelivery
        <4> QED
          BY <1>10, <2>7, <3>2, <4>1 DEF SettlementCondition
      <3> QED
        BY <3>1, <3>2
    <2> QED
      BY <2>1, <2>2, <2>3, <2>4, <2>5, <2>6, <2>7 DEF Dispatches, ClaimDelivery, ClaimFails, Abandon
  <1>11. Claims(n)'
    BY <1>10 DEF Claims, SettlementCondition
  <1> QED
    BY <1>4, <1>5, <1>6, <1>7, <1>9, <1>11 DEF LoopInv, NodeInv

\* The environment.
LEMMA OutsideKeeps ==
    ASSUME TypeOK, LoopInv,
           \/ \E m \in Messages : Publish(m)
           \/ \E x \in Deliveries : Ripen(x) \/ ResubmitDelivery(x)
    PROVE  LoopInv'
  <1>1. UNCHANGED <<loop, accepted, orphaned>>
    BY DEF Publish, Ripen, ResubmitDelivery, Rows
  <1>2. Unpublished'
    BY OutsideRow DEF LoopInv, Unpublished
  <1>3. ASSUME NEW n \in Nodes PROVE NodeInv(n)'
    BY <1>1, OutsideRow, NodeKept
  <1> QED
    BY <1>2, <1>3 DEF LoopInv

\* A process that dies works on nothing; what it had claimed is orphaned.
LEMMA CrashKeeps ==
    ASSUME TypeOK, LoopInv, NEW n \in Nodes, Crash(n)
    PROVE  LoopInv'
  <1>1. UNCHANGED <<row, visible, accepted>> /\ orphaned \subseteq orphaned'
        /\ (loop[n].phase \in {"deliver", "settle"} => <<n, Current(n)>> \in orphaned')
    BY DEF Crash, Rows
  <1>2. loop'[n].phase = "off" /\ \A m \in Nodes : m # n => loop'[m] = loop[m]
    BY DEF Crash, At, TypeOK
  <1>3. Unpublished'
    BY <1>1 DEF LoopInv, Unpublished
  <1>4. ASSUME NEW m \in Nodes, m # n PROVE NodeInv(m)'
    BY <1>1, <1>2, <1>4, NodeKept
  <1>5. NodeInv(n)'
    <2>1. Positioned(n)' /\ Batched(n)' /\ Succeeded(n)'
      BY <1>2 DEF Positioned, Batched, Succeeded
    <2>2. Claims(n)'
      BY <1>1 DEF LoopInv, NodeInv, Claims, SettlementCondition
    <2> QED
      BY <2>1, <2>2 DEF NodeInv
  <1> QED
    BY <1>3, <1>4, <1>5 DEF LoopInv

\* Every step keeps the invariant.
LEMMA NextKeeps == TypeOK /\ LoopInv /\ [Next]_vars => LoopInv'
  <1> SUFFICES ASSUME TypeOK, LoopInv, [Next]_vars PROVE LoopInv'
    OBVIOUS
  <1>1. ASSUME NEW n \in Nodes, Start(n) \/ Running(n) PROVE LoopInv'
    BY <1>1, PassKeeps, DispatchKeeps DEF Running, Dispatches
  <1>2. ASSUME NEW n \in Nodes, Crash(n) PROVE LoopInv'
    BY <1>2, CrashKeeps
  <1>3. ASSUME \/ \E m \in Messages : Publish(m)
               \/ \E x \in Deliveries : Ripen(x) \/ ResubmitDelivery(x)
        PROVE  LoopInv'
    BY <1>3, OutsideKeeps
  <1>4. ASSUME UNCHANGED <<visible, row, loop, accepted, orphaned>> PROVE LoopInv'
    <2>1. Unpublished'
      BY <1>4 DEF LoopInv, Unpublished
    <2>2. ASSUME NEW n \in Nodes PROVE NodeInv(n)'
      BY <1>4, NodeKept
    <2> QED
      BY <2>1, <2>2 DEF LoopInv
  <1>5. ASSUME NEW n \in Nodes, Stop(n) PROVE LoopInv'
    BY <1>4, <1>5 DEF Stop, Rows
  <1>6. ASSUME Age PROVE LoopInv'
    BY <1>4, <1>6 DEF Age
  <1>7. CASE UNCHANGED vars
    BY <1>4, <1>7 DEF vars
  <1> QED
    BY <1>1, <1>2, <1>3, <1>5, <1>6, <1>7 DEF Next

\* Initially no loop is at work and there is no row.
LEMMA InitKeeps == Init => LoopInv
  <1> SUFFICES ASSUME Init PROVE LoopInv
    OBVIOUS
  <1>1. \A x \in Deliveries : row[x].status = "ABSENT"
    BY DEF Init, RowWith
  <1>2. \A n \in Nodes : loop[n].phase = "off"
    BY DEF Init, At
  <1> QED
    BY <1>1, <1>2 DEF LoopInv, NodeInv, Unpublished, Positioned, Batched, Succeeded, Claims,
                      SettlementCondition

\* Both hold always.
LEMMA LoopInvariant == Spec => [](TypeOK /\ LoopInv)
  <1>1. Init => TypeOK /\ LoopInv
    BY InitType, InitKeeps
  <1>2. TypeOK /\ LoopInv /\ [Next]_vars => (TypeOK /\ LoopInv)'
    BY NextType, NextKeeps
  <1> QED
    BY <1>1, <1>2, PTL DEF Spec

-----------------------------------------------------------------------------
(* The theorems.                                                           *)

\* What the columns, the loops and the clocks hold is what they may hold.
THEOREM TypeCorrect == Spec => []TypeOK
  BY LoopInvariant, PTL

\* A stopped dispatcher leaves no claim behind: a delivery that is processing under
\* the claim of a node whose loop has ended is one whose listener failed in the
\* shutdown, or whose claim or settlement got no answer, or whose process died.
THEOREM StopLeavesNothing == Spec => []StoppedLeavesNoClaim
  <1>1. LoopInv => StoppedLeavesNoClaim
    BY DEF LoopInv, NodeInv, Claims, StoppedLeavesNoClaim
  <1> QED
    BY <1>1, LoopInvariant, PTL

-----------------------------------------------------------------------------
(* The implementation of AtLeastOnce.                                      *)

\* The state of the promise, as the refinement of module Dispatcher maps it.
Promised ==
    [x \in Deliveries |-> IF x[1] \notin visible THEN "absent"
                          ELSE IF row[x].status = "COMPLETED" THEN "done" ELSE "pending"]

\* The promise does not move.
Stutter == UNCHANGED <<Promised, accepted>>

\* A step that completes nothing and publishes nothing does not move the promise.
LEMMA StutterStep ==
    ASSUME UNCHANGED <<visible, accepted>>,
           \A x \in Deliveries : row'[x].status = "COMPLETED" <=> row[x].status = "COMPLETED"
    PROVE  Stutter
  <1>1. Promised' = Promised
    BY DEF Promised
  <1> QED
    BY <1>1 DEF Stutter

\* The settlement of a delivery whose listener has returned nil.
LEMMA SettleStep ==
    ASSUME TypeOK, LoopInv, NEW n \in Nodes, loop[n].phase = "settle",
           NEW x \in Deliveries, x = Current(n), SettlementCondition(n, x),
           row' = [row EXCEPT ![x].status = "COMPLETED"],
           UNCHANGED <<visible, accepted>>
    PROVE  Promise!Settle(x)
  <1>1. x \in Deliveries /\ x[1] \in visible
    BY CurrentFacts
  <1>2. x \in accepted
    BY DEF LoopInv, NodeInv, Succeeded
  <1>3. Promised[x] = "pending" /\ Promised'[x] = "done"
    BY <1>1, CompletedFacts DEF Promised, SettlementCondition
  <1>4. \A y \in Deliveries : y # x => Promised'[y] = Promised[y]
    BY <1>1, CompletedFacts DEF Promised
  <1>5. Promised' = [Promised EXCEPT ![x] = "done"]
    BY <1>1, <1>3, <1>4 DEF Promised
  <1> QED
    BY <1>2, <1>3, <1>5 DEF Promise!Settle, Promised

\* A step about one delivery.
LEMMA DispatchIsPromised ==
    ASSUME TypeOK, LoopInv, NEW n \in Nodes, Dispatches(n)
    PROVE  Stutter \/ Promise!Next
  <1> DEFINE x == Current(n)
  <1>0. /\ x \in Deliveries /\ x[1] \in visible
        /\ loop[n].phase \in {"claim", "deliver", "settle"}
    BY DispatchRow, CurrentFacts
  <1>1. visible' = visible /\ (Succeed(n) \/ accepted' = accepted)
    BY DEF Dispatches, ClaimDelivery, ClaimFails, Succeed, CompleteDelivery, FailDelivery,
           Abandon, Rows
  <1>2. CASE Succeed(n)
    <2>1. UNCHANGED <<visible, row>> /\ accepted' = accepted \cup {x}
      BY <1>2 DEF Succeed
    <2>2. Promised' = Promised /\ Promised[x] # "absent"
      BY <1>0, <2>1 DEF Promised
    <2>3. Promise!Accept(x)
      BY <2>1, <2>2 DEF Promise!Accept, Promised
    <2> QED
      BY <1>0, <2>3 DEF Promise!Next
  <1>3. CASE ~Succeed(n) /\ row' = row
    BY <1>1, <1>3, StutterStep
  <1>4. CASE ~Succeed(n) /\ loop[n].phase = "claim" /\ Claimed(n) /\ ClaimCondition(n)
    <2>1. row[x].status # "COMPLETED"
      BY <1>4 DEF ClaimCondition, Due
    <2>2. \A y \in Deliveries : row'[y].status = "COMPLETED" <=> row[y].status = "COMPLETED"
      BY <1>0, <1>4, <2>1, ClaimFacts
    <2> QED
      BY <1>1, <1>4, <2>2, StutterStep
  <1>5. CASE FailDelivery(n) /\ row' # row
    <2>1. SettlementCondition(n, x)
      BY <1>5 DEF FailDelivery
    <2>2. row[x].status # "COMPLETED" /\ row'[x].status # "COMPLETED"
      BY <1>5, <2>1, FailFacts DEF SettlementCondition
    <2>3. \A y \in Deliveries : row'[y].status = "COMPLETED" <=> row[y].status = "COMPLETED"
      BY <1>5, <2>2, FailFacts
    <2>4. ~Succeed(n)
      BY <1>5 DEF Succeed
    <2> QED
      BY <1>1, <2>3, <2>4, StutterStep
  <1>6. CASE /\ ~Succeed(n) /\ loop[n].phase = "settle" /\ SettlementCondition(n, x)
             /\ row' = [row EXCEPT ![x].status = "COMPLETED"]
    <2>1. PICK i \in Deliveries : i = x
      BY <1>0
    <2>2. Promise!Settle(i)
      BY <1>1, <1>6, <2>1, SettleStep
    <2> QED
      BY <2>2 DEF Promise!Next
  <1> QED
    BY <1>2, <1>3, <1>4, <1>5, <1>6 DEF Dispatches, ClaimDelivery, ClaimFails, CompleteDelivery,
       Abandon

\* The publication of a message.
LEMMA PublishIsPromised ==
    ASSUME TypeOK, LoopInv, NEW m \in Messages, Publish(m)
    PROVE  Promise!Next
  <1> DEFINE new == {x \in Deliveries : x[1] = m}
  <1>1. visible' = visible \cup {m} /\ m \notin visible /\ accepted' = accepted
    BY DEF Publish
  <1>2. \A x \in Deliveries : row'[x].status = "COMPLETED" <=> row[x].status = "COMPLETED"
    BY OutsideRow
  <1>3. \A x \in Deliveries : x[1] = m => row[x].status # "COMPLETED"
    BY <1>1 DEF LoopInv, Unpublished
  <1>4. \A x \in new : Promised[x] = "absent" /\ Promised'[x] = "pending"
    BY <1>1, <1>2, <1>3 DEF Promised
  <1>5. \A x \in Deliveries \ new : Promised'[x] = Promised[x]
    BY <1>1, <1>2 DEF Promised
  <1>6. Promised' = [x \in Deliveries |-> IF x \in new THEN "pending" ELSE Promised[x]]
    <2>1. Promised' = [x \in Deliveries |-> Promised'[x]]
      BY DEF Promised
    <2>2. \A x \in Deliveries : Promised'[x] = IF x \in new THEN "pending" ELSE Promised[x]
      BY <1>4, <1>5
    <2> HIDE DEF new
    <2> QED
      BY <2>1, <2>2
  <1>7. new \in SUBSET Deliveries
    OBVIOUS
  <1> HIDE DEF new
  <1>8. Promise!Publish(new)
    BY <1>1, <1>4, <1>6 DEF Promise!Publish, Promised
  <1> QED
    BY <1>7, <1>8 DEF Promise!Next

\* A step of a pass settles nothing.
LEMMA PassIsStutter ==
    ASSUME TypeOK, LoopInv, NEW n \in Nodes,
           \/ Start(n) \/ Wait(n) \/ MaterializeDeliveries(n) \/ AdvanceFrontier(n)
           \/ FindDueDeliveries(n) \/ StatementFails(n)
    PROVE  Stutter
  <1>1. UNCHANGED <<visible, accepted>>
    BY DEF Start, Wait, MaterializeDeliveries, AdvanceFrontier, FindDueDeliveries,
           StatementFails, Rows
  <1>2. CASE row' = row
    BY <1>1, <1>2, StutterStep
  <1>3. CASE MaterializeDeliveries(n)
    <2>1. ASSUME NEW y \in Deliveries
          PROVE  row'[y].status = "COMPLETED" <=> row[y].status = "COMPLETED"
      <3>1. row'[y] \in {row[y], Inserted(y)}
        BY <1>3 DEF MaterializeDeliveries
      <3> QED
        BY <3>1, RowType
    <2> QED
      BY <1>1, <2>1, StutterStep
  <1> QED
    BY <1>2, <1>3 DEF Start, Wait, AdvanceFrontier, FindDueDeliveries, StatementFails

\* Every step is a step of the promise, or does not move it.
LEMMA NextIsPromised == TypeOK /\ LoopInv /\ [Next]_vars => Stutter \/ Promise!Next
  <1> SUFFICES ASSUME TypeOK, LoopInv, [Next]_vars PROVE Stutter \/ Promise!Next
    OBVIOUS
  <1>1. ASSUME NEW n \in Nodes, Start(n) \/ Running(n) PROVE Stutter \/ Promise!Next
    BY <1>1, PassIsStutter, DispatchIsPromised DEF Running, Dispatches
  <1>2. ASSUME UNCHANGED <<visible, row, accepted>> PROVE Stutter
    BY <1>2, StutterStep
  <1>3. ASSUME NEW n \in Nodes, Stop(n) \/ Crash(n) PROVE Stutter
    BY <1>2, <1>3 DEF Stop, Crash, Rows
  <1>4. ASSUME NEW m \in Messages, Publish(m) PROVE Promise!Next
    BY <1>4, PublishIsPromised
  <1>5. ASSUME NEW x \in Deliveries, Ripen(x) \/ ResubmitDelivery(x) PROVE Stutter
    <2>1. UNCHANGED <<visible, accepted>>
      BY <1>5 DEF Ripen, ResubmitDelivery, Rows
    <2> QED
      BY <1>5, <2>1, OutsideRow, StutterStep
  <1>6. ASSUME Age PROVE Stutter
    BY <1>2, <1>6 DEF Age
  <1>7. ASSUME UNCHANGED vars PROVE Stutter
    BY <1>2, <1>7 DEF vars
  <1> QED
    BY <1>1, <1>3, <1>4, <1>5, <1>6, <1>7 DEF Next

\* The dispatchers implement at-least-once delivery: listeners run for committed
\* messages only, a delivery is completed after a success of its listener and never
\* opened again, whatever zombies, lost answers, operators and restarts do.
THEOREM ImplementsPromise == Spec => ImplementsAtLeastOnce
  <1>1. Init => Promise!Init
    <2> SUFFICES ASSUME Init PROVE Promise!Init
      OBVIOUS
    <2>1. Promised = [x \in Deliveries |-> "absent"] /\ accepted = {}
      BY DEF Init, Promised
    <2> QED
      BY <2>1 DEF Promise!Init, Promised
  <1>2. TypeOK /\ LoopInv /\ [Next]_vars => [Promise!Next]_<<Promised, accepted>>
    BY NextIsPromised DEF Stutter
  <1>3. Promise!Spec <=> Promise!Init /\ [][Promise!Next]_<<Promised, accepted>>
    BY DEF Promise!Spec, Promised
  <1> QED
    BY <1>1, <1>2, <1>3, LoopInvariant, PTL DEF Spec, ImplementsAtLeastOnce
=============================================================================
