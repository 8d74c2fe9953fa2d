------------------------- MODULE MemoryBrokerProofs -------------------------
(***************************************************************************)
(* Proofs about MemoryBroker for any events, workers, budgets and          *)
(* orderings: no wakeup is lost, no event is lost or handled twice, the    *)
(* order of a FIFO consumer, and that the engine keeps the contract of the *)
(* Broker interface.                                                       *)
(***************************************************************************)
EXTENDS MemoryBroker, FiniteSetTheorems, TLAPS

LOCAL INSTANCE SequencesExt

-----------------------------------------------------------------------------
(* The deliveries at each place.                                           *)

\* What a sequence has in it.
Contents(s) == {s[i] : i \in DOMAIN s}

\* The workers that hold a delivery.
Holding == {"popped", "handling", "sleeping"}
Busy == {w \in Workers : worker[w].phase \in Holding}

\* The places a delivery can be at: the queue, the dead letters, a worker before or
\* between its attempts, a worker during one, a timer, and Resubmit.
Stores == {"queue", "letters", "carried", "handling", "timers", "reviving"}

Carried == {worker[w].delivery : w \in {v \in Workers : worker[v].phase \in {"popped", "sleeping"}}}
Handling == {worker[w].delivery : w \in {v \in Workers : worker[v].phase = "handling"}}

Stored ==
    [t \in Stores |-> CASE t = "queue" -> Contents(queue)
                        [] t = "letters" -> Contents(letters)
                        [] t = "carried" -> Carried
                        [] t = "handling" -> Handling
                        [] t = "timers" -> timers
                        [] t = "reviving" -> reviving]

\* The events that need no further attempt.
Closed == history.handled \cup history.dropped

\* No event twice in a sequence of deliveries.
NoRepeats(s) == \A i, j \in DOMAIN s : s[i].event = s[j].event => i = j

-----------------------------------------------------------------------------
(* The inductive invariant.                                                *)

\* A delivery anywhere belongs to an accepted, open event and has its date ...
Accepted ==
    \A t \in Stores : \A d \in Stored[t] :
        /\ pub[d.event].state = "done" /\ d.event \notin Closed
        /\ d.date = pub[d.event].date

\* ... it is the only one of its event ...
Single ==
    \A s, t \in Stores : \A c \in Stored[s], d \in Stored[t] :
        c.event = d.event => s = t /\ c = d

Distinct ==
    /\ NoRepeats(queue) /\ NoRepeats(letters)
    /\ \A v, w \in Busy : worker[v].delivery.event = worker[w].delivery.event => v = w

\* ... and an accepted event that is open has one.
Kept ==
    /\ history.handled \cap history.dropped = {}
    /\ \A e \in Closed : pub[e].state = "done"
    /\ \A e \in Events : pub[e].state = "done" =>
         e \in Closed \/ \E t \in Stores : \E d \in Stored[t] : d.event = e

Placed == TypeOK /\ Accepted /\ Single /\ Distinct /\ Kept

\* The attempts a delivery may have behind it, where it is.
Fits(t, n) ==
    /\ t \in {"queue", "carried", "timers"} => n < MaxAttempts
    /\ t = "letters" => n = MaxAttempts
    /\ t = "handling" => 0 < n /\ n <= MaxAttempts
    /\ t = "reviving" => n = 0

Budgets == \A t \in Stores : \A d \in Stored[t] : Fits(t, d.attempts)

\* A dead letter stays known as one.
Remembered == \A t \in {"letters", "reviving"} : \A d \in Stored[t] : d.event \in history.parked

\* Before the consumer subscribes nothing is addressed to it.
Unsubscribed ==
    ~broker.subscribed => /\ \A w \in Workers : worker[w].phase = "off"
                          /\ \A e \in Events : pub[e].state \notin {"targeted", "done"}

\* Stop goes its way.
StopOrder ==
    /\ broker.cancelled => broker.stopped
    /\ broker.consumerStopped => broker.cancelled

\* The queue is in the order of the dates.
Sorted == \A i, j \in DOMAIN queue : i < j => queue[i].date <= queue[j].date

\* Who preceded an event has been enqueued before that event was dated.
Preceding ==
    \A x, e \in Events : <<x, e>> \in history.preceded =>
        pub[x].state = "done" /\ pub[e].state # "none"

\* The only worker of a FIFO consumer.
FifoWorker == CHOOSE w \in Workers : TRUE

\* A FIFO consumer has one worker, which waits out its backoffs itself ...
OneAtATime ==
    broker.ordering = "FIFO" =>
        /\ \A w \in Workers : worker[w].phase # "off" => w = FifoWorker
        /\ timers = {}
        /\ \A d \in Contents(queue) : d.attempts = 0
        /\ \A w \in Workers : worker[w].phase = "popped" => worker[w].delivery.attempts = 0

\* ... and its queue keeps the order of the publications among events of one date.
InOrder ==
    broker.ordering = "FIFO" =>
        \A i, j \in DOMAIN queue :
            /\ queue[i].date = queue[j].date
            /\ <<queue[i].event, queue[j].event>> \in history.preceded
            /\ queue[i].event \notin history.parked
            => i < j

\* The inductive invariant.
BrokerInv ==
    /\ Placed /\ Budgets /\ Remembered
    /\ Unsubscribed /\ StopOrder /\ Sorted /\ Preceding /\ OneAtATime /\ InOrder
    /\ NoReadyWorkBesideBlockedWorker

-----------------------------------------------------------------------------
(* Sequences of deliveries.                                                *)

\* InsertAt pushes back what follows.
LEMMA InsertElements ==
    ASSUME NEW S, NEW s \in Seq(S), NEW d \in S, NEW p \in 1..(Len(s) + 1)
    PROVE  /\ InsertAt(s, p, d) \in Seq(S)
           /\ Len(InsertAt(s, p, d)) = Len(s) + 1
           /\ \A i \in 1..(Len(s) + 1) :
                /\ i < p => InsertAt(s, p, d)[i] = s[i]
                /\ i = p => InsertAt(s, p, d)[i] = d
                /\ p < i => InsertAt(s, p, d)[i] = s[i - 1]
<1> DEFINE a == SubSeq(s, 1, p - 1)
           z == SubSeq(s, p, Len(s))
           m == a \o <<d>>
<1>0. p \in Nat /\ Len(s) \in Nat
  OBVIOUS
<1>1. /\ a \in Seq(S) /\ Len(a) = p - 1
      /\ \A i \in 1..(p - 1) : a[i] = s[i]
  OBVIOUS
<1>2. /\ z \in Seq(S) /\ Len(z) = Len(s) + 1 - p
      /\ \A i \in 1..(Len(s) + 1 - p) : z[i] = s[p + i - 1]
  OBVIOUS
<1>3. InsertAt(s, p, d) = m \o z
  BY DEF InsertAt
<1> HIDE DEF a, z
<1>4. /\ m \in Seq(S) /\ Len(m) = p
      /\ \A i \in 1..p : m[i] = IF i < p THEN a[i] ELSE d
  BY <1>0, <1>1
<1> HIDE DEF m
<1>5. /\ m \o z \in Seq(S) /\ Len(m \o z) = Len(s) + 1
      /\ \A i \in 1..(Len(s) + 1) : (m \o z)[i] = IF i <= p THEN m[i] ELSE z[i - p]
  <2>1. m \in Seq(S) /\ z \in Seq(S) /\ Len(m) = p /\ Len(z) = Len(s) + 1 - p
    BY <1>2, <1>4
  <2>2. m \o z \in Seq(S) /\ Len(m \o z) = Len(m) + Len(z)
    BY <2>1
  <2>3. \A i \in 1..(Len(m) + Len(z)) : (m \o z)[i] = IF i <= Len(m) THEN m[i] ELSE z[i - Len(m)]
    BY <2>1
  <2> QED
    BY <1>0, <2>1, <2>2, <2>3
<1>6. ASSUME NEW i \in 1..(Len(s) + 1)
      PROVE  /\ i < p => (m \o z)[i] = s[i]
             /\ i = p => (m \o z)[i] = d
             /\ p < i => (m \o z)[i] = s[i - 1]
  BY <1>0, <1>1, <1>2, <1>4, <1>5
<1> QED
  BY <1>3, <1>5, <1>6

\* RemoveAt closes the gap.
LEMMA RemoveElements ==
    ASSUME NEW S, NEW s \in Seq(S), NEW k \in 1..Len(s)
    PROVE  /\ RemoveAt(s, k) \in Seq(S)
           /\ Len(RemoveAt(s, k)) = Len(s) - 1
           /\ \A i \in 1..(Len(s) - 1) :
                RemoveAt(s, k)[i] = IF i < k THEN s[i] ELSE s[i + 1]
<1> DEFINE a == SubSeq(s, 1, k - 1)
           z == SubSeq(s, k + 1, Len(s))
<1>0. k \in Nat /\ Len(s) \in Nat
  OBVIOUS
<1>1. /\ a \in Seq(S) /\ Len(a) = k - 1
      /\ \A i \in 1..(k - 1) : a[i] = s[i]
  OBVIOUS
<1>2. /\ z \in Seq(S) /\ Len(z) = Len(s) - k
      /\ \A i \in 1..(Len(s) - k) : z[i] = s[k + i]
  OBVIOUS
<1>3. RemoveAt(s, k) = a \o z
  BY DEF RemoveAt
<1> HIDE DEF a, z
<1>4. /\ a \o z \in Seq(S) /\ Len(a \o z) = Len(s) - 1
      /\ \A i \in 1..(Len(s) - 1) : (a \o z)[i] = IF i < k THEN a[i] ELSE z[i - k + 1]
  <2>1. a \in Seq(S) /\ z \in Seq(S) /\ Len(a) = k - 1 /\ Len(z) = Len(s) - k
    BY <1>1, <1>2
  <2>2. a \o z \in Seq(S) /\ Len(a \o z) = Len(a) + Len(z)
    BY <2>1
  <2>3. \A i \in 1..(Len(a) + Len(z)) : (a \o z)[i] = IF i <= Len(a) THEN a[i] ELSE z[i - Len(a)]
    BY <2>1
  <2>4. \A i \in 1..(Len(s) - 1) : i \in Int /\ (i <= k - 1 <=> i < k) /\ i - (k - 1) = i - k + 1
    BY <1>0
  <2> QED
    BY <1>0, <2>1, <2>2, <2>3, <2>4
<1> QED
  BY <1>0, <1>1, <1>2, <1>3, <1>4

\* An inserted delivery joins the others.
LEMMA InsertContents ==
    ASSUME NEW s \in Seq(Deliveries), NEW d \in Deliveries, NEW p \in 1..(Len(s) + 1)
    PROVE  /\ Contents(InsertAt(s, p, d)) = Contents(s) \cup {d}
           /\ NoRepeats(s) /\ (\A c \in Contents(s) : c.event # d.event)
              => NoRepeats(InsertAt(s, p, d))
<1> DEFINE t == InsertAt(s, p, d)
<1>0. p \in Nat /\ Len(s) \in Nat /\ DOMAIN s = 1..Len(s)
  OBVIOUS
<1>1. /\ t \in Seq(Deliveries) /\ Len(t) = Len(s) + 1
      /\ \A i \in 1..(Len(s) + 1) : /\ i < p => t[i] = s[i]
                                    /\ i = p => t[i] = d
                                    /\ p < i => t[i] = s[i - 1]
  <2> HIDE DEF t
  <2>1. /\ InsertAt(s, p, d) \in Seq(Deliveries)
        /\ Len(InsertAt(s, p, d)) = Len(s) + 1
        /\ \A i \in 1..(Len(s) + 1) :
             /\ i < p => InsertAt(s, p, d)[i] = s[i]
             /\ i = p => InsertAt(s, p, d)[i] = d
             /\ p < i => InsertAt(s, p, d)[i] = s[i - 1]
    BY InsertElements
  <2> QED
    BY <2>1 DEF t
<1> HIDE DEF t
<1>2. DOMAIN t = 1..(Len(s) + 1)
  BY <1>1
<1>3. ASSUME NEW i \in DOMAIN s
      PROVE  \E j \in DOMAIN t : t[j] = s[i]
  <2>1. CASE i < p
    BY <1>0, <1>1, <1>2, <2>1
  <2>2. CASE ~(i < p)
    <3>1. i + 1 \in DOMAIN t /\ p < i + 1 /\ (i + 1) - 1 = i
      BY <1>0, <1>2, <2>2
    <3> QED
      BY <1>1, <1>2, <3>1
  <2> QED
    BY <2>1, <2>2
<1>4. ASSUME NEW j \in DOMAIN t
      PROVE  t[j] = d \/ \E i \in DOMAIN s : t[j] = s[i]
  <2>1. CASE j < p
    BY <1>0, <1>1, <1>2, <2>1
  <2>2. CASE p < j
    <3>1. j - 1 \in DOMAIN s
      BY <1>0, <1>2, <2>2
    <3> QED
      BY <1>1, <1>2, <2>2, <3>1
  <2>3. CASE j = p
    BY <1>1, <1>2, <2>3
  <2> QED
    BY <1>0, <1>2, <2>1, <2>2, <2>3
<1>5. \E j \in DOMAIN t : t[j] = d
  BY <1>0, <1>1, <1>2
<1>6. Contents(t) = Contents(s) \cup {d}
  BY <1>3, <1>4, <1>5 DEF Contents
<1>7. ASSUME NoRepeats(s), \A c \in Contents(s) : c.event # d.event
      PROVE  NoRepeats(t)
  <2> SUFFICES ASSUME NEW i \in DOMAIN t, NEW j \in DOMAIN t, t[i].event = t[j].event
               PROVE  i = j
    BY DEF NoRepeats
  <2> DEFINE Old(k) == IF k < p THEN k ELSE k - 1
  <2>1. ASSUME NEW k \in DOMAIN t, k # p
        PROVE  Old(k) \in DOMAIN s /\ t[k] = s[Old(k)] /\ t[k].event # d.event
    <3>1. Old(k) \in DOMAIN s
      BY <1>0, <1>2, <2>1
    <3>2. t[k] = s[Old(k)]
      BY <1>0, <1>1, <1>2, <2>1
    <3> QED
      BY <1>7, <3>1, <3>2 DEF Contents
  <2>2. CASE i = p \/ j = p
    BY <1>1, <1>2, <2>1, <2>2
  <2>3. CASE i # p /\ j # p
    <3>1. Old(i) = Old(j)
      BY <1>7, <2>1, <2>3 DEF NoRepeats
    <3> QED
      BY <1>0, <1>2, <2>3, <3>1
  <2> QED
    BY <2>2, <2>3
<1> QED
  BY <1>6, <1>7 DEF t

\* A delivery taken out of a sequence without repeats is gone from it.
LEMMA RemoveContents ==
    ASSUME NEW s \in Seq(Deliveries), NEW k \in 1..Len(s), NoRepeats(s)
    PROVE  /\ Contents(RemoveAt(s, k)) = Contents(s) \ {s[k]}
           /\ NoRepeats(RemoveAt(s, k))
<1> DEFINE t == RemoveAt(s, k)
           New(i) == IF i < k THEN i ELSE i - 1
           Old(j) == IF j < k THEN j ELSE j + 1
<1>0. k \in Nat /\ Len(s) \in Nat /\ DOMAIN s = 1..Len(s)
  OBVIOUS
<1>1. /\ t \in Seq(Deliveries) /\ Len(t) = Len(s) - 1
      /\ \A i \in 1..(Len(s) - 1) : t[i] = IF i < k THEN s[i] ELSE s[i + 1]
  BY RemoveElements
<1> HIDE DEF t
<1>2. DOMAIN t = 1..(Len(s) - 1)
  BY <1>1
<1>3. ASSUME NEW i \in DOMAIN s, i # k
      PROVE  New(i) \in DOMAIN t /\ t[New(i)] = s[i]
  <2>1. New(i) \in DOMAIN t
    BY <1>0, <1>2, <1>3
  <2> QED
    BY <1>0, <1>1, <1>2, <1>3, <2>1
<1>4. ASSUME NEW j \in DOMAIN t
      PROVE  Old(j) \in DOMAIN s /\ Old(j) # k /\ t[j] = s[Old(j)]
  BY <1>0, <1>1, <1>2
<1>5. ASSUME NEW i \in DOMAIN s, i # k
      PROVE  s[i] # s[k]
  BY <1>0, <1>5 DEF NoRepeats
<1>6. Contents(t) = Contents(s) \ {s[k]}
  <2>1. \A c \in Contents(t) : c \in Contents(s) \ {s[k]}
    BY <1>4, <1>5 DEF Contents
  <2>2. \A c \in Contents(s) \ {s[k]} : c \in Contents(t)
    BY <1>3 DEF Contents
  <2> QED
    BY <2>1, <2>2
<1>7. NoRepeats(t)
  <2> SUFFICES ASSUME NEW i \in DOMAIN t, NEW j \in DOMAIN t, t[i].event = t[j].event
               PROVE  i = j
    BY DEF NoRepeats
  <2>1. Old(i) = Old(j)
    BY <1>4 DEF NoRepeats
  <2> QED
    BY <1>0, <1>2, <2>1
<1> QED
  BY <1>6, <1>7 DEF t

\* Taking the head is taking out the first.
LEMMA TailElements ==
    ASSUME NEW S, NEW s \in Seq(S), s # <<>>
    PROVE  /\ Head(s) = s[1] /\ 1 \in 1..Len(s) /\ Head(s) \in S
           /\ Tail(s) \in Seq(S) /\ Len(Tail(s)) = Len(s) - 1
           /\ \A i \in 1..(Len(s) - 1) : Tail(s)[i] = s[i + 1]
  OBVIOUS

LEMMA TailContents ==
    ASSUME NEW s \in Seq(Deliveries), s # <<>>, NoRepeats(s)
    PROVE  /\ Contents(Tail(s)) = Contents(s) \ {Head(s)}
           /\ NoRepeats(Tail(s))
<1> DEFINE t == Tail(s)
<1>0. /\ Len(s) \in Nat /\ Len(s) > 0 /\ DOMAIN s = 1..Len(s)
      /\ Head(s) = s[1] /\ Len(t) = Len(s) - 1 /\ DOMAIN t = 1..(Len(s) - 1)
      /\ \A i \in 1..(Len(s) - 1) : t[i] = s[i + 1]
  BY TailElements
<1> HIDE DEF t
<1>1. ASSUME NEW i \in DOMAIN s, i # 1
      PROVE  i - 1 \in DOMAIN t /\ t[i - 1] = s[i] /\ s[i] # s[1]
  BY <1>0, <1>1 DEF NoRepeats
<1>2. ASSUME NEW j \in DOMAIN t
      PROVE  j + 1 \in DOMAIN s /\ j + 1 # 1 /\ t[j] = s[j + 1] /\ t[j] # s[1]
  BY <1>0, <1>1
<1>3. Contents(t) = Contents(s) \ {Head(s)}
  <2>1. \A c \in Contents(t) : c \in Contents(s) \ {Head(s)}
    BY <1>0, <1>2 DEF Contents
  <2>2. \A c \in Contents(s) \ {Head(s)} : c \in Contents(t)
    BY <1>0, <1>1 DEF Contents
  <2> QED
    BY <2>1, <2>2
<1>4. NoRepeats(t)
  <2> SUFFICES ASSUME NEW i \in DOMAIN t, NEW j \in DOMAIN t, t[i].event = t[j].event
               PROVE  i = j
    BY DEF NoRepeats
  <2>1. i + 1 = j + 1
    BY <1>2 DEF NoRepeats
  <2> QED
    BY <1>0, <2>1
<1> QED
  BY <1>3, <1>4 DEF t

\* An appended delivery joins the others.
LEMMA AppendContents ==
    ASSUME NEW s \in Seq(Deliveries), NEW d \in Deliveries
    PROVE  /\ Contents(Append(s, d)) = Contents(s) \cup {d}
           /\ NoRepeats(s) /\ (\A c \in Contents(s) : c.event # d.event)
              => NoRepeats(Append(s, d))
<1> DEFINE t == Append(s, d)
<1>0. /\ Len(s) \in Nat /\ DOMAIN s = 1..Len(s)
      /\ Len(t) = Len(s) + 1 /\ DOMAIN t = 1..(Len(s) + 1)
      /\ \A i \in 1..Len(s) : t[i] = s[i]
      /\ t[Len(s) + 1] = d
  OBVIOUS
<1> HIDE DEF t
<1>1. \A j \in DOMAIN t : j \in DOMAIN s \/ j = Len(s) + 1
  BY <1>0
<1>2. \A j \in DOMAIN s : j \in DOMAIN t
  BY <1>0
<1>3. Len(s) + 1 \in DOMAIN t
  BY <1>0
<1>4. Contents(t) = Contents(s) \cup {d}
  BY <1>0, <1>1, <1>2, <1>3 DEF Contents
<1>5. NoRepeats(s) /\ (\A c \in Contents(s) : c.event # d.event) => NoRepeats(t)
  BY <1>0, <1>1 DEF NoRepeats, Contents
<1> QED
  BY <1>4, <1>5 DEF t

-----------------------------------------------------------------------------
(* The position an enqueue chooses.                                        *)

\* A set of indices that has all the smaller ones of each is an interval from 1.
LEMMA InitialSegment ==
    ASSUME NEW n \in Nat, NEW S \in SUBSET (1..n),
           \A i, j \in 1..n : i < j /\ j \in S => i \in S
    PROVE  S = 1..Cardinality(S)
<1>1. IsFiniteSet(1..n)
  BY FS_Interval
<1>2. IsFiniteSet(S)
  BY <1>1, FS_Subset
<1> DEFINE k == Cardinality(S)
<1>3. k \in Nat
  BY <1>2, FS_CardinalityType
<1>4. ASSUME NEW i \in S
      PROVE  i \in 1..k
  <2>1. i \in 1..n
    OBVIOUS
  <2>2. 1..i \subseteq S
    BY <2>1
  <2>3. Cardinality(1..i) <= k
    BY <1>2, <2>2, FS_Subset
  <2>4. Cardinality(1..i) = i
    BY <2>1, FS_Interval
  <2> QED
    BY <1>3, <2>1, <2>3, <2>4
<1>5. S \subseteq 1..k
  BY <1>4
<1>6. IsFiniteSet(1..k) /\ Cardinality(1..k) = k
  BY <1>3, FS_Interval
<1> QED
  BY <1>5, <1>6, FS_Subset

\* It is a place of the queue, or the one behind it.
LEMMA PositionInQueue ==
    ASSUME TypeOK, NEW d \in Deliveries
    PROVE  Position(d) \in 1..(Len(queue) + 1)
<1> DEFINE S == {i \in DOMAIN queue : queue[i].date <= d.date}
<1>1. queue \in Seq(Deliveries) /\ Len(queue) \in Nat /\ DOMAIN queue = 1..Len(queue)
  BY DEF TypeOK
<1>2. IsFiniteSet(1..Len(queue)) /\ Cardinality(1..Len(queue)) = Len(queue)
  BY <1>1, FS_Interval
<1>3. S \subseteq 1..Len(queue)
  BY <1>1
<1>4. Cardinality(S) \in Nat /\ Cardinality(S) <= Len(queue)
  BY <1>2, <1>3, FS_Subset, FS_CardinalityType
<1>5. Position(d) = 1 + Cardinality(S)
  BY DEF Position
<1> QED
  BY <1>1, <1>4, <1>5

\* In a sorted queue it is behind the deliveries with no later date and before the others.
LEMMA PositionSplits ==
    ASSUME TypeOK, Sorted, NEW d \in Deliveries
    PROVE  \A i \in DOMAIN queue : queue[i].date <= d.date <=> i < Position(d)
<1> DEFINE S == {i \in DOMAIN queue : queue[i].date <= d.date}
           n == Len(queue)
<1>1. queue \in Seq(Deliveries) /\ n \in Nat /\ DOMAIN queue = 1..n
  BY DEF TypeOK
<1>2. \A i \in 1..n : queue[i].date \in Nat
  <2>1. \A i \in 1..n : queue[i] \in Deliveries
    BY <1>1
  <2> QED
    BY <2>1 DEF Deliveries
<1>3. d.date \in Nat
  BY DEF Deliveries
<1>4. \A i, j \in 1..n : i < j /\ j \in S => i \in S
  BY <1>1, <1>2, <1>3 DEF Sorted
<1>5. Position(d) = 1 + Cardinality(S)
  BY DEF Position
<1>6. S \in SUBSET (1..n)
  BY <1>1
<1> DEFINE k == Cardinality(S)
<1>7. S = 1..k /\ k \in Nat
  <2> HIDE DEF S, n
  <2>1. S = 1..k
    BY <1>1, <1>4, <1>6, InitialSegment
  <2>2. IsFiniteSet(1..n)
    BY <1>1, FS_Interval
  <2> QED
    BY <1>6, <2>1, <2>2, FS_Subset, FS_CardinalityType
<1>8. \A i \in 1..n : i \in S <=> i < 1 + k
  <2> HIDE DEF S, k
  <2> QED
    BY <1>1, <1>7
<1>9. \A i \in 1..n : i \in S <=> queue[i].date <= d.date
  BY <1>1
<1> HIDE DEF S
<1> QED
  BY <1>1, <1>5, <1>7, <1>8, <1>9

-----------------------------------------------------------------------------
(* Types.                                                                  *)

\* What the proofs take from the assumption on the constants.
LEMMA NoDeliveryType == NoDelivery \in Deliveries
  BY BrokerAssumption DEF NoDelivery, Deliveries

\* A worker goes to phase p with delivery d.
Turned(w, p, d) ==
    /\ worker' \in [Workers -> [phase : WorkerPhases, delivery : Deliveries]]
    /\ worker'[w].phase = p /\ worker'[w].delivery = d
    /\ \A v \in Workers : v # w => worker'[v] = worker[v]

LEMMA ReleaseTurns ==
    ASSUME TypeOK, NEW w \in Workers, NEW p \in WorkerPhases, Release(w, p)
    PROVE  Turned(w, p, NoDelivery)
<1>1. worker \in [Workers -> [phase : WorkerPhases, delivery : Deliveries]]
  BY DEF TypeOK
<1> QED
  BY <1>1, NoDeliveryType DEF Release, Turned

LEMMA StartHandlingTurns ==
    ASSUME TypeOK, NEW w \in Workers, StartHandling(w)
    PROVE  /\ Turned(w, "handling", [worker[w].delivery EXCEPT !.attempts = @ + 1])
           /\ [worker[w].delivery EXCEPT !.attempts = @ + 1] \in Deliveries
<1>1. worker \in [Workers -> [phase : WorkerPhases, delivery : Deliveries]]
  BY DEF TypeOK
<1> DEFINE c == worker[w].delivery
           d == [c EXCEPT !.attempts = @ + 1]
           r == [phase |-> "handling", delivery |-> d]
<1>2. c \in Deliveries
  BY <1>1
<1>3. d \in Deliveries
  BY <1>2 DEF Deliveries
<1>4. r \in [phase : WorkerPhases, delivery : Deliveries]
  BY <1>3 DEF WorkerPhases
<1>5. worker' = [worker EXCEPT ![w] = r]
  BY <1>1, <1>2 DEF StartHandling, Deliveries
<1> HIDE DEF c, d
<1>6. r.phase = "handling" /\ r.delivery = d
  OBVIOUS
<1> HIDE DEF r
<1> QED
  BY <1>1, <1>3, <1>4, <1>5, <1>6 DEF Turned, c, d

LEMMA PhaseTurns ==
    ASSUME TypeOK, NEW w \in Workers, NEW p \in WorkerPhases,
           worker' = [worker EXCEPT ![w].phase = p]
    PROVE  Turned(w, p, worker[w].delivery)
<1>1. worker \in [Workers -> [phase : WorkerPhases, delivery : Deliveries]]
  BY DEF TypeOK
<1> QED
  BY <1>1 DEF Turned

\* What an enqueue leaves.
LEMMA EnqueueTypes ==
    ASSUME TypeOK, NEW d \in Deliveries, Enqueue(d)
    PROVE  /\ queue' \in Seq(Deliveries) /\ signals' \in Nat
           /\ Len(queue') = Len(queue) + 1
           /\ Position(d) \in 1..(Len(queue) + 1)
           /\ \A i \in 1..(Len(queue) + 1) :
                /\ i < Position(d) => queue'[i] = queue[i]
                /\ i = Position(d) => queue'[i] = d
                /\ Position(d) < i => queue'[i] = queue[i - 1]
           /\ queue' = InsertAt(queue, Position(d), d)
<1>1. queue \in Seq(Deliveries) /\ signals \in Nat
  BY DEF TypeOK
<1>2. queue' = InsertAt(queue, Position(d), d) /\ signals' \in Nat
  BY <1>1 DEF Enqueue
<1>3. Position(d) \in 1..(Len(queue) + 1)
  BY PositionInQueue
<1> DEFINE p == Position(d)
<1> HIDE DEF p
<1>4. p \in 1..(Len(queue) + 1)
  BY <1>3 DEF p
<1>5. /\ InsertAt(queue, p, d) \in Seq(Deliveries)
      /\ Len(InsertAt(queue, p, d)) = Len(queue) + 1
      /\ \A i \in 1..(Len(queue) + 1) :
           /\ i < p => InsertAt(queue, p, d)[i] = queue[i]
           /\ i = p => InsertAt(queue, p, d)[i] = d
           /\ p < i => InsertAt(queue, p, d)[i] = queue[i - 1]
  BY <1>1, <1>4, InsertElements
<1> QED
  BY <1>2, <1>3, <1>5 DEF p

\* TypeOK is inductive.
LEMMA TypePreserved ==
    ASSUME TypeOK, [Next]_vars
    PROVE  TypeOK'
<1>0. /\ signals \in Nat /\ resubmits \in Nat
      /\ queue \in Seq(Deliveries) /\ letters \in Seq(Deliveries)
      /\ timers \in SUBSET Deliveries /\ reviving \in SUBSET Deliveries
      /\ worker \in [Workers -> [phase : WorkerPhases, delivery : Deliveries]]
  BY DEF TypeOK
<1>1. pub \in [Events -> [state : {"none", "dated", "targeted", "done", "unheard", "refused"},
                          date : Nat]]
  BY DEF TypeOK
<1>2. broker \in [subscribed : BOOLEAN, ordering : {"FIFO", "UNORDERED"}, stopped : BOOLEAN,
                  cancelled : BOOLEAN, consumerStopped : BOOLEAN, broadcast : BOOLEAN,
                  returned : BOOLEAN]
  BY DEF TypeOK
<1>3. history \in [handled : SUBSET Events, dropped : SUBSET Events, parked : SUBSET Events,
                   preceded : SUBSET (Events \X Events)]
  BY DEF TypeOK
<1>4. ASSUME NEW w \in Workers
      PROVE  worker[w].delivery \in Deliveries /\ worker[w].delivery.event \in Events
  BY <1>0 DEF Deliveries
<1>5. ASSUME NEW e \in Events, NEW x \in {"targeted", "done", "unheard", "refused"},
             pub' = [pub EXCEPT ![e].state = x]
      PROVE  pub' \in [Events -> [state : {"none", "dated", "targeted", "done", "unheard",
                                           "refused"}, date : Nat]]
  BY <1>1, <1>5
<1>6. ASSUME NEW w \in Workers, NEW p \in WorkerPhases, NEW d \in Deliveries, Turned(w, p, d)
      PROVE  worker' \in [Workers -> [phase : WorkerPhases, delivery : Deliveries]]
  BY <1>6 DEF Turned
<1>7. {"off", "await", "waiting", "popped", "handling", "sleeping", "exited"} \subseteq WorkerPhases
  BY DEF WorkerPhases
<1>8. ASSUME NEW e \in Events,
             \/ history' = [history EXCEPT !.dropped = @ \cup {e}]
             \/ history' = [history EXCEPT !.handled = @ \cup {e}]
             \/ history' = [history EXCEPT !.parked = @ \cup {e}]
      PROVE  history' \in [handled : SUBSET Events, dropped : SUBSET Events,
                           parked : SUBSET Events, preceded : SUBSET (Events \X Events)]
  <2>1. CASE history' = [history EXCEPT !.dropped = @ \cup {e}]
    <3> DEFINE S == history.dropped \cup {e}
    <3>1. S \in SUBSET Events
      BY <1>3
    <3>2. history' = [history EXCEPT !.dropped = S]
      BY <2>1
    <3> HIDE DEF S
    <3> QED
      BY <1>3, <3>1, <3>2
  <2>2. CASE history' = [history EXCEPT !.handled = @ \cup {e}]
    <3> DEFINE S == history.handled \cup {e}
    <3>1. S \in SUBSET Events
      BY <1>3
    <3>2. history' = [history EXCEPT !.handled = S]
      BY <2>2
    <3> HIDE DEF S
    <3> QED
      BY <1>3, <3>1, <3>2
  <2>3. CASE history' = [history EXCEPT !.parked = @ \cup {e}]
    <3> DEFINE S == history.parked \cup {e}
    <3>1. S \in SUBSET Events
      BY <1>3
    <3>2. history' = [history EXCEPT !.parked = S]
      BY <2>3
    <3> HIDE DEF S
    <3> QED
      BY <1>3, <3>1, <3>2
  <2> QED
    BY <1>8, <2>1, <2>2, <2>3
<1>9. ASSUME NEW x \in {"stopped", "cancelled", "consumerStopped", "broadcast", "returned"},
             broker' = [broker EXCEPT ![x] = TRUE]
      PROVE  broker' \in [subscribed : BOOLEAN, ordering : {"FIFO", "UNORDERED"},
                          stopped : BOOLEAN, cancelled : BOOLEAN, consumerStopped : BOOLEAN,
                          broadcast : BOOLEAN, returned : BOOLEAN]
  <2> DEFINE yes == TRUE
  <2>1. yes \in BOOLEAN /\ broker' = [broker EXCEPT ![x] = yes]
    BY <1>9
  <2> HIDE DEF yes
  <2> QED
    BY <1>2, <2>1
<1>10. ASSUME NEW ordering \in Orderings, Subscribe(ordering)
       PROVE  TypeOK'
  <2>1. worker' \in [Workers -> [phase : WorkerPhases, delivery : Deliveries]]
    <3>1. worker' = [w \in Workers |-> IF w \in Started(ordering)
                                       THEN [worker[w] EXCEPT !.phase = "await"] ELSE worker[w]]
      BY <1>10 DEF Subscribe
    <3>2. ASSUME NEW w \in Workers
          PROVE  [worker[w] EXCEPT !.phase = "await"] \in [phase : WorkerPhases, delivery : Deliveries]
      BY <1>0, <1>7
    <3> QED
      BY <1>0, <3>1, <3>2
  <2>2. broker' \in [subscribed : BOOLEAN, ordering : {"FIFO", "UNORDERED"}, stopped : BOOLEAN,
                     cancelled : BOOLEAN, consumerStopped : BOOLEAN, broadcast : BOOLEAN,
                     returned : BOOLEAN]
    <3> DEFINE yes == TRUE
               b == [broker EXCEPT !.subscribed = yes]
    <3>1. yes \in BOOLEAN /\ ordering \in {"FIFO", "UNORDERED"}
      BY BrokerAssumption
    <3>2. broker' = [b EXCEPT !.ordering = ordering]
      BY <1>10 DEF Subscribe
    <3> HIDE DEF yes
    <3>3. b \in [subscribed : BOOLEAN, ordering : {"FIFO", "UNORDERED"}, stopped : BOOLEAN,
                 cancelled : BOOLEAN, consumerStopped : BOOLEAN, broadcast : BOOLEAN,
                 returned : BOOLEAN]
      BY <1>2, <3>1
    <3> HIDE DEF b
    <3> QED
      BY <3>1, <3>2, <3>3
  <2> QED
    BY <1>0, <1>1, <1>3, <1>10, <2>1, <2>2 DEF TypeOK, Subscribe
<1>11. CASE StopBroker \/ Stopping
  <2>1. broker' \in [subscribed : BOOLEAN, ordering : {"FIFO", "UNORDERED"}, stopped : BOOLEAN,
                     cancelled : BOOLEAN, consumerStopped : BOOLEAN, broadcast : BOOLEAN,
                     returned : BOOLEAN]
    BY <1>9, <1>11 DEF StopBroker, Stopping, CancelContext, StopConsumer, Broadcast, StopReturns
  <2>2. worker' \in [Workers -> [phase : WorkerPhases, delivery : Deliveries]]
    <3>1. CASE Broadcast
      <4>1. worker' = [w \in Workers |-> IF worker[w].phase = "waiting"
                                         THEN [worker[w] EXCEPT !.phase = "await"] ELSE worker[w]]
        BY <3>1 DEF Broadcast
      <4>2. ASSUME NEW w \in Workers
            PROVE  [worker[w] EXCEPT !.phase = "await"]
                     \in [phase : WorkerPhases, delivery : Deliveries]
        BY <1>0, <1>7
      <4> QED
        BY <1>0, <4>1, <4>2
    <3>2. CASE ~Broadcast
      BY <1>0, <1>11, <3>2 DEF StopBroker, Stopping, CancelContext, StopConsumer, StopReturns
    <3> QED
      BY <3>1, <3>2
  <2>3. Quiet
    BY <1>11 DEF StopBroker, Stopping, CancelContext, StopConsumer, Broadcast, StopReturns
  <2> QED
    BY <1>0, <1>1, <1>3, <2>1, <2>2, <2>3 DEF TypeOK, Quiet
<1>12. CASE Signal
  <2>1. worker' \in [Workers -> [phase : WorkerPhases, delivery : Deliveries]]
    <3>1. CASE UNCHANGED worker
      BY <1>0, <3>1
    <3>2. ASSUME NEW w \in Workers, worker' = [worker EXCEPT ![w].phase = "await"]
          PROVE  worker' \in [Workers -> [phase : WorkerPhases, delivery : Deliveries]]
      BY <1>0, <1>7, <3>2
    <3> QED
      BY <1>12, <3>1, <3>2 DEF Signal
  <2>2. signals' \in Nat
    BY <1>0, <1>12 DEF Signal
  <2> QED
    BY <1>0, <1>1, <1>2, <1>3, <1>12, <2>1, <2>2 DEF TypeOK, Signal
<1>13. ASSUME NEW e \in Events, BeginPublish(e)
       PROVE  TypeOK'
  <2>1. PICK reading \in Readings[e] : pub' = [pub EXCEPT ![e] = [state |-> "dated", date |-> reading]]
    BY <1>13 DEF BeginPublish
  <2>2. pub' \in [Events -> [state : {"none", "dated", "targeted", "done", "unheard", "refused"},
                             date : Nat]]
    BY <1>1, <2>1, BrokerAssumption
  <2>3. history' \in [handled : SUBSET Events, dropped : SUBSET Events, parked : SUBSET Events,
                      preceded : SUBSET (Events \X Events)]
    <3> DEFINE S == history.preceded \cup ({x \in Events : pub[x].state = "done"} \X {e})
    <3>1. S \in SUBSET (Events \X Events)
      BY <1>3
    <3>2. history' = [history EXCEPT !.preceded = S]
      BY <1>13 DEF BeginPublish
    <3> HIDE DEF S
    <3> QED
      BY <1>3, <3>1, <3>2
  <2> QED
    BY <1>0, <1>2, <1>13, <2>1, <2>2, <2>3 DEF TypeOK, BeginPublish
<1>14. ASSUME NEW e \in Events, TargetPublish(e)
       PROVE  TypeOK'
  <2>1. pub' \in [Events -> [state : {"none", "dated", "targeted", "done", "unheard", "refused"},
                             date : Nat]]
    BY <1>5, <1>14 DEF TargetPublish
  <2> QED
    BY <1>0, <1>2, <1>3, <1>14, <2>1 DEF TypeOK, TargetPublish
<1>15. ASSUME NEW e \in Events, EnqueuePublish(e)
       PROVE  TypeOK'
  <2> DEFINE d == [event |-> e, attempts |-> 0, date |-> pub[e].date]
  <2>1. d \in Deliveries
    BY <1>1 DEF Deliveries
  <2>2. Enqueue(d)
    BY <1>15 DEF EnqueuePublish
  <2> HIDE DEF d
  <2>3. queue' \in Seq(Deliveries) /\ signals' \in Nat
    BY <2>1, <2>2, EnqueueTypes
  <2>4. pub' \in [Events -> [state : {"none", "dated", "targeted", "done", "unheard", "refused"},
                             date : Nat]]
    BY <1>5, <1>15 DEF EnqueuePublish
  <2> QED
    BY <1>0, <1>2, <1>3, <1>15, <2>3, <2>4 DEF TypeOK, EnqueuePublish
<1>16. ASSUME NEW w \in Workers, Await(w)
       PROVE  TypeOK'
  <2>1. /\ worker' \in [Workers -> [phase : WorkerPhases, delivery : Deliveries]]
        /\ queue' \in Seq(Deliveries)
    <3>1. ASSUME NEW p \in WorkerPhases, worker' = [worker EXCEPT ![w].phase = p], UNCHANGED queue
          PROVE  <2>1!1 /\ <2>1!2
      BY <1>0, <3>1
    <3>2. CASE /\ queue # <<>> /\ queue' = Tail(queue)
               /\ worker' = [worker EXCEPT ![w] = [phase |-> "popped", delivery |-> Head(queue)]]
      <4>1. Tail(queue) \in Seq(Deliveries) /\ Head(queue) \in Deliveries
        BY <1>0, <3>2, TailElements
      <4>2. [phase |-> "popped", delivery |-> Head(queue)] \in [phase : WorkerPhases, delivery : Deliveries]
        BY <1>7, <4>1
      <4> QED
        BY <1>0, <3>2, <4>1, <4>2
    <3>3. "exited" \in WorkerPhases /\ "waiting" \in WorkerPhases
      BY <1>7
    <3> QED
      BY <1>16, <3>1, <3>2, <3>3 DEF Await
  <2> QED
    BY <1>0, <1>1, <1>2, <1>3, <1>16, <2>1 DEF TypeOK, Await
<1>17. ASSUME NEW w \in Workers, Process(w) \/ Succeed(w) \/ WakeUp(w) \/ Interrupt(w)
       PROVE  TypeOK'
  <2>1. worker' \in [Workers -> [phase : WorkerPhases, delivery : Deliveries]]
    <3>1. \/ Release(w, "exited") \/ Release(w, "await") \/ StartHandling(w)
      BY <1>17 DEF Process, Succeed, WakeUp, Interrupt
    <3>2. "exited" \in WorkerPhases /\ "await" \in WorkerPhases
      BY <1>7
    <3> QED
      BY <3>1, <3>2, ReleaseTurns, StartHandlingTurns DEF Turned
  <2>2. history' \in [handled : SUBSET Events, dropped : SUBSET Events, parked : SUBSET Events,
                      preceded : SUBSET (Events \X Events)]
    BY <1>3, <1>4, <1>8, <1>17 DEF Process, Succeed, WakeUp, Interrupt
  <2> QED
    BY <1>0, <1>1, <1>2, <1>17, <2>1, <2>2 DEF TypeOK, Process, Succeed, WakeUp, Interrupt
<1>18. ASSUME NEW w \in Workers, Park(w)
       PROVE  TypeOK'
  <2>1. worker' \in [Workers -> [phase : WorkerPhases, delivery : Deliveries]]
    BY <1>7, <1>18, ReleaseTurns DEF Park, Turned
  <2>2. history' \in [handled : SUBSET Events, dropped : SUBSET Events, parked : SUBSET Events,
                      preceded : SUBSET (Events \X Events)]
    BY <1>4, <1>8, <1>18 DEF Park
  <2>3. letters' \in Seq(Deliveries)
    BY <1>0, <1>4, <1>18 DEF Park
  <2> QED
    BY <1>0, <1>1, <1>2, <1>18, <2>1, <2>2, <2>3 DEF TypeOK, Park
<1>19. ASSUME NEW w \in Workers, BackOff(w)
       PROVE  TypeOK'
  <2>1. worker' \in [Workers -> [phase : WorkerPhases, delivery : Deliveries]]
    <3>1. "await" \in WorkerPhases /\ "sleeping" \in WorkerPhases
      BY <1>7
    <3> QED
      BY <1>19, <3>1, ReleaseTurns, PhaseTurns DEF BackOff, Turned
  <2>2. timers' \in SUBSET Deliveries
    BY <1>0, <1>4, <1>19 DEF BackOff
  <2> QED
    BY <1>0, <1>1, <1>2, <1>3, <1>19, <2>1, <2>2 DEF TypeOK, BackOff
<1>20. ASSUME NEW d \in timers, Retry(d)
       PROVE  TypeOK'
  <2>1. queue' \in Seq(Deliveries) /\ signals' \in Nat
    BY <1>0, <1>20, EnqueueTypes DEF Retry
  <2> QED
    BY <1>0, <1>1, <1>2, <1>3, <1>20, <2>1 DEF TypeOK, Retry
<1>21. ASSUME NEW d \in timers, DropRetry(d)
       PROVE  TypeOK'
  <2>1. d.event \in Events
    BY <1>0 DEF Deliveries
  <2>2. history' \in [handled : SUBSET Events, dropped : SUBSET Events, parked : SUBSET Events,
                      preceded : SUBSET (Events \X Events)]
    BY <1>8, <1>21, <2>1 DEF DropRetry
  <2> QED
    BY <1>0, <1>1, <1>2, <1>21, <2>2 DEF TypeOK, DropRetry
<1>22. ASSUME NEW i \in DOMAIN letters, Resubmit(i)
       PROVE  TypeOK'
  <2>1. i \in 1..Len(letters) /\ letters[i] \in Deliveries
    BY <1>0
  <2>2. letters' \in Seq(Deliveries)
    BY <1>0, <1>22, <2>1, RemoveElements DEF Resubmit
  <2>3. [letters[i] EXCEPT !.attempts = 0] \in Deliveries
    BY <2>1 DEF Deliveries
  <2>4. reviving' \in SUBSET Deliveries /\ resubmits' \in Nat
    BY <1>0, <1>22, <2>3 DEF Resubmit
  <2> QED
    BY <1>0, <1>1, <1>2, <1>3, <1>22, <2>2, <2>4 DEF TypeOK, Resubmit
<1>23. ASSUME NEW d \in reviving, Revive(d)
       PROVE  TypeOK'
  <2>1. queue' \in Seq(Deliveries) /\ signals' \in Nat
    BY <1>0, <1>23, EnqueueTypes DEF Revive
  <2> QED
    BY <1>0, <1>1, <1>2, <1>3, <1>23, <2>1 DEF TypeOK, Revive
<1>24. CASE UNCHANGED vars
  BY <1>24 DEF vars, TypeOK
<1> QED
  BY <1>10, <1>11, <1>12, <1>13, <1>14, <1>15, <1>16, <1>17, <1>18, <1>19, <1>20, <1>21, <1>22,
     <1>23, <1>24 DEF Next, Publishing, Working, Backoffs

-----------------------------------------------------------------------------
(* The ways of a delivery.                                                 *)

\* Delivery c leaves place s and is at place t as d.
Journey(s, c, t, d) ==
    /\ s \in Stores /\ t \in Stores /\ s # t
    /\ c \in Stored[s] /\ d \in Deliveries /\ c.event = d.event /\ c.date = d.date
    /\ \A u \in Stores : Stored'[u] = IF u = s THEN Stored[u] \ {c}
                                      ELSE IF u = t THEN Stored[u] \cup {d} ELSE Stored[u]
    /\ pub' = pub /\ history'.handled = history.handled /\ history'.dropped = history.dropped

\* Delivery c leaves place s for good.
Ending(s, c) ==
    /\ s \in Stores /\ c \in Stored[s]
    /\ \A u \in Stores : Stored'[u] = IF u = s THEN Stored[u] \ {c} ELSE Stored[u]
    /\ pub' = pub
    /\ \/ /\ history'.handled = history.handled \cup {c.event}
          /\ history'.dropped = history.dropped
       \/ /\ history'.handled = history.handled
          /\ history'.dropped = history.dropped \cup {c.event}

\* The delivery of event e arrives in the queue.
Arrival(e, d) ==
    /\ e \in Events /\ d \in Deliveries /\ d.event = e
    /\ pub[e].state = "targeted" /\ d.date = pub[e].date
    /\ pub' = [pub EXCEPT ![e].state = "done"]
    /\ \A u \in Stores : Stored'[u] = IF u = "queue" THEN Stored[u] \cup {d} ELSE Stored[u]
    /\ history'.handled = history.handled /\ history'.dropped = history.dropped

\* No delivery goes anywhere, and no event is accepted.
Still ==
    /\ \A u \in Stores : Stored'[u] = Stored[u]
    /\ \A e \in Events : /\ pub'[e].state = "done" <=> pub[e].state = "done"
                         /\ pub[e].state = "done" => pub'[e].date = pub[e].date
    /\ history'.handled = history.handled /\ history'.dropped = history.dropped

LEMMA StoredAre ==
    /\ Stored["queue"] = Contents(queue) /\ Stored["letters"] = Contents(letters)
    /\ Stored["carried"] = Carried /\ Stored["handling"] = Handling
    /\ Stored["timers"] = timers /\ Stored["reviving"] = reviving
BY DEF Stored, Stores

LEMMA StoredBecome ==
    /\ Stored'["queue"] = Contents(queue)' /\ Stored'["letters"] = Contents(letters)'
    /\ Stored'["carried"] = Carried' /\ Stored'["handling"] = Handling'
    /\ Stored'["timers"] = timers' /\ Stored'["reviving"] = reviving'
BY DEF Stored, Stores

\* There are deliveries at the places.
LEMMA StoredType ==
    ASSUME TypeOK, NEW t \in Stores
    PROVE  Stored[t] \subseteq Deliveries
<1>1. Contents(queue) \subseteq Deliveries /\ Contents(letters) \subseteq Deliveries
  BY DEF TypeOK, Contents
<1>2. Carried \subseteq Deliveries /\ Handling \subseteq Deliveries
  BY DEF TypeOK, Carried, Handling
<1>3. timers \subseteq Deliveries /\ reviving \subseteq Deliveries
  BY DEF TypeOK
<1>4. t \in {"queue", "letters", "carried", "handling", "timers", "reviving"}
  BY DEF Stores
<1> QED
  BY <1>1, <1>2, <1>3, <1>4, StoredAre

\* What a worker that takes, keeps or lets go of a delivery does to the two places workers
\* have.
LEMMA WorkerTurns ==
    ASSUME TypeOK, Distinct, NEW w \in Workers, NEW p \in WorkerPhases, NEW d \in Deliveries,
           Turned(w, p, d),
           p \in Holding => \A v \in Busy : v # w => worker[v].delivery.event # d.event
    PROVE  /\ Carried' = (IF worker[w].phase \in {"popped", "sleeping"}
                          THEN Carried \ {worker[w].delivery} ELSE Carried)
                         \cup (IF p \in {"popped", "sleeping"} THEN {d} ELSE {})
           /\ Handling' = (IF worker[w].phase = "handling"
                           THEN Handling \ {worker[w].delivery} ELSE Handling)
                          \cup (IF p = "handling" THEN {d} ELSE {})
           /\ NoRepeats(queue') /\ NoRepeats(letters') => Distinct'
<1>0. Busy = {v \in Workers : worker[v].phase \in Holding}
  BY DEF Busy
<1>1. Busy' = {v \in Workers : worker'[v].phase \in Holding}
  BY DEF Busy
<1>2. /\ worker'[w].phase = p /\ worker'[w].delivery = d
      /\ \A v \in Workers : v # w => worker'[v] = worker[v]
  BY DEF Turned
<1>3. \A v, u \in Busy : worker[v].delivery.event = worker[u].delivery.event => v = u
  BY DEF Distinct
<1>4. \A v \in Workers : v \in Busy /\ w \in Busy /\ v # w => worker[v].delivery # worker[w].delivery
  BY <1>3
<1>5. \A v \in Workers : worker[v].phase \in {"popped", "sleeping"} \/ worker[v].phase = "handling"
                         <=> v \in Busy
  BY <1>0 DEF Holding
<1>6. Carried' = (IF worker[w].phase \in {"popped", "sleeping"}
                  THEN Carried \ {worker[w].delivery} ELSE Carried)
                 \cup (IF p \in {"popped", "sleeping"} THEN {d} ELSE {})
  <2> DEFINE R == (IF worker[w].phase \in {"popped", "sleeping"}
                   THEN Carried \ {worker[w].delivery} ELSE Carried)
                  \cup (IF p \in {"popped", "sleeping"} THEN {d} ELSE {})
  <2>1. ASSUME NEW c \in Carried'
        PROVE  c \in R
    <3>1. PICK v \in Workers : worker'[v].phase \in {"popped", "sleeping"} /\ c = worker'[v].delivery
      BY <2>1 DEF Carried
    <3>2. CASE v = w
      BY <1>2, <3>1, <3>2
    <3>3. CASE v # w
      <4>1. worker[v].phase \in {"popped", "sleeping"} /\ c = worker[v].delivery
        BY <1>2, <3>1, <3>3
      <4>2. c \in Carried
        BY <4>1 DEF Carried
      <4> QED
        BY <1>4, <1>5, <3>3, <4>1, <4>2
    <3> QED
      BY <3>2, <3>3
  <2>2. ASSUME NEW c \in R
        PROVE  c \in Carried'
    <3>1. CASE p \in {"popped", "sleeping"} /\ c = d
      BY <1>2, <3>1 DEF Carried
    <3>2. CASE ~(p \in {"popped", "sleeping"} /\ c = d)
      <4>1. /\ c \in Carried
            /\ worker[w].phase \in {"popped", "sleeping"} => c # worker[w].delivery
        BY <2>2, <3>2
      <4>2. PICK v \in Workers : worker[v].phase \in {"popped", "sleeping"} /\ c = worker[v].delivery
        BY <4>1 DEF Carried
      <4>3. v # w
        BY <4>1, <4>2
      <4>4. worker'[v].phase \in {"popped", "sleeping"} /\ c = worker'[v].delivery
        BY <1>2, <4>2, <4>3
      <4> QED
        BY <4>4 DEF Carried
    <3> QED
      BY <3>1, <3>2
  <2> HIDE DEF R
  <2>3. Carried' = R
    BY <2>1, <2>2
  <2> QED
    BY <2>3 DEF R
<1>7. Handling' = (IF worker[w].phase = "handling"
                   THEN Handling \ {worker[w].delivery} ELSE Handling)
                  \cup (IF p = "handling" THEN {d} ELSE {})
  <2> DEFINE R == (IF worker[w].phase = "handling"
                   THEN Handling \ {worker[w].delivery} ELSE Handling)
                  \cup (IF p = "handling" THEN {d} ELSE {})
  <2>1. ASSUME NEW c \in Handling'
        PROVE  c \in R
    <3>1. PICK v \in Workers : worker'[v].phase = "handling" /\ c = worker'[v].delivery
      BY <2>1 DEF Handling
    <3>2. CASE v = w
      BY <1>2, <3>1, <3>2
    <3>3. CASE v # w
      <4>1. worker[v].phase = "handling" /\ c = worker[v].delivery
        BY <1>2, <3>1, <3>3
      <4>2. c \in Handling
        BY <4>1 DEF Handling
      <4> QED
        BY <1>4, <1>5, <3>3, <4>1, <4>2
    <3> QED
      BY <3>2, <3>3
  <2>2. ASSUME NEW c \in R
        PROVE  c \in Handling'
    <3>1. CASE p = "handling" /\ c = d
      BY <1>2, <3>1 DEF Handling
    <3>2. CASE ~(p = "handling" /\ c = d)
      <4>1. c \in Handling /\ (worker[w].phase = "handling" => c # worker[w].delivery)
        BY <2>2, <3>2
      <4>2. PICK v \in Workers : worker[v].phase = "handling" /\ c = worker[v].delivery
        BY <4>1 DEF Handling
      <4>3. v # w
        BY <4>1, <4>2
      <4>4. worker'[v].phase = "handling" /\ c = worker'[v].delivery
        BY <1>2, <4>2, <4>3
      <4> QED
        BY <4>4 DEF Handling
    <3> QED
      BY <3>1, <3>2
  <2> HIDE DEF R
  <2>3. Handling' = R
    BY <2>1, <2>2
  <2> QED
    BY <2>3 DEF R
<1>8. ASSUME NoRepeats(queue'), NoRepeats(letters')
      PROVE  Distinct'
  <2>1. ASSUME NEW v \in Busy', NEW u \in Busy',
               worker'[v].delivery.event = worker'[u].delivery.event
        PROVE  v = u
    <3>1. v \in Workers /\ u \in Workers
      BY <1>1
    <3>2. \A x \in Workers : x \in Busy' /\ x # w => x \in Busy
      BY <1>0, <1>1, <1>2
    <3>3. w \in Busy' => p \in Holding
      BY <1>1, <1>2
    <3>4. CASE v # w /\ u # w
      BY <1>2, <1>3, <2>1, <3>1, <3>2, <3>4
    <3>5. CASE v = w /\ u # w
      BY <1>2, <2>1, <3>1, <3>2, <3>3, <3>5
    <3>6. CASE v # w /\ u = w
      BY <1>2, <2>1, <3>1, <3>2, <3>3, <3>6
    <3> QED
      BY <3>4, <3>5, <3>6
  <2>2. NoRepeats(queue)' /\ NoRepeats(letters)'
    BY <1>8 DEF NoRepeats
  <2> QED
    BY <2>1, <2>2 DEF Distinct
<1> QED
  BY <1>6, <1>7, <1>8

LEMMA BusyStored ==
    ASSUME TypeOK, NEW w \in Workers
    PROVE  /\ worker[w].delivery \in Deliveries
           /\ worker[w].phase \in {"popped", "sleeping"} => worker[w].delivery \in Stored["carried"]
           /\ worker[w].phase = "handling" => worker[w].delivery \in Stored["handling"]
BY StoredAre DEF TypeOK, Carried, Handling

\* Nothing changes at the places.
LEMMA StillPlaces ==
    ASSUME queue' = queue, letters' = letters, Carried' = Carried, Handling' = Handling,
           timers' = timers, reviving' = reviving
    PROVE  \A u \in Stores : Stored'[u] = Stored[u]
<1>1. Contents(queue)' = Contents(queue) /\ Contents(letters)' = Contents(letters)
  BY DEF Contents
<1> QED
  BY <1>1, StoredAre, StoredBecome DEF Stores

\* Actions on workers that hold nothing before or after.
IdlePhases == {"off", "await", "waiting", "exited"}

LEMMA IdleTurns ==
    ASSUME TypeOK, Distinct, queue' = queue, letters' = letters,
           timers' = timers, reviving' = reviving,
           \A v \in Workers : \/ worker'[v] = worker[v]
                              \/ worker'[v].phase \in IdlePhases /\ worker[v].phase \in IdlePhases
    PROVE  /\ \A u \in Stores : Stored'[u] = Stored[u]
           /\ Distinct'
<1>1. Carried' = Carried
  <2>1. ASSUME NEW v \in Workers
        PROVE  /\ worker'[v].phase \in {"popped", "sleeping"} <=> worker[v].phase \in {"popped", "sleeping"}
               /\ worker[v].phase \in {"popped", "sleeping"} => worker'[v] = worker[v]
    BY DEF IdlePhases
  <2> QED
    BY <2>1 DEF Carried
<1>2. Handling' = Handling
  <2>1. ASSUME NEW v \in Workers
        PROVE  /\ worker'[v].phase = "handling" <=> worker[v].phase = "handling"
               /\ worker[v].phase = "handling" => worker'[v] = worker[v]
    BY DEF IdlePhases
  <2> QED
    BY <2>1 DEF Handling
<1>3. ASSUME NEW v \in Workers
      PROVE  v \in Busy' => v \in Busy /\ worker'[v] = worker[v]
  BY DEF IdlePhases, Busy, Holding
<1>4. Busy' \subseteq Workers
  BY DEF Busy
<1>5. NoRepeats(queue)' /\ NoRepeats(letters)'
  BY DEF Distinct, NoRepeats
<1>6. ASSUME NEW v \in Busy', NEW u \in Busy', worker'[v].delivery.event = worker'[u].delivery.event
      PROVE  v = u
  BY <1>3, <1>4, <1>6 DEF Distinct
<1>7. Distinct'
  BY <1>5, <1>6 DEF Distinct
<1> QED
  BY <1>1, <1>2, <1>7, StillPlaces

\* A delivery that is enqueued and is nowhere else in the queue.
LEMMA EnqueueFacts ==
    ASSUME TypeOK, Distinct, NEW d \in Deliveries, Enqueue(d), worker' = worker,
           letters' = letters, \A c \in Stored["queue"] : c.event # d.event
    PROVE  /\ Contents(queue)' = Contents(queue) \cup {d}
           /\ Distinct' /\ Carried' = Carried /\ Handling' = Handling
           /\ Contents(letters)' = Contents(letters)
<1>1. queue' = InsertAt(queue, Position(d), d) /\ Position(d) \in 1..(Len(queue) + 1)
  BY EnqueueTypes
<1> DEFINE p == Position(d)
<1> HIDE DEF p
<1>2. p \in 1..(Len(queue) + 1) /\ queue' = InsertAt(queue, p, d)
  BY <1>1 DEF p
<1>3. queue \in Seq(Deliveries)
  BY DEF TypeOK
<1>4. \A c \in Contents(queue) : c.event # d.event
  BY StoredAre
<1>5. /\ Contents(InsertAt(queue, p, d)) = Contents(queue) \cup {d}
      /\ NoRepeats(InsertAt(queue, p, d))
  BY <1>2, <1>3, <1>4, InsertContents DEF Distinct
<1>6. Contents(queue') = Contents(queue) \cup {d} /\ NoRepeats(queue')
  BY <1>2, <1>5
<1>7. Contents(queue)' = Contents(queue')
  BY DEF Contents
<1>8. NoRepeats(queue)' /\ NoRepeats(letters)'
  BY <1>6 DEF NoRepeats, Distinct
<1>9. Busy' = Busy /\ Carried' = Carried /\ Handling' = Handling
  BY DEF Busy, Carried, Handling
<1>10. Distinct'
  BY <1>8, <1>9 DEF Distinct
<1>11. Contents(letters)' = Contents(letters)
  BY DEF Contents
<1> QED
  BY <1>6, <1>7, <1>9, <1>10, <1>11

LEMMA EnqueuePublishTrip ==
    ASSUME Placed, NEW e \in Events, EnqueuePublish(e)
    PROVE  /\ Arrival(e, [event |-> e, attempts |-> 0, date |-> pub[e].date])
           /\ Distinct'
<1> DEFINE d == [event |-> e, attempts |-> 0, date |-> pub[e].date]
<1>1. d \in Deliveries
  BY DEF Placed, TypeOK, Deliveries
<1>2. d.event = e /\ d.date = pub[e].date
  OBVIOUS
<1>3. /\ Enqueue(d) /\ worker' = worker /\ letters' = letters /\ timers' = timers
      /\ reviving' = reviving /\ history' = history
      /\ pub' = [pub EXCEPT ![e].state = "done"] /\ pub[e].state = "targeted"
  BY DEF EnqueuePublish
<1> HIDE DEF d
<1>4. \A c \in Stored["queue"] : c.event # d.event
  BY <1>2, <1>3 DEF Placed, Accepted, Stores
<1>5. /\ Contents(queue)' = Contents(queue) \cup {d}
      /\ Distinct' /\ Carried' = Carried /\ Handling' = Handling
      /\ Contents(letters)' = Contents(letters)
  BY <1>1, <1>3, <1>4, EnqueueFacts DEF Placed
<1>6. \A u \in Stores : Stored'[u] = IF u = "queue" THEN Stored[u] \cup {d} ELSE Stored[u]
  BY <1>3, <1>5, StoredAre, StoredBecome DEF Stores
<1>7. Arrival(e, d)
  BY <1>1, <1>2, <1>3, <1>6 DEF Arrival
<1> QED
  BY <1>5, <1>7 DEF d

LEMMA RetryTrip ==
    ASSUME Placed, NEW d \in timers, Retry(d)
    PROVE  Journey("timers", d, "queue", d) /\ Distinct'
<1>1. d \in Deliveries /\ d \in Stored["timers"]
  BY StoredAre DEF Placed, TypeOK
<1>2. /\ Enqueue(d) /\ worker' = worker /\ letters' = letters /\ timers' = timers \ {d}
      /\ reviving' = reviving /\ history' = history /\ pub' = pub
  BY DEF Retry
<1>3. \A c \in Stored["queue"] : c.event # d.event
  BY <1>1 DEF Placed, Single, Stores
<1>4. /\ Contents(queue)' = Contents(queue) \cup {d}
      /\ Distinct' /\ Carried' = Carried /\ Handling' = Handling
      /\ Contents(letters)' = Contents(letters)
  BY <1>1, <1>2, <1>3, EnqueueFacts DEF Placed
<1>5. \A u \in Stores : Stored'[u] = IF u = "timers" THEN Stored[u] \ {d}
                                     ELSE IF u = "queue" THEN Stored[u] \cup {d} ELSE Stored[u]
  BY <1>2, <1>4, StoredAre, StoredBecome DEF Stores
<1> QED
  BY <1>1, <1>2, <1>4, <1>5 DEF Journey, Stores

LEMMA ReviveTrip ==
    ASSUME Placed, NEW d \in reviving, Revive(d)
    PROVE  Journey("reviving", d, "queue", d) /\ Distinct'
<1>1. d \in Deliveries /\ d \in Stored["reviving"]
  BY StoredAre DEF Placed, TypeOK
<1>2. /\ Enqueue(d) /\ worker' = worker /\ letters' = letters /\ timers' = timers
      /\ reviving' = reviving \ {d} /\ history' = history /\ pub' = pub
  BY DEF Revive
<1>3. \A c \in Stored["queue"] : c.event # d.event
  BY <1>1 DEF Placed, Single, Stores
<1>4. /\ Contents(queue)' = Contents(queue) \cup {d}
      /\ Distinct' /\ Carried' = Carried /\ Handling' = Handling
      /\ Contents(letters)' = Contents(letters)
  BY <1>1, <1>2, <1>3, EnqueueFacts DEF Placed
<1>5. \A u \in Stores : Stored'[u] = IF u = "reviving" THEN Stored[u] \ {d}
                                     ELSE IF u = "queue" THEN Stored[u] \cup {d} ELSE Stored[u]
  BY <1>2, <1>4, StoredAre, StoredBecome DEF Stores
<1> QED
  BY <1>1, <1>2, <1>4, <1>5 DEF Journey, Stores

LEMMA DropRetryTrip ==
    ASSUME Placed, NEW d \in timers, DropRetry(d)
    PROVE  Ending("timers", d) /\ Distinct'
<1>1. d \in Stored["timers"]
  BY StoredAre
<1>2. /\ worker' = worker /\ letters' = letters /\ timers' = timers \ {d} /\ queue' = queue
      /\ reviving' = reviving /\ pub' = pub
      /\ history'.handled = history.handled
      /\ history'.dropped = history.dropped \cup {d.event}
  BY DEF DropRetry, Placed, TypeOK
<1>3. /\ Contents(queue)' = Contents(queue) /\ Contents(letters)' = Contents(letters)
      /\ Carried' = Carried /\ Handling' = Handling
  BY <1>2 DEF Contents, Carried, Handling
<1>4. Distinct'
  BY <1>2 DEF Placed, Distinct, NoRepeats, Busy
<1>5. \A u \in Stores : Stored'[u] = IF u = "timers" THEN Stored[u] \ {d} ELSE Stored[u]
  BY <1>2, <1>3, StoredAre, StoredBecome DEF Stores
<1> QED
  BY <1>1, <1>2, <1>4, <1>5 DEF Ending, Stores

LEMMA ResubmitTrip ==
    ASSUME Placed, NEW i \in DOMAIN letters, Resubmit(i)
    PROVE  /\ Journey("letters", letters[i], "reviving", [letters[i] EXCEPT !.attempts = 0])
           /\ Distinct'
<1> DEFINE c == letters[i]
           d == [letters[i] EXCEPT !.attempts = 0]
<1>1. letters \in Seq(Deliveries) /\ i \in 1..Len(letters) /\ c \in Deliveries
  BY DEF Placed, TypeOK
<1>2. d \in Deliveries /\ d.event = c.event /\ d.date = c.date
  BY <1>1 DEF Deliveries
<1>3. c \in Stored["letters"]
  BY StoredAre DEF Contents
<1>4. /\ letters' = RemoveAt(letters, i) /\ reviving' = reviving \cup {d}
      /\ pub' = pub /\ queue' = queue /\ worker' = worker /\ timers' = timers
      /\ history' = history
  BY DEF Resubmit
<1> HIDE DEF d
<1>5. /\ Contents(RemoveAt(letters, i)) = Contents(letters) \ {c}
      /\ NoRepeats(RemoveAt(letters, i))
  BY <1>1, RemoveContents DEF Placed, Distinct
<1> HIDE DEF c
<1>6. Contents(letters') = Contents(letters) \ {c} /\ NoRepeats(letters')
  BY <1>4, <1>5
<1>7. /\ Contents(queue)' = Contents(queue) /\ Contents(letters)' = Contents(letters) \ {c}
      /\ Carried' = Carried /\ Handling' = Handling
  BY <1>4, <1>6 DEF Contents, Carried, Handling
<1>8. Distinct'
  <2>1. NoRepeats(letters)' /\ NoRepeats(queue)'
    BY <1>4, <1>6 DEF NoRepeats, Placed, Distinct
  <2>2. Busy' = Busy
    BY <1>4 DEF Busy
  <2> QED
    BY <1>4, <2>1, <2>2 DEF Placed, Distinct
<1>9. \A u \in Stores : Stored'[u] = IF u = "letters" THEN Stored[u] \ {c}
                                     ELSE IF u = "reviving" THEN Stored[u] \cup {d} ELSE Stored[u]
  BY <1>4, <1>7, StoredAre, StoredBecome DEF Stores
<1>10. Journey("letters", c, "reviving", d)
  BY <1>2, <1>3, <1>4, <1>9 DEF Journey, Stores
<1> QED
  BY <1>8, <1>10 DEF c, d

LEMMA PopTrip ==
    ASSUME Placed, NEW w \in Workers, Await(w), ~broker.consumerStopped, queue # <<>>
    PROVE  /\ Turned(w, "popped", Head(queue)) /\ queue' = Tail(queue)
           /\ Journey("queue", Head(queue), "carried", Head(queue))
           /\ Distinct'
<1> DEFINE h == Head(queue)
<1>1. queue \in Seq(Deliveries) /\ h \in Deliveries /\ h = queue[1] /\ 1 \in DOMAIN queue
  BY TailElements DEF Placed, TypeOK
<1>2. h \in Stored["queue"]
  BY <1>1, StoredAre DEF Contents
<1>3. /\ worker[w].phase = "await"
      /\ worker' = [worker EXCEPT ![w] = [phase |-> "popped", delivery |-> h]]
      /\ queue' = Tail(queue) /\ letters' = letters /\ timers' = timers /\ reviving' = reviving
      /\ pub' = pub /\ history' = history
  BY DEF Await
<1>4. Contents(Tail(queue)) = Contents(queue) \ {h} /\ NoRepeats(Tail(queue))
  BY <1>1, TailContents DEF Placed, Distinct
<1>5. Turned(w, "popped", h)
  <2>1. worker \in [Workers -> [phase : WorkerPhases, delivery : Deliveries]]
    BY DEF Placed, TypeOK
  <2> DEFINE r == [phase |-> "popped", delivery |-> h]
  <2>2. r \in [phase : WorkerPhases, delivery : Deliveries] /\ r.phase = "popped" /\ r.delivery = h
    BY <1>1 DEF WorkerPhases
  <2> HIDE DEF h, r
  <2>3. worker' = [worker EXCEPT ![w] = r]
    BY <1>3 DEF r
  <2> QED
    BY <2>1, <2>2, <2>3 DEF Turned
<1>6. "popped" \in WorkerPhases
  BY DEF WorkerPhases
<1>7. \A v \in Busy : worker[v].delivery.event # h.event
  <2> SUFFICES ASSUME NEW v \in Busy PROVE worker[v].delivery.event # h.event
    OBVIOUS
  <2>1. v \in Workers
    BY DEF Busy
  <2>2. worker[v].delivery \in Stored["carried"] \/ worker[v].delivery \in Stored["handling"]
    BY <2>1, BusyStored DEF Busy, Holding, Placed
  <2> QED
    BY <1>2, <2>2 DEF Placed, Single, Stores
<1> HIDE DEF h
<1>8. NoRepeats(queue') /\ NoRepeats(letters')
  BY <1>3, <1>4 DEF Placed, Distinct
<1>9. Carried' = Carried \cup {h} /\ Handling' = Handling /\ Distinct'
  BY <1>1, <1>3, <1>5, <1>6, <1>7, <1>8, WorkerTurns DEF Placed
<1>10. Contents(queue)' = Contents(queue) \ {h} /\ Contents(letters)' = Contents(letters)
  BY <1>3, <1>4 DEF Contents
<1>11. \A u \in Stores : Stored'[u] = IF u = "queue" THEN Stored[u] \ {h}
                                      ELSE IF u = "carried" THEN Stored[u] \cup {h} ELSE Stored[u]
  BY <1>3, <1>9, <1>10, StoredAre, StoredBecome DEF Stores
<1>12. Journey("queue", h, "carried", h)
  BY <1>1, <1>2, <1>3, <1>11 DEF Journey, Stores
<1> QED
  BY <1>3, <1>5, <1>9, <1>12 DEF h

\* The rest of a step that leaves a worker without its delivery, or with it in the next phase.
LEMMA TurnFacts ==
    ASSUME Placed, NEW w \in Workers, w \in Busy, NEW p \in WorkerPhases, NEW d \in Deliveries,
           Turned(w, p, d), p \in Holding => d.event = worker[w].delivery.event,
           queue' = queue, NoRepeats(letters')
    PROVE  /\ Carried' = (IF worker[w].phase \in {"popped", "sleeping"}
                          THEN Carried \ {worker[w].delivery} ELSE Carried)
                         \cup (IF p \in {"popped", "sleeping"} THEN {d} ELSE {})
           /\ Handling' = (IF worker[w].phase = "handling"
                           THEN Handling \ {worker[w].delivery} ELSE Handling)
                          \cup (IF p = "handling" THEN {d} ELSE {})
           /\ Distinct' /\ Contents(queue)' = Contents(queue)
<1>1. p \in Holding => \A v \in Busy : v # w => worker[v].delivery.event # d.event
  BY DEF Placed, Distinct
<1>2. NoRepeats(queue')
  BY DEF Placed, Distinct
<1>3. Contents(queue)' = Contents(queue)
  BY DEF Contents
<1> QED
  BY <1>1, <1>2, <1>3, WorkerTurns DEF Placed

\* A handler is called: by process, or after a backoff.
LEMMA StartTrip ==
    ASSUME Placed, NEW w \in Workers, worker[w].phase \in {"popped", "sleeping"},
           StartHandling(w),
           UNCHANGED <<pub, queue, timers, letters, reviving, history>>
    PROVE  /\ Journey("carried", worker[w].delivery, "handling",
                      [worker[w].delivery EXCEPT !.attempts = @ + 1])
           /\ Distinct'
<1> DEFINE c == worker[w].delivery
           d == [worker[w].delivery EXCEPT !.attempts = @ + 1]
<1>1. c \in Deliveries /\ c \in Stored["carried"]
  BY BusyStored DEF Placed
<1>2. Turned(w, "handling", d) /\ d \in Deliveries
  BY StartHandlingTurns DEF Placed
<1>3. d.event = c.event /\ d.date = c.date
  BY <1>1 DEF Deliveries
<1>4. "handling" \in WorkerPhases /\ w \in Busy
  BY DEF WorkerPhases, Busy, Holding
<1>5. NoRepeats(letters')
  BY DEF Placed, Distinct
<1> HIDE DEF d
<1>6. /\ Carried' = Carried \ {c} /\ Handling' = Handling \cup {d}
      /\ Distinct' /\ Contents(queue)' = Contents(queue)
  BY <1>2, <1>3, <1>4, <1>5, TurnFacts
<1>7. Contents(letters)' = Contents(letters)
  BY DEF Contents
<1> HIDE DEF c
<1>8. \A u \in Stores : Stored'[u] = IF u = "carried" THEN Stored[u] \ {c}
                                     ELSE IF u = "handling" THEN Stored[u] \cup {d} ELSE Stored[u]
  BY <1>6, <1>7, StoredAre, StoredBecome DEF Stores
<1>9. Journey("carried", c, "handling", d)
  BY <1>1, <1>2, <1>3, <1>8 DEF Journey, Stores
<1> QED
  BY <1>6, <1>9 DEF c, d

\* A worker lets go of its delivery for good.
LEMMA ReleaseEnds ==
    ASSUME Placed, NEW w \in Workers, NEW p \in {"await", "exited"}, Release(w, p),
           UNCHANGED <<pub, queue, timers, letters, reviving>>,
           \/ /\ history'.handled = history.handled \cup {worker[w].delivery.event}
              /\ history'.dropped = history.dropped
           \/ /\ history'.handled = history.handled
              /\ history'.dropped = history.dropped \cup {worker[w].delivery.event}
    PROVE  /\ worker[w].phase \in {"popped", "sleeping"} => Ending("carried", worker[w].delivery)
           /\ worker[w].phase = "handling" => Ending("handling", worker[w].delivery)
           /\ w \in Busy => Distinct'
<1> DEFINE c == worker[w].delivery
<1>1. /\ worker[w].phase \in {"popped", "sleeping"} => c \in Stored["carried"]
      /\ worker[w].phase = "handling" => c \in Stored["handling"]
  BY BusyStored DEF Placed
<1>2. p \in WorkerPhases /\ p \notin Holding /\ p \notin {"popped", "sleeping"} /\ p # "handling"
  BY DEF WorkerPhases, Holding
<1>3. Turned(w, p, NoDelivery) /\ NoDelivery \in Deliveries
  BY <1>2, ReleaseTurns, NoDeliveryType DEF Placed
<1>4. NoRepeats(letters')
  BY DEF Placed, Distinct
<1>5. ASSUME w \in Busy
      PROVE  /\ Carried' = (IF worker[w].phase \in {"popped", "sleeping"} THEN Carried \ {c} ELSE Carried)
             /\ Handling' = (IF worker[w].phase = "handling" THEN Handling \ {c} ELSE Handling)
             /\ Distinct' /\ Contents(queue)' = Contents(queue)
  <2>1. queue' = queue /\ (p \in Holding => NoDelivery.event = worker[w].delivery.event)
    BY <1>2
  <2> HIDE DEF c
  <2>2. /\ Carried' = (IF worker[w].phase \in {"popped", "sleeping"}
                       THEN Carried \ {worker[w].delivery} ELSE Carried)
                      \cup (IF p \in {"popped", "sleeping"} THEN {NoDelivery} ELSE {})
        /\ Handling' = (IF worker[w].phase = "handling"
                        THEN Handling \ {worker[w].delivery} ELSE Handling)
                       \cup (IF p = "handling" THEN {NoDelivery} ELSE {})
        /\ Distinct' /\ Contents(queue)' = Contents(queue)
    BY <1>2, <1>3, <1>4, <1>5, <2>1, TurnFacts
  <2> QED
    BY <1>2, <2>2 DEF c
<1>6. Contents(letters)' = Contents(letters)
  BY DEF Contents
<1>7. worker[w].phase \in {"popped", "sleeping"} \/ worker[w].phase = "handling" => w \in Busy
  BY DEF Busy, Holding
<1> HIDE DEF c
<1>8. ASSUME worker[w].phase \in {"popped", "sleeping"}
      PROVE  \A u \in Stores : Stored'[u] = IF u = "carried" THEN Stored[u] \ {c} ELSE Stored[u]
  <2>1. Carried' = Carried \ {c} /\ Handling' = Handling /\ Contents(queue)' = Contents(queue)
    BY <1>5, <1>7, <1>8
  <2> QED
    BY <2>1, <1>6, StoredAre, StoredBecome DEF Stores
<1>9. ASSUME worker[w].phase = "handling"
      PROVE  \A u \in Stores : Stored'[u] = IF u = "handling" THEN Stored[u] \ {c} ELSE Stored[u]
  <2>1. Carried' = Carried /\ Handling' = Handling \ {c} /\ Contents(queue)' = Contents(queue)
    BY <1>5, <1>7, <1>9
  <2> QED
    BY <2>1, <1>6, StoredAre, StoredBecome DEF Stores
<1>10. ASSUME worker[w].phase \in {"popped", "sleeping"}
       PROVE  Ending("carried", c)
  BY <1>1, <1>8, <1>10 DEF Ending, Stores, c
<1>11. ASSUME worker[w].phase = "handling"
       PROVE  Ending("handling", c)
  BY <1>1, <1>9, <1>11 DEF Ending, Stores, c
<1> QED
  BY <1>5, <1>10, <1>11 DEF c

LEMMA DropTrip ==
    ASSUME Placed, NEW w \in Workers,
           \/ Process(w) /\ broker.cancelled
           \/ Interrupt(w)
    PROVE  Ending("carried", worker[w].delivery) /\ Distinct'
<1>1. \E p \in {"await", "exited"} : Release(w, p)
  BY DEF Process, Interrupt
<1>2. history' = [history EXCEPT !.dropped = @ \cup {worker[w].delivery.event}]
  BY DEF Process, Interrupt
<1>3. /\ history'.handled = history.handled
      /\ history'.dropped = history.dropped \cup {worker[w].delivery.event}
  BY <1>2 DEF Placed, TypeOK
<1>4. worker[w].phase \in {"popped", "sleeping"} /\ w \in Busy
  BY DEF Process, Interrupt, Busy, Holding
<1>5. UNCHANGED <<pub, queue, timers, letters, reviving>>
  BY DEF Process, Interrupt
<1> QED
  BY <1>1, <1>3, <1>4, <1>5, ReleaseEnds

LEMMA SucceedTrip ==
    ASSUME Placed, NEW w \in Workers, Succeed(w)
    PROVE  Ending("handling", worker[w].delivery) /\ Distinct'
<1>1. /\ Release(w, "await") /\ worker[w].phase = "handling"
      /\ UNCHANGED <<pub, queue, timers, letters, reviving>>
      /\ history' = [history EXCEPT !.handled = @ \cup {worker[w].delivery.event}]
  BY DEF Succeed
<1>2. /\ history'.handled = history.handled \cup {worker[w].delivery.event}
      /\ history'.dropped = history.dropped
  BY <1>1 DEF Placed, TypeOK
<1>3. w \in Busy
  BY <1>1 DEF Busy, Holding
<1>4. "await" \in {"await", "exited"}
  OBVIOUS
<1> QED
  BY <1>1, <1>2, <1>3, <1>4, ReleaseEnds

LEMMA ParkTrip ==
    ASSUME Placed, NEW w \in Workers, Park(w)
    PROVE  Journey("handling", worker[w].delivery, "letters", worker[w].delivery) /\ Distinct'
<1> DEFINE c == worker[w].delivery
<1>1. c \in Deliveries /\ c \in Stored["handling"]
  BY BusyStored DEF Placed, Park
<1>2. /\ Release(w, "await") /\ worker[w].phase = "handling"
      /\ letters' = Append(letters, c)
      /\ pub' = pub /\ queue' = queue /\ timers' = timers /\ reviving' = reviving
      /\ history' = [history EXCEPT !.parked = @ \cup {worker[w].delivery.event}]
  BY DEF Park
<1>3. history'.handled = history.handled /\ history'.dropped = history.dropped
  BY <1>2 DEF Placed, TypeOK
<1>4. w \in Busy /\ "await" \in WorkerPhases /\ "await" \notin Holding
  BY <1>2 DEF Busy, Holding, WorkerPhases
<1>5. Turned(w, "await", NoDelivery) /\ NoDelivery \in Deliveries
  BY <1>2, <1>4, ReleaseTurns, NoDeliveryType DEF Placed
<1>6. Contents(letters') = Contents(letters) \cup {c} /\ NoRepeats(letters')
  <2>1. \A x \in Contents(letters) : x.event # c.event
    BY <1>1, StoredAre DEF Placed, Single, Stores
  <2>2. letters \in Seq(Deliveries) /\ NoRepeats(letters)
    BY DEF Placed, TypeOK, Distinct
  <2> HIDE DEF c
  <2> QED
    BY <1>1, <1>2, <2>1, <2>2, AppendContents
<1>7. /\ Carried' = Carried /\ Handling' = Handling \ {c}
      /\ Distinct' /\ Contents(queue)' = Contents(queue)
  <2>1. worker[w].phase \notin {"popped", "sleeping"}
    BY <1>2
  <2> QED
    <3>1. /\ Carried' = (IF worker[w].phase \in {"popped", "sleeping"}
                         THEN Carried \ {worker[w].delivery} ELSE Carried)
                        \cup (IF "await" \in {"popped", "sleeping"} THEN {NoDelivery} ELSE {})
          /\ Handling' = (IF worker[w].phase = "handling"
                          THEN Handling \ {worker[w].delivery} ELSE Handling)
                         \cup (IF "await" = "handling" THEN {NoDelivery} ELSE {})
          /\ Distinct' /\ Contents(queue)' = Contents(queue)
      <4> HIDE DEF c
      <4> QED
        BY <1>2, <1>4, <1>5, <1>6, TurnFacts
    <3> QED
      BY <1>2, <2>1, <3>1
<1>8. Contents(letters)' = Contents(letters) \cup {c}
  BY <1>6 DEF Contents
<1> HIDE DEF c
<1>9. \A u \in Stores : Stored'[u] = IF u = "handling" THEN Stored[u] \ {c}
                                     ELSE IF u = "letters" THEN Stored[u] \cup {c} ELSE Stored[u]
  BY <1>2, <1>7, <1>8, StoredAre, StoredBecome DEF Stores
<1>10. Journey("handling", c, "letters", c)
  BY <1>1, <1>2, <1>3, <1>9 DEF Journey, Stores
<1> QED
  BY <1>7, <1>10 DEF c

LEMMA BackOffTrip ==
    ASSUME Placed, NEW w \in Workers, BackOff(w)
    PROVE  /\ broker.ordering = "FIFO" =>
                Journey("handling", worker[w].delivery, "carried", worker[w].delivery)
           /\ broker.ordering # "FIFO" =>
                Journey("handling", worker[w].delivery, "timers", worker[w].delivery)
           /\ Distinct'
<1> DEFINE c == worker[w].delivery
<1>1. c \in Deliveries /\ c \in Stored["handling"]
  BY BusyStored DEF Placed, BackOff
<1>2. /\ worker[w].phase = "handling" /\ pub' = pub /\ queue' = queue /\ letters' = letters
      /\ reviving' = reviving /\ history' = history
  BY DEF BackOff
<1>3. /\ w \in Busy /\ "await" \in WorkerPhases /\ "await" \notin Holding
      /\ "sleeping" \in WorkerPhases /\ NoDelivery \in Deliveries
      /\ worker[w].phase \notin {"popped", "sleeping"}
  BY <1>2, NoDeliveryType DEF Busy, Holding, WorkerPhases
<1>4. NoRepeats(letters')
  BY <1>2 DEF Placed, Distinct
<1>5. Contents(letters)' = Contents(letters)
  BY <1>2 DEF Contents
<1>6. ASSUME broker.ordering = "FIFO"
      PROVE  Journey("handling", c, "carried", c) /\ Distinct'
  <2>1. worker' = [worker EXCEPT ![w].phase = "sleeping"] /\ timers' = timers
    BY <1>6 DEF BackOff
  <2>2. Turned(w, "sleeping", c)
    BY <1>3, <2>1, PhaseTurns DEF Placed
  <2>3. /\ Carried' = Carried \cup {c} /\ Handling' = Handling \ {c}
        /\ Distinct' /\ Contents(queue)' = Contents(queue)
    <3>1. /\ Carried' = (IF worker[w].phase \in {"popped", "sleeping"}
                         THEN Carried \ {worker[w].delivery} ELSE Carried)
                        \cup (IF "sleeping" \in {"popped", "sleeping"} THEN {c} ELSE {})
          /\ Handling' = (IF worker[w].phase = "handling"
                          THEN Handling \ {worker[w].delivery} ELSE Handling)
                         \cup (IF "sleeping" = "handling" THEN {c} ELSE {})
          /\ Distinct' /\ Contents(queue)' = Contents(queue)
      BY <1>1, <1>2, <1>3, <1>4, <2>2, TurnFacts
    <3> QED
      BY <1>2, <1>3, <3>1
  <2> HIDE DEF c
  <2>4. \A u \in Stores : Stored'[u] = IF u = "handling" THEN Stored[u] \ {c}
                                       ELSE IF u = "carried" THEN Stored[u] \cup {c} ELSE Stored[u]
    BY <1>2, <1>5, <2>1, <2>3, StoredAre, StoredBecome DEF Stores
  <2> QED
    BY <1>1, <1>2, <2>3, <2>4 DEF Journey, Stores
<1>7. ASSUME broker.ordering # "FIFO"
      PROVE  Journey("handling", c, "timers", c) /\ Distinct'
  <2>1. Release(w, "await") /\ timers' = timers \cup {c}
    BY <1>7 DEF BackOff
  <2>2. Turned(w, "await", NoDelivery)
    BY <1>3, <2>1, ReleaseTurns DEF Placed
  <2>3. /\ Carried' = Carried /\ Handling' = Handling \ {c}
        /\ Distinct' /\ Contents(queue)' = Contents(queue)
    <3>1. /\ Carried' = (IF worker[w].phase \in {"popped", "sleeping"}
                         THEN Carried \ {worker[w].delivery} ELSE Carried)
                        \cup (IF "await" \in {"popped", "sleeping"} THEN {NoDelivery} ELSE {})
          /\ Handling' = (IF worker[w].phase = "handling"
                          THEN Handling \ {worker[w].delivery} ELSE Handling)
                         \cup (IF "await" = "handling" THEN {NoDelivery} ELSE {})
          /\ Distinct' /\ Contents(queue)' = Contents(queue)
      BY <1>1, <1>2, <1>3, <1>4, <2>2, TurnFacts
    <3> QED
      BY <1>2, <1>3, <3>1
  <2> HIDE DEF c
  <2>4. \A u \in Stores : Stored'[u] = IF u = "handling" THEN Stored[u] \ {c}
                                       ELSE IF u = "timers" THEN Stored[u] \cup {c} ELSE Stored[u]
    BY <1>2, <1>5, <2>1, <2>3, StoredAre, StoredBecome DEF Stores
  <2> QED
    BY <1>1, <1>2, <2>3, <2>4 DEF Journey, Stores
<1> QED
  BY <1>6, <1>7

\* The other steps leave every delivery where it is.
Resting ==
    \/ \E ordering \in Orderings : Subscribe(ordering)
    \/ StopBroker \/ Stopping \/ Signal
    \/ \E e \in Events : BeginPublish(e) \/ TargetPublish(e)
    \/ \E w \in Workers : Await(w) /\ (broker.consumerStopped \/ queue = <<>>)
    \/ UNCHANGED vars

LEMMA RestingStill ==
    ASSUME Placed, Unsubscribed, Resting
    PROVE  Still /\ Distinct'
<1>0. /\ worker \in [Workers -> [phase : WorkerPhases, delivery : Deliveries]]
      /\ TypeOK /\ Distinct
  BY DEF Placed, TypeOK
<1>1. /\ queue' = queue /\ letters' = letters /\ timers' = timers /\ reviving' = reviving
      /\ history'.handled = history.handled /\ history'.dropped = history.dropped
  <2>1. ASSUME NEW e \in Events, BeginPublish(e)
        PROVE  <1>1
    BY <2>1 DEF BeginPublish, Placed, TypeOK
  <2> QED
    BY <2>1 DEF Resting, Subscribe, StopBroker, Stopping, CancelContext, StopConsumer, Broadcast,
                StopReturns, Signal, TargetPublish, Await, vars, Quiet
<1>2. \A e \in Events : /\ pub'[e].state = "done" <=> pub[e].state = "done"
                        /\ pub[e].state = "done" => pub'[e].date = pub[e].date
  <2>1. ASSUME NEW e \in Events, BeginPublish(e)
        PROVE  <1>2
    BY <2>1 DEF BeginPublish, Placed, TypeOK
  <2>2. ASSUME NEW e \in Events, TargetPublish(e)
        PROVE  <1>2
    BY <2>2 DEF TargetPublish, Placed, TypeOK
  <2>3. CASE pub' = pub
    BY <2>3
  <2> QED
    BY <2>1, <2>2, <2>3 DEF Resting, Subscribe, StopBroker, Stopping, CancelContext, StopConsumer,
                Broadcast, StopReturns, Signal, Await, vars, Quiet
<1>3. ASSUME NEW v \in Workers
      PROVE  \/ worker'[v] = worker[v]
             \/ worker'[v].phase \in IdlePhases /\ worker[v].phase \in IdlePhases
  <2>1. ASSUME NEW ordering \in Orderings, Subscribe(ordering)
        PROVE  <1>3!2
    BY <1>0, <2>1 DEF Subscribe, Unsubscribed, IdlePhases
  <2>2. CASE Broadcast
    BY <1>0, <2>2 DEF Broadcast, IdlePhases
  <2>3. CASE Signal
    BY <1>0, <2>3 DEF Signal, IdlePhases
  <2>4. ASSUME NEW w \in Workers, Await(w), broker.consumerStopped \/ queue = <<>>
        PROVE  <1>3!2
    BY <1>0, <2>4 DEF Await, IdlePhases
  <2>5. CASE worker' = worker
    BY <2>5
  <2> QED
    BY <2>1, <2>2, <2>3, <2>4, <2>5 DEF Resting, StopBroker, Stopping, CancelContext, StopConsumer,
                StopReturns, BeginPublish, TargetPublish, vars
<1>4. (\A u \in Stores : Stored'[u] = Stored[u]) /\ Distinct'
  BY <1>0, <1>1, <1>3, IdleTurns
<1> QED
  BY <1>1, <1>2, <1>4 DEF Still

\* A journey takes a delivery from one place to one other.
LEMMA JourneyKeeps ==
    ASSUME Placed, TypeOK', Distinct', NEW s, NEW c, NEW t, NEW d, Journey(s, c, t, d)
    PROVE  Placed'
<1>1. /\ s \in Stores /\ t \in Stores /\ s # t /\ c \in Stored[s] /\ d \in Deliveries
      /\ c.event = d.event /\ c.date = d.date
      /\ \A u \in Stores : Stored'[u] = IF u = s THEN Stored[u] \ {c}
                                        ELSE IF u = t THEN Stored[u] \cup {d} ELSE Stored[u]
      /\ pub' = pub
  BY DEF Journey
<1>2. Closed' = Closed
  BY DEF Journey, Closed
<1>3. \A u \in Stores : \A x \in Stored'[u] :
         \/ x \in Stored[u] /\ x.event # d.event
         \/ u = t /\ x = d
  <2>1. ASSUME NEW u \in Stores, NEW x \in Stored'[u]
        PROVE  (x \in Stored[u] /\ ~(u = s /\ x = c)) \/ (u = t /\ x = d)
    BY <1>1, <2>1
  <2>2. ASSUME NEW u \in Stores, NEW x \in Stored[u], ~(u = s /\ x = c)
        PROVE  x.event # d.event
    BY <1>1, <2>2 DEF Placed, Single
  <2> QED
    BY <2>1, <2>2
<1>4. d \in Stored'[t]
  BY <1>1
<1>5. \A u \in Stores : \A x \in Stored[u] : x \in Stored'[u] \/ x = c
  BY <1>1
<1>6. Accepted'
  BY <1>1, <1>2, <1>3 DEF Placed, Accepted
<1>7. Single'
  BY <1>3 DEF Placed, Single
<1>8. Kept'
  <2>1. ASSUME NEW e \in Events, pub'[e].state = "done", e \notin Closed'
        PROVE  \E u \in Stores : \E x \in Stored'[u] : x.event = e
    <3>0. PICK u \in Stores : \E x \in Stored[u] : x.event = e
      BY <1>1, <1>2, <2>1 DEF Placed, Kept
    <3>1. PICK x \in Stored[u] : x.event = e
      BY <3>0
    <3> QED
      BY <1>1, <1>4, <1>5, <3>1
  <2>2. /\ (history.handled \cap history.dropped = {})'
        /\ \A e \in Closed' : pub'[e].state = "done"
    BY <1>1, <1>2 DEF Placed, Kept, Journey
  <2> QED
    BY <2>1, <2>2 DEF Kept
<1> QED
  BY <1>6, <1>7, <1>8 DEF Placed

LEMMA EndingKeeps ==
    ASSUME Placed, TypeOK', Distinct', NEW s, NEW c, Ending(s, c)
    PROVE  Placed'
<1>1. /\ s \in Stores /\ c \in Stored[s]
      /\ \A u \in Stores : Stored'[u] = IF u = s THEN Stored[u] \ {c} ELSE Stored[u]
      /\ pub' = pub
  BY DEF Ending
<1>2. Closed' = Closed \cup {c.event}
  BY DEF Ending, Closed
<1>3. \A u \in Stores : \A x \in Stored'[u] : x \in Stored[u] /\ x.event # c.event
  <2>1. ASSUME NEW u \in Stores, NEW x \in Stored'[u]
        PROVE  x \in Stored[u] /\ ~(u = s /\ x = c)
    BY <1>1, <2>1
  <2>2. ASSUME NEW u \in Stores, NEW x \in Stored[u], ~(u = s /\ x = c)
        PROVE  x.event # c.event
    BY <1>1, <2>2 DEF Placed, Single
  <2> QED
    BY <2>1, <2>2
<1>4. \A u \in Stores : \A x \in Stored[u] : x \in Stored'[u] \/ x = c
  BY <1>1
<1>5. pub[c.event].state = "done" /\ c.event \notin Closed
  BY <1>1 DEF Placed, Accepted
<1>6. Accepted'
  BY <1>1, <1>2, <1>3 DEF Placed, Accepted
<1>7. Single'
  BY <1>3 DEF Placed, Single
<1>8. Kept'
  <2>1. ASSUME NEW e \in Events, pub'[e].state = "done", e \notin Closed'
        PROVE  \E u \in Stores : \E x \in Stored'[u] : x.event = e
    <3>0. PICK u \in Stores : \E x \in Stored[u] : x.event = e
      BY <1>1, <1>2, <2>1 DEF Placed, Kept
    <3>1. PICK x \in Stored[u] : x.event = e
      BY <3>0
    <3> QED
      BY <1>2, <1>4, <2>1, <3>1
  <2>2. \A e \in Closed' : pub'[e].state = "done"
    BY <1>1, <1>2, <1>5 DEF Placed, Kept
  <2>3. (history.handled \cap history.dropped = {})'
    BY <1>5 DEF Placed, Kept, Ending, Closed
  <2> QED
    BY <2>1, <2>2, <2>3 DEF Kept
<1> QED
  BY <1>6, <1>7, <1>8 DEF Placed

LEMMA ArrivalKeeps ==
    ASSUME Placed, TypeOK', Distinct', NEW e, NEW d, Arrival(e, d)
    PROVE  Placed'
<1>1. /\ e \in Events /\ d \in Deliveries /\ d.event = e
      /\ pub[e].state = "targeted" /\ d.date = pub[e].date
      /\ \A u \in Stores : Stored'[u] = IF u = "queue" THEN Stored[u] \cup {d} ELSE Stored[u]
  BY DEF Arrival
<1>2. Closed' = Closed
  BY DEF Arrival, Closed
<1>3. /\ \A x \in Events : x # e => pub'[x] = pub[x]
      /\ pub'[e].state = "done" /\ pub'[e].date = pub[e].date
  BY <1>1 DEF Arrival, Placed, TypeOK
<1>4. \A u \in Stores : \A x \in Stored'[u] : x \in Stored[u] \/ (u = "queue" /\ x = d)
  BY <1>1
<1>5. \A u \in Stores : \A x \in Stored[u] : x \in Stored'[u] /\ x.event # e /\ x.event \in Events
  <2>1. \A u \in Stores : \A x \in Stored[u] : x.event \in Events
    BY StoredType DEF Placed, Deliveries
  <2> QED
    BY <1>1, <2>1 DEF Placed, Accepted
<1>6. e \notin Closed
  BY <1>1 DEF Placed, Kept
<1>7. Accepted'
  BY <1>1, <1>2, <1>3, <1>4, <1>5, <1>6 DEF Placed, Accepted
<1>8. Single'
  BY <1>1, <1>4, <1>5 DEF Placed, Single
<1>9. Kept'
  <2>1. d \in Stored'["queue"] /\ "queue" \in Stores
    BY <1>1 DEF Stores
  <2>2. ASSUME NEW x \in Events, pub'[x].state = "done", x \notin Closed'
        PROVE  \E u \in Stores : \E y \in Stored'[u] : y.event = x
    BY <1>1, <1>2, <1>3, <1>5, <2>1, <2>2 DEF Placed, Kept
  <2>3. \A x \in Closed' : pub'[x].state = "done"
    <3>1. Closed \subseteq Events
      BY DEF Placed, TypeOK, Closed
    <3> QED
      BY <1>2, <1>3, <3>1 DEF Placed, Kept
  <2>4. (history.handled \cap history.dropped = {})'
    BY DEF Placed, Kept, Arrival
  <2> QED
    BY <2>2, <2>3, <2>4 DEF Kept
<1> QED
  BY <1>7, <1>8, <1>9 DEF Placed

LEMMA StillKeeps ==
    ASSUME Placed, TypeOK', Distinct', Still
    PROVE  Placed'
<1>1. Closed' = Closed /\ Closed \subseteq Events
  BY DEF Still, Closed, Placed, TypeOK
<1>2. \A u \in Stores : \A x \in Stored[u] : x.event \in Events
  BY StoredType DEF Placed, Deliveries
<1>3. Accepted'
  BY <1>1, <1>2 DEF Placed, Accepted, Still
<1>4. Single'
  BY DEF Placed, Single, Still
<1>5. Kept'
  BY <1>1 DEF Placed, Kept, Still
<1> QED
  BY <1>3, <1>4, <1>5 DEF Placed

\* The other steps, by what they do to a delivery.
Popping(w) == Await(w) /\ ~broker.consumerStopped /\ queue # <<>>
Starting(w) == \/ Process(w) /\ ~broker.cancelled
               \/ WakeUp(w)
Dropping(w) == \/ Process(w) /\ broker.cancelled
               \/ Interrupt(w)

LEMMA StepCases ==
    ASSUME [Next]_vars
    PROVE  \/ Resting
           \/ \E e \in Events : EnqueuePublish(e)
           \/ \E w \in Workers : \/ Popping(w) \/ Starting(w) \/ Dropping(w)
                                 \/ Succeed(w) \/ Park(w) \/ BackOff(w)
           \/ \E d \in timers : Retry(d) \/ DropRetry(d)
           \/ \E i \in DOMAIN letters : Resubmit(i)
           \/ \E d \in reviving : Revive(d)
<1>1. ASSUME NEW w \in Workers, Working(w)
      PROVE  \/ Resting
             \/ Popping(w) \/ Starting(w) \/ Dropping(w) \/ Succeed(w) \/ Park(w) \/ BackOff(w)
  <2>1. Await(w) => Popping(w) \/ Resting
    BY DEF Popping, Resting
  <2>2. Process(w) => Starting(w) \/ Dropping(w)
    BY DEF Starting, Dropping
  <2> QED
    BY <1>1, <2>1, <2>2 DEF Working, Starting, Dropping
<1>2. ASSUME NEW e \in Events, Publishing(e)
      PROVE  Resting \/ EnqueuePublish(e)
  BY <1>2 DEF Publishing, Resting
<1>3. CASE UNCHANGED vars
  BY <1>3 DEF Resting
<1>4. CASE \/ \E ordering \in Orderings : Subscribe(ordering)
           \/ StopBroker \/ Stopping \/ Signal
  BY <1>4 DEF Resting
<1> QED
  BY <1>1, <1>2, <1>3, <1>4 DEF Next, Backoffs

LEMMA StartingTrip ==
    ASSUME Placed, NEW w \in Workers, Starting(w)
    PROVE  /\ Journey("carried", worker[w].delivery, "handling",
                      [worker[w].delivery EXCEPT !.attempts = @ + 1])
           /\ Distinct'
<1>1. worker[w].phase \in {"popped", "sleeping"} /\ StartHandling(w)
  BY DEF Starting, Process, WakeUp
<1>2. UNCHANGED <<pub, queue, timers, letters, reviving, history>>
  BY DEF Starting, Process, WakeUp
<1> QED
  BY <1>1, <1>2, StartTrip

\* Where the deliveries are is inductive.
LEMMA PlacedPreserved ==
    ASSUME Placed, Unsubscribed, [Next]_vars
    PROVE  Placed'
<1>0. TypeOK'
  BY TypePreserved DEF Placed
<1>1. CASE Resting
  BY <1>0, <1>1, RestingStill, StillKeeps
<1>2. ASSUME NEW e \in Events, EnqueuePublish(e)
      PROVE  Placed'
  BY <1>0, <1>2, EnqueuePublishTrip, ArrivalKeeps
<1>3. ASSUME NEW w \in Workers, Popping(w)
      PROVE  Placed'
  BY <1>0, <1>3, PopTrip, JourneyKeeps DEF Popping
<1>4. ASSUME NEW w \in Workers, Starting(w)
      PROVE  Placed'
  <2> DEFINE c == worker[w].delivery
             d == [worker[w].delivery EXCEPT !.attempts = @ + 1]
  <2>1. Journey("carried", c, "handling", d) /\ Distinct'
    BY <1>4, StartingTrip
  <2> HIDE DEF c, d
  <2> QED
    BY <1>0, <2>1, JourneyKeeps
<1>5. ASSUME NEW w \in Workers, Dropping(w)
      PROVE  Placed'
  BY <1>0, <1>5, DropTrip, EndingKeeps DEF Dropping
<1>6. ASSUME NEW w \in Workers, Succeed(w)
      PROVE  Placed'
  BY <1>0, <1>6, SucceedTrip, EndingKeeps
<1>7. ASSUME NEW w \in Workers, Park(w)
      PROVE  Placed'
  BY <1>0, <1>7, ParkTrip, JourneyKeeps
<1>8. ASSUME NEW w \in Workers, BackOff(w)
      PROVE  Placed'
  BY <1>0, <1>8, BackOffTrip, JourneyKeeps
<1>9. ASSUME NEW d \in timers, Retry(d)
      PROVE  Placed'
  BY <1>0, <1>9, RetryTrip, JourneyKeeps
<1>10. ASSUME NEW d \in timers, DropRetry(d)
       PROVE  Placed'
  BY <1>0, <1>10, DropRetryTrip, EndingKeeps
<1>11. ASSUME NEW i \in DOMAIN letters, Resubmit(i)
       PROVE  Placed'
  <2> DEFINE c == letters[i]
             d == [letters[i] EXCEPT !.attempts = 0]
  <2>1. Journey("letters", c, "reviving", d) /\ Distinct'
    BY <1>11, ResubmitTrip
  <2> HIDE DEF c, d
  <2> QED
    BY <1>0, <2>1, JourneyKeeps
<1>12. ASSUME NEW d \in reviving, Revive(d)
       PROVE  Placed'
  BY <1>0, <1>12, ReviveTrip, JourneyKeeps
<1> QED
  BY <1>1, <1>2, <1>3, <1>4, <1>5, <1>6, <1>7, <1>8, <1>9, <1>10, <1>11, <1>12, StepCases

-----------------------------------------------------------------------------
(* The other parts of the invariant.                                       *)

\* A journey keeps the budgets when its delivery fits its new place, and what is known of
\* the dead letters.
LEMMA JourneyFits ==
    ASSUME Budgets, NEW s, NEW c, NEW t, NEW d, Journey(s, c, t, d), Fits(t, d.attempts)
    PROVE  Budgets'
<1>1. ASSUME NEW u \in Stores, NEW x \in Stored'[u]
      PROVE  x \in Stored[u] \/ (u = t /\ x = d)
  BY <1>1 DEF Journey
<1>2. ASSUME NEW u \in Stores, NEW x \in Stored'[u]
      PROVE  Fits(u, x.attempts)
  BY <1>1 DEF Budgets
<1> QED
  BY <1>2 DEF Budgets, Fits

LEMMA FewerFit ==
    ASSUME Budgets, \A u \in Stores : Stored'[u] \subseteq Stored[u]
    PROVE  Budgets'
<1>1. ASSUME NEW u \in Stores, NEW x \in Stored'[u]
      PROVE  Fits(u, x.attempts)
  BY DEF Budgets
<1> QED
  BY <1>1 DEF Budgets, Fits

LEMMA BudgetsPreserved ==
    ASSUME Placed, Unsubscribed, Budgets, [Next]_vars
    PROVE  Budgets'
<1>0. MaxAttempts \in Nat /\ MaxAttempts > 0
  BY BrokerAssumption
<1>1. CASE Resting
  <2>1. \A u \in Stores : Stored'[u] \subseteq Stored[u]
    BY <1>1, RestingStill DEF Still
  <2> QED
    BY <2>1, FewerFit
<1>2. ASSUME NEW e \in Events, EnqueuePublish(e)
      PROVE  Budgets'
  <2> DEFINE d == [event |-> e, attempts |-> 0, date |-> pub[e].date]
  <2>1. Arrival(e, d)
    BY <1>2, EnqueuePublishTrip
  <2>2. Fits("queue", d.attempts)
    BY <1>0 DEF Fits
  <2> HIDE DEF d
  <2>3. ASSUME NEW u \in Stores, NEW x \in Stored'[u]
        PROVE  x \in Stored[u] \/ (u = "queue" /\ x = d)
    BY <2>1, <2>3 DEF Arrival
  <2>4. ASSUME NEW u \in Stores, NEW x \in Stored'[u]
        PROVE  Fits(u, x.attempts)
    BY <2>2, <2>3 DEF Budgets
  <2> QED
    BY <2>4 DEF Budgets, Fits
<1>3. ASSUME NEW w \in Workers, Popping(w)
      PROVE  Budgets'
  <2>1. Journey("queue", Head(queue), "carried", Head(queue))
    BY <1>3, PopTrip DEF Popping
  <2>2. Fits("queue", Head(queue).attempts)
    BY <2>1 DEF Journey, Budgets
  <2>3. Fits("carried", Head(queue).attempts)
    BY <2>2 DEF Fits
  <2> QED
    BY <2>1, <2>3, JourneyFits
<1>4. ASSUME NEW w \in Workers, Starting(w)
      PROVE  Budgets'
  <2> DEFINE c == worker[w].delivery
             d == [worker[w].delivery EXCEPT !.attempts = @ + 1]
  <2>1. Journey("carried", c, "handling", d)
    BY <1>4, StartingTrip
  <2>2. Fits("carried", c.attempts)
    BY <2>1 DEF Journey, Budgets
  <2>3. c.attempts \in Nat /\ d.attempts = c.attempts + 1
    BY BusyStored DEF Placed, Deliveries
  <2>4. Fits("handling", d.attempts)
    BY <1>0, <2>2, <2>3 DEF Fits
  <2> HIDE DEF c, d
  <2> QED
    BY <2>1, <2>4, JourneyFits
<1>5. ASSUME NEW s, NEW c, Ending(s, c)
      PROVE  Budgets'
  <2>1. \A u \in Stores : Stored'[u] \subseteq Stored[u]
    BY <1>5 DEF Ending
  <2> QED
    BY <2>1, FewerFit
<1>6. ASSUME NEW w \in Workers, Dropping(w) \/ Succeed(w)
      PROVE  Budgets'
  BY <1>5, <1>6, DropTrip, SucceedTrip DEF Dropping
<1>7. ASSUME NEW w \in Workers, Park(w)
      PROVE  Budgets'
  <2>1. Journey("handling", worker[w].delivery, "letters", worker[w].delivery)
    BY <1>7, ParkTrip
  <2>2. Fits("handling", worker[w].delivery.attempts)
    BY <2>1 DEF Journey, Budgets
  <2>3. worker[w].delivery.attempts \in Nat /\ worker[w].delivery.attempts >= MaxAttempts
    BY <1>7, BusyStored DEF Park, Exhausted, Placed, Deliveries
  <2>4. Fits("letters", worker[w].delivery.attempts)
    BY <1>0, <2>2, <2>3 DEF Fits
  <2> QED
    BY <2>1, <2>4, JourneyFits
<1>8. ASSUME NEW w \in Workers, BackOff(w)
      PROVE  Budgets'
  <2>1. worker[w].delivery.attempts \in Nat /\ worker[w].delivery.attempts < MaxAttempts
    BY <1>0, <1>8, BusyStored DEF BackOff, Exhausted, Placed, Deliveries
  <2>2. Fits("carried", worker[w].delivery.attempts) /\ Fits("timers", worker[w].delivery.attempts)
    BY <2>1 DEF Fits
  <2> QED
    BY <1>8, <2>2, BackOffTrip, JourneyFits
<1>9. ASSUME NEW d \in timers, Retry(d)
      PROVE  Budgets'
  <2>1. Journey("timers", d, "queue", d)
    BY <1>9, RetryTrip
  <2>2. Fits("timers", d.attempts)
    BY <2>1 DEF Journey, Budgets
  <2>3. Fits("queue", d.attempts)
    BY <2>2 DEF Fits
  <2> QED
    BY <2>1, <2>3, JourneyFits
<1>10. ASSUME NEW d \in timers, DropRetry(d)
       PROVE  Budgets'
  BY <1>5, <1>10, DropRetryTrip
<1>11. ASSUME NEW i \in DOMAIN letters, Resubmit(i)
       PROVE  Budgets'
  <2> DEFINE c == letters[i]
             d == [letters[i] EXCEPT !.attempts = 0]
  <2>1. Journey("letters", c, "reviving", d)
    BY <1>11, ResubmitTrip
  <2>2. c \in Deliveries
    BY DEF Placed, TypeOK
  <2>3. Fits("reviving", d.attempts)
    BY <2>2 DEF Fits, Deliveries
  <2> HIDE DEF c, d
  <2> QED
    BY <2>1, <2>3, JourneyFits
<1>12. ASSUME NEW d \in reviving, Revive(d)
       PROVE  Budgets'
  <2>1. Journey("reviving", d, "queue", d)
    BY <1>12, ReviveTrip
  <2>2. Fits("reviving", d.attempts)
    BY <2>1 DEF Journey, Budgets
  <2>3. Fits("queue", d.attempts)
    BY <1>0, <2>2 DEF Fits
  <2> QED
    BY <2>1, <2>3, JourneyFits
<1> QED
  BY <1>1, <1>2, <1>3, <1>4, <1>6, <1>7, <1>8, <1>9, <1>10, <1>11, <1>12, StepCases

\* Dead letters are never forgotten, and only publishing adds to who preceded whom.
LEMMA HistoryGrows ==
    ASSUME TypeOK, [Next]_vars
    PROVE  /\ history.parked \subseteq history'.parked
           /\ \/ history'.preceded = history.preceded
              \/ \E e \in Events : BeginPublish(e)
<1>1. ASSUME NEW e \in Events, BeginPublish(e)
      PROVE  history.parked \subseteq history'.parked
  BY <1>1 DEF BeginPublish, TypeOK
<1>2. ASSUME NEW x, \/ history' = [history EXCEPT !.dropped = @ \cup {x}]
                    \/ history' = [history EXCEPT !.handled = @ \cup {x}]
                    \/ history' = [history EXCEPT !.parked = @ \cup {x}]
      PROVE  history.parked \subseteq history'.parked /\ history'.preceded = history.preceded
  BY <1>2 DEF TypeOK
<1>3. CASE history' = history
  BY <1>3
<1>4. \/ history' = history
      \/ \E e \in Events : BeginPublish(e)
      \/ \E x : \/ history' = [history EXCEPT !.dropped = @ \cup {x}]
                \/ history' = [history EXCEPT !.handled = @ \cup {x}]
                \/ history' = [history EXCEPT !.parked = @ \cup {x}]
  <2>1. ASSUME Resting
        PROVE  history' = history \/ \E e \in Events : BeginPublish(e)
    BY <2>1 DEF Resting, Subscribe, StopBroker, Stopping, CancelContext, StopConsumer, Broadcast,
                StopReturns, Signal, TargetPublish, Await, vars, Quiet
  <2>2. ASSUME NEW w \in Workers, Popping(w) \/ Starting(w) \/ BackOff(w)
        PROVE  history' = history
    BY <2>2 DEF Popping, Await, Starting, Process, WakeUp, BackOff
  <2>3. ASSUME NEW w \in Workers, Dropping(w) \/ Succeed(w) \/ Park(w)
        PROVE  \E x : \/ history' = [history EXCEPT !.dropped = @ \cup {x}]
                      \/ history' = [history EXCEPT !.handled = @ \cup {x}]
                      \/ history' = [history EXCEPT !.parked = @ \cup {x}]
    BY <2>3 DEF Dropping, Process, Interrupt, Succeed, Park
  <2> QED
    BY <2>1, <2>2, <2>3, StepCases DEF EnqueuePublish, Retry, DropRetry, Resubmit, Revive
<1> QED
  BY <1>1, <1>2, <1>3, <1>4

LEMMA RememberedPreserved ==
    ASSUME Placed, Unsubscribed, Remembered, [Next]_vars
    PROVE  Remembered'
<1>0. history.parked \subseteq history'.parked
  BY HistoryGrows DEF Placed
<1> DEFINE L == {"letters", "reviving"}
<1>1. ASSUME \A u \in L : Stored'[u] \subseteq Stored[u]
      PROVE  Remembered'
  BY <1>0, <1>1 DEF Remembered
<1>2. CASE Resting
  BY <1>1, <1>2, RestingStill DEF Still, Stores
<1>3. ASSUME NEW s, NEW c, NEW t, NEW d, Journey(s, c, t, d), t \notin L
      PROVE  Remembered'
  <2>1. \A u \in L : Stored'[u] \subseteq Stored[u]
    BY <1>3 DEF Journey, Stores
  <2> QED
    BY <1>1, <2>1
<1>4. ASSUME NEW s, NEW c, Ending(s, c)
      PROVE  Remembered'
  <2>1. \A u \in L : Stored'[u] \subseteq Stored[u]
    BY <1>4 DEF Ending, Stores
  <2> QED
    BY <1>1, <2>1
<1>5. ASSUME NEW s, NEW c, NEW t, NEW d, Journey(s, c, t, d), d.event \in history'.parked
      PROVE  Remembered'
  <2>1. ASSUME NEW u \in L, NEW x \in Stored'[u]
        PROVE  x \in Stored[u] \/ x = d
    BY <1>5, <2>1 DEF Journey, Stores
  <2>2. ASSUME NEW u \in L, NEW x \in Stored'[u]
        PROVE  x.event \in history'.parked
    BY <1>0, <1>5, <2>1 DEF Remembered
  <2> QED
    BY <2>2 DEF Remembered
<1>6. ASSUME NEW e \in Events, EnqueuePublish(e)
      PROVE  Remembered'
  <2>1. \A u \in L : Stored'[u] \subseteq Stored[u]
    BY <1>6, EnqueuePublishTrip DEF Arrival, Stores
  <2> QED
    BY <1>1, <2>1
<1>7. ASSUME NEW w \in Workers, Popping(w)
      PROVE  Remembered'
  BY <1>3, <1>7, PopTrip DEF Popping
<1>8. ASSUME NEW w \in Workers, Starting(w)
      PROVE  Remembered'
  <2> DEFINE c == worker[w].delivery
             d == [worker[w].delivery EXCEPT !.attempts = @ + 1]
  <2>1. Journey("carried", c, "handling", d)
    BY <1>8, StartingTrip
  <2> HIDE DEF c, d
  <2> QED
    BY <1>3, <2>1
<1>9. ASSUME NEW w \in Workers, Dropping(w) \/ Succeed(w)
      PROVE  Remembered'
  BY <1>4, <1>9, DropTrip, SucceedTrip DEF Dropping
<1>10. ASSUME NEW w \in Workers, Park(w)
       PROVE  Remembered'
  <2>1. worker[w].delivery.event \in history'.parked
    BY <1>10 DEF Park, Placed, TypeOK
  <2> QED
    BY <1>5, <1>10, <2>1, ParkTrip
<1>11. ASSUME NEW w \in Workers, BackOff(w)
       PROVE  Remembered'
  BY <1>3, <1>11, BackOffTrip
<1>12. ASSUME NEW d \in timers, Retry(d) \/ DropRetry(d)
       PROVE  Remembered'
  BY <1>3, <1>4, <1>12, RetryTrip, DropRetryTrip
<1>13. ASSUME NEW i \in DOMAIN letters, Resubmit(i)
       PROVE  Remembered'
  <2> DEFINE c == letters[i]
             d == [letters[i] EXCEPT !.attempts = 0]
  <2>1. Journey("letters", c, "reviving", d)
    BY <1>13, ResubmitTrip
  <2> HIDE DEF c, d
  <2>2. d.event \in history'.parked
    BY <1>0, <2>1 DEF Journey, Remembered
  <2> QED
    BY <1>5, <2>1, <2>2
<1>14. ASSUME NEW d \in reviving, Revive(d)
       PROVE  Remembered'
  BY <1>3, <1>14, ReviveTrip
<1> QED
  BY <1>2, <1>6, <1>7, <1>8, <1>9, <1>10, <1>11, <1>12, <1>13, <1>14, StepCases

\* Subscribe is what addresses events to the consumer and starts its workers; Stop's steps
\* come in order.
LEMMA StagesPreserved ==
    ASSUME TypeOK, Unsubscribed, StopOrder, [Next]_vars
    PROVE  Unsubscribed' /\ StopOrder'
<1>1. \/ \E ordering \in Orderings : Subscribe(ordering)
      \/ StopBroker \/ Stopping
      \/ broker' = broker
  <2>1. ASSUME NEW w \in Workers, Working(w)
        PROVE  broker' = broker
    BY <2>1 DEF Working, Await, Process, Succeed, Park, BackOff, WakeUp, Interrupt
  <2> QED
    BY <2>1 DEF Next, Signal, Publishing, BeginPublish, TargetPublish, EnqueuePublish, Backoffs,
                Retry, DropRetry, Resubmit, Revive, vars
<1>2. StopOrder'
  <2>1. ASSUME NEW ordering \in Orderings, Subscribe(ordering)
        PROVE  StopOrder'
    BY <2>1 DEF Subscribe, StopOrder, TypeOK
  <2>2. CASE StopBroker \/ Stopping
    BY <2>2 DEF StopBroker, Stopping, CancelContext, StopConsumer, Broadcast, StopReturns, StopOrder,
                TypeOK
  <2>3. CASE broker' = broker
    BY <2>3 DEF StopOrder
  <2> QED
    BY <1>1, <2>1, <2>2, <2>3
<1>3. Unsubscribed'
  <2> SUFFICES ASSUME ~broker'.subscribed
               PROVE  Unsubscribed'
    BY DEF Unsubscribed
  <2>1. ~(\E ordering \in Orderings : Subscribe(ordering))
    BY DEF Subscribe, TypeOK
  <2>2. ~broker.subscribed
    BY <1>1, <2>1 DEF StopBroker, Stopping, CancelContext, StopConsumer, Broadcast, StopReturns,
                TypeOK
  <2>3. /\ \A w \in Workers : worker[w].phase = "off"
        /\ \A e \in Events : pub[e].state \notin {"targeted", "done"}
    BY <2>2 DEF Unsubscribed
  <2>4. ASSUME NEW w \in Workers
        PROVE  ~Working(w)
    BY <2>3 DEF Working, Await, Process, Succeed, Park, BackOff, WakeUp, Interrupt
  <2>5. worker' = worker
    <3>1. CASE Broadcast
      BY <2>3, <3>1 DEF Broadcast, TypeOK
    <3>2. CASE Signal
      BY <2>3, <3>2 DEF Signal
    <3> QED
      BY <2>1, <2>4, <3>1, <3>2 DEF Next, StopBroker, Stopping, CancelContext, StopConsumer,
                StopReturns, Publishing, BeginPublish, TargetPublish, EnqueuePublish, Backoffs,
                Retry, DropRetry, Resubmit, Revive, vars
  <2>6. \A e \in Events : pub'[e].state \notin {"targeted", "done"}
    <3>1. ASSUME NEW e \in Events, Publishing(e)
          PROVE  \A x \in Events : pub'[x].state \notin {"targeted", "done"}
      <4>0. DOMAIN pub = Events /\ \A x \in Events : pub[x].state \notin {"targeted", "done"}
        BY <2>3 DEF TypeOK
      <4>1. CASE BeginPublish(e)
        BY <4>0, <4>1 DEF BeginPublish, TypeOK
      <4>2. CASE TargetPublish(e)
        <5>1. pub' = [pub EXCEPT ![e].state = IF broker.stopped THEN "refused" ELSE "unheard"]
          BY <2>2, <4>2 DEF TargetPublish
        <5> DEFINE v == IF broker.stopped THEN "refused" ELSE "unheard"
        <5>2. v \notin {"targeted", "done"} /\ pub' = [pub EXCEPT ![e].state = v]
          BY <5>1
        <5> HIDE DEF v
        <5> QED
          BY <4>0, <5>2 DEF TypeOK
      <4>3. ~EnqueuePublish(e)
        BY <4>0 DEF EnqueuePublish
      <4> QED
        BY <3>1, <4>1, <4>2, <4>3 DEF Publishing
    <3>2. CASE pub' = pub
      BY <2>3, <3>2
    <3> QED
      BY <2>1, <2>4, <3>1, <3>2 DEF Next, StopBroker, Stopping, CancelContext, StopConsumer,
                Broadcast, StopReturns, Signal, Backoffs, Retry, DropRetry, Resubmit, Revive, Quiet, vars
  <2> QED
    BY <2>3, <2>5, <2>6 DEF Unsubscribed
<1> QED
  BY <1>2, <1>3

\* What the queue may become.
LEMMA QueueCases ==
    ASSUME TypeOK, [Next]_vars
    PROVE  \/ queue' = queue
           \/ queue # <<>> /\ queue' = Tail(queue)
           \/ \E d \in Deliveries : Enqueue(d)
<1>1. ASSUME NEW e \in Events, EnqueuePublish(e)
      PROVE  \E d \in Deliveries : Enqueue(d)
  <2>1. [event |-> e, attempts |-> 0, date |-> pub[e].date] \in Deliveries
    BY DEF TypeOK, Deliveries
  <2> QED
    BY <1>1, <2>1 DEF EnqueuePublish
<1>2. ASSUME NEW w \in Workers, Working(w)
      PROVE  queue' = queue \/ (queue # <<>> /\ queue' = Tail(queue))
  BY <1>2 DEF Working, Await, Process, Succeed, Park, BackOff, WakeUp, Interrupt
<1>3. ASSUME NEW d \in timers, Retry(d) \/ DropRetry(d)
      PROVE  queue' = queue \/ \E x \in Deliveries : Enqueue(x)
  BY <1>3 DEF Retry, DropRetry, TypeOK
<1>4. ASSUME NEW d \in reviving, Revive(d)
      PROVE  \E x \in Deliveries : Enqueue(x)
  BY <1>4 DEF Revive, TypeOK
<1> QED
  BY <1>1, <1>2, <1>3, <1>4 DEF Next, Subscribe, StopBroker, Stopping, CancelContext, StopConsumer,
     Broadcast, StopReturns, Signal, Publishing, BeginPublish, TargetPublish, Backoffs, Resubmit,
     Quiet, vars

\* An enqueue puts its delivery behind the ones with no later date, before the later ones.
LEMMA EnqueueOrder ==
    ASSUME TypeOK, Sorted, NEW d \in Deliveries, Enqueue(d)
    PROVE  \E p \in DOMAIN queue' :
               /\ queue'[p] = d
               /\ \A i \in DOMAIN queue' :
                    /\ i \in Int
                    /\ i < p => i \in DOMAIN queue /\ queue'[i] = queue[i] /\ queue[i].date <= d.date
                    /\ p < i => /\ i - 1 \in DOMAIN queue /\ queue'[i] = queue[i - 1]
                                /\ d.date < queue[i - 1].date
<1> DEFINE p == Position(d)
           n == Len(queue)
<1>1. /\ queue' \in Seq(Deliveries) /\ Len(queue') = n + 1 /\ p \in 1..(n + 1)
      /\ \A i \in 1..(n + 1) : /\ i < p => queue'[i] = queue[i]
                               /\ i = p => queue'[i] = d
                               /\ p < i => queue'[i] = queue[i - 1]
  BY EnqueueTypes
<1>2. \A i \in DOMAIN queue : queue[i].date <= d.date <=> i < p
  BY PositionSplits
<1>3. queue \in Seq(Deliveries) /\ n \in Nat /\ DOMAIN queue = 1..n
  BY DEF TypeOK
<1>4. d.date \in Nat /\ \A i \in 1..n : queue[i].date \in Nat
  <2>1. \A i \in 1..n : queue[i] \in Deliveries
    BY <1>3
  <2> QED
    BY <2>1 DEF Deliveries
<1> HIDE DEF p, n
<1>5. DOMAIN queue' = 1..(n + 1)
  BY <1>1, <1>3
<1>6. ASSUME NEW i \in DOMAIN queue'
      PROVE  /\ i \in Int
             /\ i < p => i \in DOMAIN queue /\ queue'[i] = queue[i] /\ queue[i].date <= d.date
             /\ p < i => /\ i - 1 \in DOMAIN queue /\ queue'[i] = queue[i - 1]
                         /\ d.date < queue[i - 1].date
  <2>1. i \in 1..(n + 1) /\ i \in Int
    BY <1>5
  <2>2. ASSUME i < p
        PROVE  i \in DOMAIN queue /\ queue'[i] = queue[i] /\ queue[i].date <= d.date
    <3>1. i \in 1..n
      BY <1>1, <1>3, <2>1, <2>2
    <3> QED
      BY <1>1, <1>2, <1>3, <2>1, <2>2, <3>1
  <2>3. ASSUME p < i
        PROVE  /\ i - 1 \in DOMAIN queue /\ queue'[i] = queue[i - 1]
               /\ d.date < queue[i - 1].date
    <3>1. i - 1 \in 1..n /\ ~(i - 1 < p)
      BY <1>1, <1>3, <2>1, <2>3
    <3>2. ~(queue[i - 1].date <= d.date)
      BY <1>2, <1>3, <3>1
    <3> QED
      BY <1>1, <1>3, <1>4, <2>1, <2>3, <3>1, <3>2
  <2> QED
    BY <2>1, <2>2, <2>3
<1>7. p \in DOMAIN queue' /\ queue'[p] = d
  BY <1>1, <1>5
<1> QED
  BY <1>6, <1>7

LEMMA SortedPreserved ==
    ASSUME TypeOK, Sorted, [Next]_vars
    PROVE  Sorted'
<1>0. queue \in Seq(Deliveries) /\ Len(queue) \in Nat /\ DOMAIN queue = 1..Len(queue)
  BY DEF TypeOK
<1>1. \A i \in DOMAIN queue : queue[i].date \in Nat
  <2>1. \A i \in DOMAIN queue : queue[i] \in Deliveries
    BY <1>0
  <2> QED
    BY <2>1 DEF Deliveries
<1>2. CASE queue' = queue
  BY <1>2 DEF Sorted
<1>3. CASE queue # <<>> /\ queue' = Tail(queue)
  <2>1. /\ Len(queue') = Len(queue) - 1 /\ queue' \in Seq(Deliveries)
        /\ \A i \in 1..(Len(queue) - 1) : queue'[i] = queue[i + 1]
    BY <1>0, <1>3, TailElements
  <2>2. ASSUME NEW i \in DOMAIN queue', NEW j \in DOMAIN queue', i < j
        PROVE  queue'[i].date <= queue'[j].date
    <3>1. /\ i + 1 \in DOMAIN queue /\ j + 1 \in DOMAIN queue /\ i + 1 < j + 1
          /\ queue'[i] = queue[i + 1] /\ queue'[j] = queue[j + 1]
      BY <1>0, <2>1, <2>2
    <3> QED
      BY <3>1 DEF Sorted
  <2> QED
    BY <2>2 DEF Sorted
<1>4. ASSUME NEW d \in Deliveries, Enqueue(d)
      PROVE  Sorted'
  <2>0. d.date \in Nat
    BY DEF Deliveries
  <2>1. PICK p \in DOMAIN queue' :
               /\ queue'[p] = d
               /\ \A i \in DOMAIN queue' :
                    /\ i \in Int
                    /\ i < p => i \in DOMAIN queue /\ queue'[i] = queue[i] /\ queue[i].date <= d.date
                    /\ p < i => /\ i - 1 \in DOMAIN queue /\ queue'[i] = queue[i - 1]
                                /\ d.date < queue[i - 1].date
    BY <1>4, EnqueueOrder
  <2>2. ASSUME NEW i \in DOMAIN queue', NEW j \in DOMAIN queue', i < j
        PROVE  queue'[i].date <= queue'[j].date
    <3>0. i \in Int /\ j \in Int /\ p \in Int
      BY <2>1
    <3>1. CASE j < p
      <4>1. i < p
        BY <2>2, <3>0, <3>1
      <4> QED
        BY <2>1, <2>2, <3>1, <4>1 DEF Sorted
    <3>2. CASE j = p
      BY <2>1, <2>2, <3>2
    <3>3. CASE p < j /\ i < p
      BY <1>1, <2>0, <2>1, <2>2, <3>3
    <3>4. CASE p < j /\ i = p
      BY <1>1, <2>0, <2>1, <2>2, <3>4
    <3>5. CASE p < j /\ p < i
      <4>1. i - 1 < j - 1
        BY <2>2, <3>0
      <4> QED
        BY <2>1, <2>2, <3>5, <4>1 DEF Sorted
    <3> QED
      BY <3>0, <3>1, <3>2, <3>3, <3>4, <3>5
  <2> QED
    BY <2>2 DEF Sorted
<1> QED
  BY <1>2, <1>3, <1>4, QueueCases

LEMMA PrecedingPreserved ==
    ASSUME TypeOK, Preceding, [Next]_vars
    PROVE  Preceding'
<1>0. pub \in [Events -> [state : {"none", "dated", "targeted", "done", "unheard", "refused"},
                          date : Nat]]
  BY DEF TypeOK
<1>1. ASSUME NEW e \in Events, BeginPublish(e)
      PROVE  Preceding'
  <2>1. /\ pub[e].state = "none" /\ pub'[e].state = "dated"
        /\ \A x \in Events : x # e => pub'[x] = pub[x]
    BY <1>0, <1>1 DEF BeginPublish
  <2>2. ASSUME NEW x \in Events, NEW y \in Events, <<x, y>> \in history'.preceded
        PROVE  <<x, y>> \in history.preceded \/ (pub[x].state = "done" /\ y = e)
    BY <1>1, <2>2 DEF BeginPublish, TypeOK
  <2> QED
    BY <2>1, <2>2 DEF Preceding
<1>2. ASSUME history'.preceded = history.preceded,
             \A e \in Events : /\ pub'[e].state # "none" <=> pub[e].state # "none"
                               /\ pub[e].state = "done" => pub'[e].state = "done"
      PROVE  Preceding'
  BY <1>2 DEF Preceding
<1>3. ASSUME NEW e \in Events, TargetPublish(e)
      PROVE  Preceding'
  BY <1>0, <1>2, <1>3 DEF TargetPublish
<1>4. ASSUME NEW e \in Events, EnqueuePublish(e)
      PROVE  Preceding'
  BY <1>0, <1>2, <1>4 DEF EnqueuePublish
<1>5. ASSUME pub' = pub, ~(\E e \in Events : BeginPublish(e))
      PROVE  Preceding'
  BY <1>2, <1>5, HistoryGrows
<1>6. ASSUME NEW w \in Workers, Working(w)
      PROVE  pub' = pub
  BY <1>6 DEF Working, Await, Process, Succeed, Park, BackOff, WakeUp, Interrupt
<1>7. \/ \E e \in Events : Publishing(e)
      \/ pub' = pub
  BY <1>6 DEF Next, Subscribe, StopBroker, Stopping, CancelContext, StopConsumer, Broadcast,
              StopReturns, Signal, Backoffs, Retry, DropRetry, Resubmit, Revive, Quiet, vars
<1> QED
  BY <1>1, <1>3, <1>4, <1>5, <1>7 DEF Publishing

\* Nobody is popped, sleeps or handles but the FIFO worker, and it does so one event at a
\* time.
LEMMA OneAtATimePreserved ==
    ASSUME Placed, Unsubscribed, Budgets, OneAtATime, [Next]_vars
    PROVE  OneAtATime'
<1> SUFFICES ASSUME broker'.ordering = "FIFO"
             PROVE  /\ \A w \in Workers : worker'[w].phase # "off" => w = FifoWorker
                    /\ timers' = {}
                    /\ \A d \in Contents(queue') : d.attempts = 0
                    /\ \A w \in Workers : worker'[w].phase = "popped" => worker'[w].delivery.attempts = 0
  <2>1. (broker.ordering = "FIFO")' <=> broker'.ordering = "FIFO"
    OBVIOUS
  <2> QED
    BY DEF OneAtATime, Contents
<1>0. /\ worker \in [Workers -> [phase : WorkerPhases, delivery : Deliveries]]
      /\ queue \in Seq(Deliveries) /\ TypeOK
  BY DEF Placed, TypeOK
<1> DEFINE Only == \A w \in Workers : worker'[w].phase # "off" => w = FifoWorker
           Fresh == \A w \in Workers : worker'[w].phase = "popped" => worker'[w].delivery.attempts = 0
           NewFirst == \A d \in Contents(queue') : d.attempts = 0
<1>1. ASSUME NEW ordering \in Orderings, Subscribe(ordering)
      PROVE  Only /\ timers' = {} /\ NewFirst /\ Fresh
  <2>1. /\ ~broker.subscribed /\ ordering = "FIFO" /\ queue' = queue /\ timers' = timers
        /\ worker' = [w \in Workers |-> IF w \in Started(ordering)
                                        THEN [worker[w] EXCEPT !.phase = "await"] ELSE worker[w]]
    BY <1>1, <1>0 DEF Subscribe, TypeOK
  <2>2. /\ \A w \in Workers : worker[w].phase = "off"
        /\ \A e \in Events : pub[e].state # "done"
    BY <2>1 DEF Unsubscribed
  <2>3. \A t \in Stores : Stored[t] = {}
    <3>1. \A t \in Stores : \A d \in Stored[t] : d.event \in Events
      BY <1>0, StoredType DEF Deliveries
    <3> QED
      BY <2>2, <3>1 DEF Placed, Accepted
  <2>4. Contents(queue) = {} /\ timers = {}
    BY <2>3, StoredAre DEF Stores
  <2>5. Started(ordering) = {FifoWorker}
    BY <2>1 DEF Started, FifoWorker
  <2> QED
    BY <1>0, <2>1, <2>2, <2>4, <2>5
<1> HIDE DEF Only, Fresh, NewFirst
<1>2. ASSUME ~(\E ordering \in Orderings : Subscribe(ordering))
      PROVE  broker.ordering = "FIFO"
  <2>1. ASSUME NEW w \in Workers, Working(w)
        PROVE  broker' = broker
    BY <2>1 DEF Working, Await, Process, Succeed, Park, BackOff, WakeUp, Interrupt
  <2>2. CASE StopBroker \/ Stopping
    BY <1>0, <2>2 DEF StopBroker, Stopping, CancelContext, StopConsumer, Broadcast, StopReturns,
                TypeOK
  <2> QED
    BY <1>2, <2>1, <2>2 DEF Next, Signal, Publishing, BeginPublish, TargetPublish, EnqueuePublish,
                Backoffs, Retry, DropRetry, Resubmit, Revive, vars
<1> SUFFICES ASSUME ~(\E ordering \in Orderings : Subscribe(ordering))
             PROVE  Only /\ timers' = {} /\ NewFirst /\ Fresh
  BY <1>1 DEF Only, Fresh, NewFirst
<1>3. /\ \A w \in Workers : worker[w].phase # "off" => w = FifoWorker
      /\ timers = {} /\ broker.ordering = "FIFO"
      /\ \A d \in Contents(queue) : d.attempts = 0
      /\ \A w \in Workers : worker[w].phase = "popped" => worker[w].delivery.attempts = 0
  BY <1>2 DEF OneAtATime
<1>4. ASSUME NEW w \in Workers, NEW p \in WorkerPhases, NEW d \in Deliveries, Turned(w, p, d),
             worker[w].phase # "off", p = "popped" => d.attempts = 0
      PROVE  Only /\ Fresh
  BY <1>3, <1>4 DEF Turned, Only, Fresh
<1>5. ASSUME Contents(queue') \subseteq Contents(queue)
      PROVE  NewFirst
  BY <1>3, <1>5 DEF NewFirst
<1>6. ASSUME worker' = worker
      PROVE  Only /\ Fresh
  BY <1>3, <1>6 DEF Only, Fresh
<1>7. {"await", "exited", "handling", "sleeping", "popped"} \subseteq WorkerPhases /\ NoDelivery \in Deliveries
  BY NoDeliveryType DEF WorkerPhases
<1>8. CASE Resting
  <2>1. queue' = queue /\ timers' = timers
    BY <1>8 DEF Resting, Subscribe, StopBroker, Stopping, CancelContext, StopConsumer, Broadcast,
                StopReturns, Signal, BeginPublish, TargetPublish, Await, vars, Quiet
  <2>2. ASSUME NEW v \in Workers
        PROVE  \/ worker'[v] = worker[v]
               \/ worker'[v].phase # "popped" /\ worker[v].phase # "off"
    <3>1. CASE Broadcast
      BY <1>0, <3>1 DEF Broadcast
    <3>2. CASE Signal
      BY <1>0, <3>2 DEF Signal
    <3>3. ASSUME NEW w \in Workers, Await(w), broker.consumerStopped \/ queue = <<>>
          PROVE  <2>2!2
      BY <1>0, <3>3 DEF Await
    <3>4. CASE worker' = worker
      BY <3>4
    <3> QED
      BY <1>8, <3>1, <3>2, <3>3, <3>4 DEF Resting, StopBroker, Stopping, CancelContext,
                StopConsumer, StopReturns, BeginPublish, TargetPublish, vars
  <2>3. Only /\ Fresh
    BY <1>3, <2>2 DEF Only, Fresh
  <2> QED
    BY <1>3, <1>5, <2>1, <2>3
<1>9. ASSUME NEW d \in Deliveries, Enqueue(d), d.attempts = 0
      PROVE  NewFirst
  <2>1. queue' = InsertAt(queue, Position(d), d) /\ Position(d) \in 1..(Len(queue) + 1)
    BY <1>0, <1>9, EnqueueTypes
  <2> DEFINE p == Position(d)
  <2> HIDE DEF p
  <2>2. queue' = InsertAt(queue, p, d) /\ p \in 1..(Len(queue) + 1)
    BY <2>1 DEF p
  <2>3. Contents(InsertAt(queue, p, d)) = Contents(queue) \cup {d}
    BY <1>0, <2>2, InsertContents
  <2>4. Contents(queue') = Contents(queue) \cup {d}
    BY <2>2, <2>3
  <2> QED
    BY <1>3, <1>9, <2>4 DEF NewFirst
<1>10. ASSUME NEW e \in Events, EnqueuePublish(e)
       PROVE  Only /\ timers' = {} /\ NewFirst /\ Fresh
  <2> DEFINE d == [event |-> e, attempts |-> 0, date |-> pub[e].date]
  <2>1. d \in Deliveries
    BY <1>0 DEF TypeOK, Deliveries
  <2>2. d.attempts = 0 /\ Enqueue(d) /\ worker' = worker /\ timers' = timers
    BY <1>10 DEF EnqueuePublish
  <2> HIDE DEF d
  <2> QED
    BY <1>3, <1>6, <1>9, <2>1, <2>2
<1>11. ASSUME NEW w \in Workers, Popping(w)
       PROVE  Only /\ timers' = {} /\ NewFirst /\ Fresh
  <2>1. Turned(w, "popped", Head(queue)) /\ queue' = Tail(queue) /\ timers' = timers
        /\ queue # <<>> /\ worker[w].phase # "off"
    BY <1>11, PopTrip DEF Popping, Await
  <2>2. Contents(Tail(queue)) = Contents(queue) \ {Head(queue)} /\ Head(queue) \in Deliveries
        /\ Head(queue) = queue[1] /\ 1 \in DOMAIN queue
    BY <1>0, <2>1, TailContents, TailElements DEF Placed, Distinct
  <2>3. Head(queue).attempts = 0
    BY <1>3, <2>2 DEF Contents
  <2>4. Contents(queue') \subseteq Contents(queue)
    BY <2>1, <2>2
  <2> QED
    BY <1>3, <1>4, <1>5, <1>7, <2>1, <2>2, <2>3, <2>4
<1>12. ASSUME NEW w \in Workers, Starting(w)
       PROVE  Only /\ timers' = {} /\ NewFirst /\ Fresh
  <2> DEFINE d == [worker[w].delivery EXCEPT !.attempts = @ + 1]
  <2>1. StartHandling(w) /\ queue' = queue /\ timers' = timers /\ worker[w].phase # "off"
    BY <1>12 DEF Starting, Process, WakeUp
  <2>2. Turned(w, "handling", d) /\ d \in Deliveries
    BY <1>0, <2>1, StartHandlingTurns
  <2> HIDE DEF d
  <2> QED
    BY <1>3, <1>4, <1>5, <1>7, <2>1, <2>2
<1>13. ASSUME NEW w \in Workers, Dropping(w) \/ Succeed(w) \/ Park(w)
       PROVE  Only /\ timers' = {} /\ NewFirst /\ Fresh
  <2>1. /\ Release(w, "exited") \/ Release(w, "await")
        /\ queue' = queue /\ timers' = timers /\ worker[w].phase # "off"
    BY <1>13 DEF Dropping, Process, Interrupt, Succeed, Park
  <2>2. Turned(w, "exited", NoDelivery) \/ Turned(w, "await", NoDelivery)
    BY <1>0, <1>7, <2>1, ReleaseTurns
  <2> QED
    BY <1>3, <1>4, <1>5, <1>7, <2>1, <2>2
<1>14. ASSUME NEW w \in Workers, BackOff(w)
       PROVE  Only /\ timers' = {} /\ NewFirst /\ Fresh
  <2>1. /\ worker' = [worker EXCEPT ![w].phase = "sleeping"] /\ timers' = timers
        /\ queue' = queue /\ worker[w].phase # "off"
    BY <1>3, <1>14 DEF BackOff
  <2>2. Turned(w, "sleeping", worker[w].delivery) /\ worker[w].delivery \in Deliveries
    BY <1>0, <1>7, <2>1, PhaseTurns
  <2> QED
    BY <1>3, <1>4, <1>5, <1>7, <2>1, <2>2
<1>15. ASSUME NEW i \in DOMAIN letters, Resubmit(i)
       PROVE  Only /\ timers' = {} /\ NewFirst /\ Fresh
  BY <1>3, <1>5, <1>6, <1>15 DEF Resubmit
<1>16. ASSUME NEW d \in reviving, Revive(d)
       PROVE  Only /\ timers' = {} /\ NewFirst /\ Fresh
  <2>1. d \in Deliveries /\ d \in Stored["reviving"]
    BY <1>0, StoredAre DEF TypeOK
  <2>2. d.attempts = 0
    BY <2>1 DEF Budgets, Fits, Stores
  <2> QED
    BY <1>3, <1>6, <1>9, <1>16, <2>1, <2>2 DEF Revive
<1> QED
  BY <1>3, <1>8, <1>10, <1>11, <1>12, <1>13, <1>14, <1>15, <1>16, StepCases

\* The order of the queue outlives an enqueue whose delivery nobody in it had to wait for.
LEMMA EnqueueInOrder ==
    ASSUME Placed, Sorted, Preceding, InOrder, broker.ordering = "FIFO", broker'.ordering = "FIFO",
           history'.preceded = history.preceded, history.parked \subseteq history'.parked,
           NEW d \in Deliveries, Enqueue(d), d.date = pub[d.event].date,
           pub[d.event].state = "done" => d.event \in history.parked
    PROVE  InOrder'
<1>0. /\ queue \in Seq(Deliveries) /\ TypeOK /\ d.event \in Events /\ d.date \in Nat
      /\ pub \in [Events -> [state : {"none", "dated", "targeted", "done", "unheard", "refused"},
                             date : Nat]]
  BY DEF Placed, TypeOK, Deliveries
<1>1. ASSUME NEW i \in DOMAIN queue
      PROVE  queue[i].event \in Events /\ queue[i].date = pub[queue[i].event].date
             /\ queue[i].date \in Nat
  <2>1. queue[i] \in Deliveries
    BY <1>0
  <2>2. queue[i] \in Stored["queue"]
    BY StoredAre DEF Contents
  <2> QED
    BY <2>1, <2>2 DEF Placed, Accepted, Deliveries, Stores
<1>2. PICK p \in DOMAIN queue' :
         /\ queue'[p] = d
         /\ \A i \in DOMAIN queue' :
              /\ i \in Int
              /\ i < p => i \in DOMAIN queue /\ queue'[i] = queue[i] /\ queue[i].date <= d.date
              /\ p < i => /\ i - 1 \in DOMAIN queue /\ queue'[i] = queue[i - 1]
                          /\ d.date < queue[i - 1].date
  BY <1>0, EnqueueOrder
<1>3. \A x, e \in Events : <<x, e>> \in history.preceded => pub[x].state = "done"
  BY DEF Preceding
<1>4. ASSUME NEW i \in DOMAIN queue, NEW j \in DOMAIN queue,
             queue[i].date = queue[j].date,
             <<queue[i].event, queue[j].event>> \in history.preceded,
             queue[i].event \notin history'.parked
      PROVE  i < j
  BY <1>4 DEF InOrder
<1>5. ASSUME NEW i \in DOMAIN queue', NEW j \in DOMAIN queue',
             queue'[i].date = queue'[j].date,
             <<queue'[i].event, queue'[j].event>> \in history.preceded,
             queue'[i].event \notin history'.parked
      PROVE  i < j
  <2>0. i \in Int /\ j \in Int /\ p \in Int
    BY <1>2
  <2>1. CASE i = p
    <3>1. d.event \notin history.parked /\ queue'[j].event \in Events
      BY <1>0, <1>1, <1>2, <1>5, <2>0, <2>1
    <3> QED
      BY <1>0, <1>2, <1>3, <1>5, <2>1, <3>1
  <2>2. CASE i < p
    <3>1. CASE j < p
      BY <1>2, <1>4, <1>5, <2>2, <3>1
    <3>2. CASE ~(j < p)
      BY <2>0, <2>2, <3>2
    <3> QED
      BY <3>1, <3>2
  <2>3. CASE p < i
    <3>1. /\ i - 1 \in DOMAIN queue /\ queue'[i] = queue[i - 1] /\ d.date < queue[i - 1].date
      BY <1>2, <2>3
    <3>2. CASE j = p
      BY <1>0, <1>1, <1>2, <1>5, <3>1, <3>2
    <3>3. CASE j < p
      <4>1. j \in DOMAIN queue /\ queue'[j] = queue[j] /\ queue[j].date <= d.date
        BY <1>2, <3>3
      <4>2. i - 1 < j
        BY <1>4, <1>5, <3>1, <4>1
      <4> QED
        BY <2>0, <2>3, <3>3, <4>2
    <3>4. CASE p < j
      <4>1. j - 1 \in DOMAIN queue /\ queue'[j] = queue[j - 1]
        BY <1>2, <3>4
      <4>2. i - 1 < j - 1
        BY <1>4, <1>5, <3>1, <4>1
      <4> QED
        BY <2>0, <4>2
    <3> QED
      BY <2>0, <3>2, <3>3, <3>4
  <2> QED
    BY <2>0, <2>1, <2>2, <2>3
<1> QED
  BY <1>5 DEF InOrder

LEMMA InOrderPreserved ==
    ASSUME Placed, Unsubscribed, Sorted, Preceding, Remembered, OneAtATime, InOrder, [Next]_vars
    PROVE  InOrder'
<1>0. queue \in Seq(Deliveries) /\ Len(queue) \in Nat /\ DOMAIN queue = 1..Len(queue) /\ TypeOK
  BY DEF Placed, TypeOK
<1>1. ASSUME NEW ordering \in Orderings, Subscribe(ordering)
      PROVE  InOrder'
  <2>1. ~broker.subscribed /\ queue' = queue
    BY <1>1 DEF Subscribe
  <2>2. \A e \in Events : pub[e].state # "done"
    BY <2>1 DEF Unsubscribed
  <2>3. ASSUME NEW i \in DOMAIN queue
        PROVE  FALSE
    <3>1. queue[i] \in Stored["queue"] /\ queue[i] \in Deliveries
      BY <1>0, StoredAre DEF Contents
    <3> QED
      BY <2>2, <3>1 DEF Placed, Accepted, Stores, Deliveries
  <2> QED
    BY <2>1, <2>3 DEF InOrder
<1>2. history.parked \subseteq history'.parked
  BY <1>0, HistoryGrows
<1>3. ASSUME ~(\E ordering \in Orderings : Subscribe(ordering))
      PROVE  broker'.ordering = broker.ordering
  <2>1. ASSUME NEW w \in Workers, Working(w)
        PROVE  broker' = broker
    BY <2>1 DEF Working, Await, Process, Succeed, Park, BackOff, WakeUp, Interrupt
  <2>2. CASE StopBroker \/ Stopping
    BY <1>0, <2>2 DEF StopBroker, Stopping, CancelContext, StopConsumer, Broadcast, StopReturns,
                TypeOK
  <2> QED
    BY <1>3, <2>1, <2>2 DEF Next, Signal, Publishing, BeginPublish, TargetPublish, EnqueuePublish,
                Backoffs, Retry, DropRetry, Resubmit, Revive, vars
<1>4. CASE broker'.ordering # "FIFO"
  BY <1>4 DEF InOrder
<1>5. CASE /\ ~(\E ordering \in Orderings : Subscribe(ordering))
           /\ broker'.ordering = "FIFO"
  <2>0. broker.ordering = "FIFO" /\ timers = {}
    BY <1>3, <1>5 DEF OneAtATime
  <2>1. ASSUME NEW i \in DOMAIN queue, NEW j \in DOMAIN queue,
               queue[i].date = queue[j].date,
               <<queue[i].event, queue[j].event>> \in history.preceded,
               queue[i].event \notin history'.parked
        PROVE  i < j
    BY <1>2, <2>0, <2>1 DEF InOrder
  <2>2. ASSUME NEW e \in Events, BeginPublish(e)
        PROVE  InOrder'
    <3>1. queue' = queue /\ pub[e].state = "none"
      BY <2>2 DEF BeginPublish
    <3>2. ASSUME NEW i \in DOMAIN queue
          PROVE  queue[i].event # e
      <4>1. queue[i] \in Stored["queue"]
        BY StoredAre DEF Contents
      <4> QED
        BY <3>1, <4>1 DEF Placed, Accepted, Stores
    <3>3. ASSUME NEW i \in DOMAIN queue, NEW j \in DOMAIN queue,
                 <<queue[i].event, queue[j].event>> \in history'.preceded
          PROVE  <<queue[i].event, queue[j].event>> \in history.preceded
      BY <1>0, <2>2, <3>2, <3>3 DEF BeginPublish, TypeOK
    <3> QED
      BY <2>1, <3>1, <3>3 DEF InOrder
  <2>3. CASE ~(\E e \in Events : BeginPublish(e))
    <3>0. history'.preceded = history.preceded
      BY <1>0, <2>3, HistoryGrows
    <3>1. CASE queue' = queue
      BY <2>1, <3>0, <3>1 DEF InOrder
    <3>2. CASE queue # <<>> /\ queue' = Tail(queue)
      <4>1. /\ Len(queue') = Len(queue) - 1 /\ queue' \in Seq(Deliveries)
            /\ \A i \in 1..(Len(queue) - 1) : queue'[i] = queue[i + 1]
        BY <1>0, <3>2, TailElements
      <4>2. ASSUME NEW i \in DOMAIN queue', NEW j \in DOMAIN queue',
                   queue'[i].date = queue'[j].date,
                   <<queue'[i].event, queue'[j].event>> \in history.preceded,
                   queue'[i].event \notin history'.parked
            PROVE  i < j
        <5>1. /\ i \in Int /\ j \in Int /\ i + 1 \in DOMAIN queue /\ j + 1 \in DOMAIN queue
              /\ queue'[i] = queue[i + 1] /\ queue'[j] = queue[j + 1]
          BY <1>0, <4>1
        <5>2. i + 1 < j + 1
          BY <2>1, <4>2, <5>1
        <5> QED
          BY <5>1, <5>2
      <4> QED
        BY <3>0, <4>2 DEF InOrder
    <3>3. ASSUME NEW e \in Events, EnqueuePublish(e)
          PROVE  InOrder'
      <4> DEFINE d == [event |-> e, attempts |-> 0, date |-> pub[e].date]
      <4>1. d \in Deliveries /\ d.event = e /\ d.date = pub[e].date
        BY <1>0 DEF TypeOK, Deliveries
      <4>2. Enqueue(d) /\ pub[e].state = "targeted"
        BY <3>3 DEF EnqueuePublish
      <4> HIDE DEF d
      <4> QED
        BY <1>2, <1>5, <2>0, <3>0, <4>1, <4>2, EnqueueInOrder
    <3>4. ASSUME NEW d \in reviving, Revive(d)
          PROVE  InOrder'
      <4>1. d \in Stored["reviving"] /\ d \in Deliveries
        BY <1>0, StoredAre DEF TypeOK
      <4>2. d.event \in history.parked /\ d.date = pub[d.event].date
        BY <4>1 DEF Remembered, Placed, Accepted, Stores
      <4> QED
        BY <1>2, <1>5, <2>0, <3>0, <3>4, <4>1, <4>2, EnqueueInOrder DEF Revive
    <3>5. \/ queue' = queue
          \/ queue # <<>> /\ queue' = Tail(queue)
          \/ \E e \in Events : EnqueuePublish(e)
          \/ \E d \in reviving : Revive(d)
      <4>1. ASSUME NEW w \in Workers, Working(w)
            PROVE  queue' = queue \/ (queue # <<>> /\ queue' = Tail(queue))
        BY <4>1 DEF Working, Await, Process, Succeed, Park, BackOff, WakeUp, Interrupt
      <4> QED
        BY <2>0, <4>1 DEF Next, Subscribe, StopBroker, Stopping, CancelContext, StopConsumer,
              Broadcast, StopReturns, Signal, Publishing, BeginPublish, TargetPublish, Backoffs,
              Resubmit, Quiet, vars
    <3> QED
      BY <3>1, <3>2, <3>3, <3>4, <3>5
  <2> QED
    BY <2>2, <2>3
<1> QED
  BY <1>1, <1>4, <1>5

-----------------------------------------------------------------------------
(* No wakeup is lost.                                                      *)

Awaiting == {w \in Workers : worker[w].phase = "await"}

LEMMA AwaitingFinite == IsFiniteSet(Awaiting) /\ Cardinality(Awaiting) \in Nat
<1>1. IsFiniteSet(Workers) /\ Awaiting \in SUBSET Workers
  BY BrokerAssumption DEF Awaiting
<1> QED
  BY <1>1, FS_Subset, FS_CardinalityType

\* A step that leaves the queue and the signals alone and stops nobody from awaiting.
LEMMA MoreAwaiting ==
    ASSUME TypeOK, NoReadyWorkBesideBlockedWorker, queue' = queue, signals' = signals,
           broker.consumerStopped => broker'.consumerStopped,
           \A v \in Workers : /\ worker[v].phase = "await" => worker'[v].phase = "await"
                              /\ worker'[v].phase = "waiting" => worker[v].phase = "waiting"
    PROVE  NoReadyWorkBesideBlockedWorker'
<1>1. Awaiting' = {w \in Workers : worker'[w].phase = "await"}
  BY DEF Awaiting
<1>2. IsFiniteSet(Awaiting')
  <2>1. IsFiniteSet(Workers) /\ Awaiting' \in SUBSET Workers
    BY <1>1, BrokerAssumption
  <2> QED
    BY <2>1, FS_Subset
<1>3. Awaiting \in SUBSET Awaiting'
  BY <1>1 DEF Awaiting
<1>4. Cardinality(Awaiting) <= Cardinality(Awaiting')
  BY <1>2, <1>3, FS_Subset
<1>5. Cardinality(Awaiting) \in Nat /\ Cardinality(Awaiting') \in Nat
  BY <1>2, AwaitingFinite, FS_CardinalityType
<1>6. Len(queue) \in Nat /\ signals \in Nat
  BY DEF TypeOK
<1>7. \/ \A w \in Workers : worker[w].phase # "waiting"
      \/ broker.consumerStopped
      \/ Len(queue) <= signals + Cardinality(Awaiting)
  BY DEF NoReadyWorkBesideBlockedWorker, Awaiting
<1>8. \/ \A w \in Workers : worker'[w].phase # "waiting"
      \/ broker'.consumerStopped
      \/ Len(queue') <= signals' + Cardinality(Awaiting')
  BY <1>4, <1>5, <1>6, <1>7
<1>9. Awaiting' = {w \in Workers : worker[w].phase = "await"}'
  BY <1>1
<1> QED
  BY <1>1, <1>8 DEF NoReadyWorkBesideBlockedWorker

\* Every enqueue leaves a wakeup for what it put in the queue.
LEMMA EnqueueWakes ==
    ASSUME TypeOK, NoReadyWorkBesideBlockedWorker, NEW d \in Deliveries, Enqueue(d),
           worker' = worker, broker' = broker
    PROVE  NoReadyWorkBesideBlockedWorker'
<1>1. Len(queue') = Len(queue) + 1 /\ signals' = signals + 1
  BY EnqueueTypes DEF Enqueue
<1>2. Len(queue) \in Nat /\ signals \in Nat /\ Cardinality(Awaiting) \in Nat
  BY AwaitingFinite DEF TypeOK
<1>3. Awaiting' = Awaiting
  BY DEF Awaiting
<1>4. \/ \A w \in Workers : worker[w].phase # "waiting"
      \/ broker.consumerStopped
      \/ Len(queue) <= signals + Cardinality(Awaiting)
  BY DEF NoReadyWorkBesideBlockedWorker, Awaiting
<1>5. \/ \A w \in Workers : worker'[w].phase # "waiting"
      \/ broker'.consumerStopped
      \/ Len(queue') <= signals' + Cardinality(Awaiting')
  BY <1>1, <1>2, <1>3, <1>4
<1> QED
  BY <1>5 DEF NoReadyWorkBesideBlockedWorker, Awaiting

LEMMA NoLostWakeup ==
    ASSUME TypeOK, Unsubscribed, NoReadyWorkBesideBlockedWorker, [Next]_vars
    PROVE  NoReadyWorkBesideBlockedWorker'
<1>0. /\ worker \in [Workers -> [phase : WorkerPhases, delivery : Deliveries]]
      /\ queue \in Seq(Deliveries) /\ Len(queue) \in Nat /\ signals \in Nat
      /\ IsFiniteSet(Awaiting) /\ Cardinality(Awaiting) \in Nat
  BY AwaitingFinite DEF TypeOK
<1>1. \/ \A w \in Workers : worker[w].phase # "waiting"
      \/ broker.consumerStopped
      \/ Len(queue) <= signals + Cardinality(Awaiting)
  BY DEF NoReadyWorkBesideBlockedWorker, Awaiting
<1>2. ASSUME \A w \in Workers : worker'[w].phase # "waiting"
      PROVE  NoReadyWorkBesideBlockedWorker'
  BY <1>2 DEF NoReadyWorkBesideBlockedWorker
<1>3. ASSUME broker'.consumerStopped
      PROVE  NoReadyWorkBesideBlockedWorker'
  BY <1>3 DEF NoReadyWorkBesideBlockedWorker
<1>4. ASSUME NEW ordering \in Orderings, Subscribe(ordering)
      PROVE  NoReadyWorkBesideBlockedWorker'
  <2>1. \A w \in Workers : worker'[w].phase # "waiting"
    BY <1>0, <1>4 DEF Subscribe, Unsubscribed
  <2> QED
    BY <1>2, <2>1
<1>5. CASE Broadcast
  <2>1. \A w \in Workers : worker'[w].phase # "waiting"
    BY <1>0, <1>5 DEF Broadcast
  <2> QED
    BY <1>2, <2>1
<1>6. CASE StopConsumer
  <2>1. broker'.consumerStopped
    BY <1>6 DEF StopConsumer, TypeOK
  <2> QED
    BY <1>3, <2>1
<1>7. CASE Signal
  <2>1. CASE \A w \in Workers : worker[w].phase # "waiting"
    <3>1. worker' = worker
      BY <1>7, <2>1 DEF Signal
    <3> QED
      BY <1>2, <2>1, <3>1
  <2>2. CASE \E w \in Workers : worker[w].phase = "waiting"
    <3>1. PICK w \in Workers : /\ worker[w].phase = "waiting"
                               /\ worker' = [worker EXCEPT ![w].phase = "await"]
      BY <1>7, <2>2 DEF Signal
    <3>2. signals > 0 /\ signals' = signals - 1 /\ queue' = queue /\ broker' = broker
      BY <1>7 DEF Signal
    <3>3. Awaiting' = Awaiting \cup {w} /\ w \notin Awaiting
      BY <1>0, <3>1 DEF Awaiting
    <3>4. Cardinality(Awaiting') = Cardinality(Awaiting) + 1
      BY <1>0, <3>3, FS_AddElement
    <3>5. \/ broker'.consumerStopped
          \/ Len(queue') <= signals' + Cardinality(Awaiting')
      BY <1>0, <1>1, <2>2, <3>2, <3>4
    <3> QED
      BY <3>5 DEF NoReadyWorkBesideBlockedWorker, Awaiting
  <2> QED
    BY <2>1, <2>2
<1>8. CASE StopBroker \/ CancelContext \/ StopReturns
  <2>1. queue' = queue /\ signals' = signals /\ worker' = worker
    BY <1>8 DEF StopBroker, CancelContext, StopReturns, Quiet
  <2>2. broker.consumerStopped => broker'.consumerStopped
    BY <1>8 DEF StopBroker, CancelContext, StopReturns, TypeOK
  <2> QED
    BY <2>1, <2>2, MoreAwaiting
<1>9. ASSUME queue' = queue, signals' = signals, worker' = worker, broker' = broker
      PROVE  NoReadyWorkBesideBlockedWorker'
  BY <1>9, MoreAwaiting
<1>10. ASSUME NEW e \in Events, Publishing(e)
       PROVE  NoReadyWorkBesideBlockedWorker'
  <2>1. CASE BeginPublish(e) \/ TargetPublish(e)
    BY <1>9, <2>1 DEF BeginPublish, TargetPublish
  <2>2. CASE EnqueuePublish(e)
    <3> DEFINE d == [event |-> e, attempts |-> 0, date |-> pub[e].date]
    <3>1. d \in Deliveries
      BY DEF TypeOK, Deliveries
    <3>2. Enqueue(d) /\ worker' = worker /\ broker' = broker
      BY <2>2 DEF EnqueuePublish
    <3> HIDE DEF d
    <3> QED
      BY <3>1, <3>2, EnqueueWakes
  <2> QED
    BY <1>10, <2>1, <2>2 DEF Publishing
<1>11. ASSUME NEW w \in Workers, Await(w)
       PROVE  NoReadyWorkBesideBlockedWorker'
  <2>1. CASE broker.consumerStopped
    BY <1>3, <1>11, <2>1 DEF Await
  <2>2. CASE ~broker.consumerStopped /\ queue = <<>>
    <3>1. queue' = <<>> /\ signals' = signals
      BY <1>11, <2>2 DEF Await
    <3>2. IsFiniteSet(Awaiting') /\ Cardinality(Awaiting') \in Nat
      <4>1. IsFiniteSet(Workers) /\ Awaiting' \in SUBSET Workers
        BY BrokerAssumption DEF Awaiting
      <4> QED
        BY <4>1, FS_Subset, FS_CardinalityType
    <3>3. Len(queue') <= signals' + Cardinality(Awaiting')
      BY <1>0, <3>1, <3>2
    <3> QED
      BY <3>3 DEF NoReadyWorkBesideBlockedWorker, Awaiting
  <2>3. CASE ~broker.consumerStopped /\ queue # <<>>
    <3>1. /\ worker[w].phase = "await" /\ queue' = Tail(queue) /\ signals' = signals
          /\ worker' = [worker EXCEPT ![w] = [phase |-> "popped", delivery |-> Head(queue)]]
      BY <1>11, <2>3 DEF Await
    <3>2. Len(queue') = Len(queue) - 1
      BY <1>0, <2>3, <3>1, TailElements
    <3>3. Awaiting' = Awaiting \ {w} /\ w \in Awaiting
      BY <1>0, <3>1 DEF Awaiting
    <3>4. Cardinality(Awaiting') = Cardinality(Awaiting) - 1
      BY <1>0, <3>3, FS_RemoveElement
    <3>5. CASE \A v \in Workers : worker[v].phase # "waiting"
      <4>1. \A v \in Workers : worker'[v].phase # "waiting"
        BY <1>0, <3>1, <3>5
      <4> QED
        BY <1>2, <4>1
    <3>6. CASE Len(queue) <= signals + Cardinality(Awaiting)
      <4>1. Len(queue') <= signals' + Cardinality(Awaiting')
        BY <1>0, <3>1, <3>2, <3>4, <3>6
      <4> QED
        BY <4>1 DEF NoReadyWorkBesideBlockedWorker, Awaiting
    <3> QED
      BY <1>1, <2>3, <3>5, <3>6
  <2> QED
    BY <2>1, <2>2, <2>3
<1>12. ASSUME NEW w \in Workers, Process(w) \/ Succeed(w) \/ Park(w) \/ BackOff(w) \/ WakeUp(w) \/ Interrupt(w)
       PROVE  NoReadyWorkBesideBlockedWorker'
  <2>1. /\ queue' = queue /\ signals' = signals /\ broker' = broker
        /\ worker[w].phase \in {"popped", "handling", "sleeping"}
    BY <1>12 DEF Process, Succeed, Park, BackOff, WakeUp, Interrupt
  <2>2. \/ Release(w, "exited") \/ Release(w, "await") \/ StartHandling(w)
        \/ worker' = [worker EXCEPT ![w].phase = "sleeping"]
    BY <1>12 DEF Process, Succeed, Park, BackOff, WakeUp, Interrupt
  <2>3. "exited" \in WorkerPhases /\ "await" \in WorkerPhases /\ "sleeping" \in WorkerPhases
    BY DEF WorkerPhases
  <2>4. /\ worker'[w].phase \in {"exited", "await", "handling", "sleeping"}
        /\ \A v \in Workers : v # w => worker'[v] = worker[v]
    <3>1. ASSUME NEW p \in {"exited", "await", "handling", "sleeping"}, NEW d, Turned(w, p, d)
          PROVE  /\ worker'[w].phase \in {"exited", "await", "handling", "sleeping"}
                 /\ \A v \in Workers : v # w => worker'[v] = worker[v]
      BY <3>1 DEF Turned
    <3>2. CASE Release(w, "exited") \/ Release(w, "await")
      BY <2>3, <3>1, <3>2, ReleaseTurns
    <3>3. CASE StartHandling(w)
      <4>1. Turned(w, "handling", [worker[w].delivery EXCEPT !.attempts = @ + 1])
        BY <3>3, StartHandlingTurns
      <4> DEFINE d == [worker[w].delivery EXCEPT !.attempts = @ + 1]
      <4>2. Turned(w, "handling", d)
        BY <4>1
      <4> HIDE DEF d
      <4> QED
        BY <3>1, <4>2
    <3>4. CASE worker' = [worker EXCEPT ![w].phase = "sleeping"]
      BY <2>3, <3>1, <3>4, PhaseTurns
    <3> QED
      BY <2>2, <3>2, <3>3, <3>4
  <2>5. \A v \in Workers : /\ worker[v].phase = "await" => worker'[v].phase = "await"
                           /\ worker'[v].phase = "waiting" => worker[v].phase = "waiting"
    BY <2>1, <2>4
  <2> QED
    BY <2>1, <2>5, MoreAwaiting
<1>13. ASSUME NEW d \in timers, Retry(d) \/ DropRetry(d)
       PROVE  NoReadyWorkBesideBlockedWorker'
  BY <1>9, <1>13, EnqueueWakes DEF Retry, DropRetry, TypeOK
<1>14. ASSUME NEW i \in DOMAIN letters, Resubmit(i)
       PROVE  NoReadyWorkBesideBlockedWorker'
  BY <1>9, <1>14 DEF Resubmit
<1>15. ASSUME NEW d \in reviving, Revive(d)
       PROVE  NoReadyWorkBesideBlockedWorker'
  BY <1>15, EnqueueWakes DEF Revive, TypeOK
<1>16. CASE UNCHANGED vars
  BY <1>9, <1>16 DEF vars
<1> QED
  BY <1>4, <1>5, <1>6, <1>7, <1>8, <1>10, <1>11, <1>12, <1>13, <1>14, <1>15, <1>16
  DEF Next, Stopping, Working, Backoffs

-----------------------------------------------------------------------------
(* The theorems.                                                           *)

LEMMA InitInv == Init => BrokerInv
<1> SUFFICES ASSUME Init PROVE BrokerInv
  OBVIOUS
<1>1. /\ signals = 0 /\ resubmits = 0
      /\ pub = [e \in Events |-> [state |-> "none", date |-> 0]]
      /\ queue = <<>> /\ letters = <<>> /\ timers = {} /\ reviving = {}
      /\ worker = [w \in Workers |-> [phase |-> "off", delivery |-> NoDelivery]]
      /\ broker = [subscribed |-> FALSE, ordering |-> "UNORDERED", stopped |-> FALSE,
                   cancelled |-> FALSE, consumerStopped |-> FALSE, broadcast |-> FALSE,
                   returned |-> FALSE]
      /\ history = [handled |-> {}, dropped |-> {}, parked |-> {}, preceded |-> {}]
  BY DEF Init
<1>2. TypeOK
  <2>1. worker \in [Workers -> [phase : WorkerPhases, delivery : Deliveries]]
    <3> DEFINE r == [phase |-> "off", delivery |-> NoDelivery]
    <3>1. r \in [phase : WorkerPhases, delivery : Deliveries]
      BY NoDeliveryType DEF WorkerPhases
    <3> HIDE DEF r
    <3>2. worker = [w \in Workers |-> r]
      BY <1>1 DEF r
    <3> QED
      BY <3>1, <3>2
  <2>2. pub \in [Events -> [state : {"none", "dated", "targeted", "done", "unheard", "refused"},
                            date : Nat]]
    BY <1>1
  <2>3. broker \in [subscribed : BOOLEAN, ordering : {"FIFO", "UNORDERED"}, stopped : BOOLEAN,
                    cancelled : BOOLEAN, consumerStopped : BOOLEAN, broadcast : BOOLEAN,
                    returned : BOOLEAN]
    BY <1>1
  <2>4. history \in [handled : SUBSET Events, dropped : SUBSET Events, parked : SUBSET Events,
                     preceded : SUBSET (Events \X Events)]
    BY <1>1
  <2>5. /\ signals \in Nat /\ resubmits \in Nat
        /\ queue \in Seq(Deliveries) /\ letters \in Seq(Deliveries)
        /\ timers \in SUBSET Deliveries /\ reviving \in SUBSET Deliveries
    BY <1>1
  <2> QED
    BY <2>1, <2>2, <2>3, <2>4, <2>5 DEF TypeOK
<1>3. \A w \in Workers : worker[w].phase = "off"
  BY <1>1
<1>4. Contents(queue) = {} /\ Contents(letters) = {} /\ Carried = {} /\ Handling = {} /\ Busy = {}
  BY <1>1, <1>3 DEF Contents, Carried, Handling, Busy, Holding
<1>5. \A t \in Stores : Stored[t] = {}
  BY <1>1, <1>4, StoredAre DEF Stores
<1>6. Placed
  <2>1. Accepted /\ Single
    BY <1>5 DEF Accepted, Single
  <2>2. Distinct
    BY <1>1, <1>4 DEF Distinct, NoRepeats
  <2>3. Kept
    BY <1>1 DEF Kept, Closed
  <2> QED
    BY <1>2, <2>1, <2>2, <2>3 DEF Placed
<1>7. Budgets /\ Remembered
  BY <1>5 DEF Budgets, Remembered, Stores
<1>8. Unsubscribed /\ StopOrder /\ Sorted /\ Preceding
  BY <1>1, <1>3 DEF Unsubscribed, StopOrder, Sorted, Preceding
<1>9. OneAtATime /\ InOrder
  BY <1>1 DEF OneAtATime, InOrder
<1>10. NoReadyWorkBesideBlockedWorker
  BY <1>3 DEF NoReadyWorkBesideBlockedWorker
<1> QED
  BY <1>6, <1>7, <1>8, <1>9, <1>10 DEF BrokerInv

\* The invariant of the broker.
LEMMA BrokerInvariant == Spec => []BrokerInv
<1>1. BrokerInv /\ [Next]_vars => BrokerInv'
  BY PlacedPreserved, BudgetsPreserved, RememberedPreserved, StagesPreserved, SortedPreserved,
     PrecedingPreserved, OneAtATimePreserved, InOrderPreserved, NoLostWakeup DEF BrokerInv, Placed
<1> QED
  BY InitInv, <1>1, PTL DEF Spec

\* The variables have their types, whatever the consumers, the publishers and Stop do.
THEOREM TypeCorrect == Spec => []TypeOK
<1>1. BrokerInv => TypeOK
  BY DEF BrokerInv, Placed
<1> QED
  BY BrokerInvariant, <1>1, PTL

\* No wakeup is lost: while a worker is blocked in ready.Wait and the consumer runs, there is
\* a Signal to come or a worker about to look for every delivery in the queue.
THEOREM EnqueuesAreObserved == Spec => []NoReadyWorkBesideBlockedWorker
<1>1. BrokerInv => NoReadyWorkBesideBlockedWorker
  BY DEF BrokerInv
<1> QED
  BY BrokerInvariant, <1>1, PTL

\* A worker that goes from await to a delivery has popped the head of the queue.
LEMMA PoppedIsHead ==
    ASSUME TypeOK, [Next]_vars, NEW w \in Workers,
           worker[w].phase = "await", worker'[w].phase = "popped"
    PROVE  /\ queue # <<>> /\ queue' = Tail(queue) /\ worker'[w].delivery = Head(queue)
           /\ broker' = broker /\ history' = history
<1>0. worker \in [Workers -> [phase : WorkerPhases, delivery : Deliveries]]
  BY DEF TypeOK
<1>1. worker' # worker
  OBVIOUS
<1>2. ASSUME NEW ordering \in Orderings, Subscribe(ordering)
      PROVE  FALSE
  BY <1>0, <1>2 DEF Subscribe
<1>3. ~Broadcast
  BY <1>0 DEF Broadcast
<1>4. ~Signal
  BY <1>0 DEF Signal
<1>5. ASSUME NEW v \in Workers, Process(v) \/ Succeed(v) \/ Park(v) \/ BackOff(v) \/ WakeUp(v) \/ Interrupt(v)
      PROVE  FALSE
  <2>1. worker[v].phase # "await"
    BY <1>5 DEF Process, Succeed, Park, BackOff, WakeUp, Interrupt
  <2>2. worker'[w] = worker[w]
    BY <1>0, <1>5, <2>1 DEF Process, Succeed, Park, BackOff, WakeUp, Interrupt, Release, StartHandling
  <2> QED
    BY <2>2
<1>6. ASSUME NEW v \in Workers, Await(v)
      PROVE  /\ queue # <<>> /\ queue' = Tail(queue) /\ worker'[w].delivery = Head(queue)
             /\ broker' = broker /\ history' = history
  <2>1. v = w
    BY <1>0, <1>6 DEF Await
  <2>2. /\ queue # <<>> /\ queue' = Tail(queue)
        /\ worker' = [worker EXCEPT ![w] = [phase |-> "popped", delivery |-> Head(queue)]]
    BY <1>0, <1>6, <2>1 DEF Await
  <2>3. broker' = broker /\ history' = history
    BY <1>6 DEF Await
  <2> QED
    BY <1>0, <2>2, <2>3
<1> QED
  BY <1>1, <1>2, <1>3, <1>4, <1>5, <1>6 DEF Next, StopBroker, Stopping, CancelContext, StopConsumer,
     StopReturns, Publishing, BeginPublish, TargetPublish, EnqueuePublish, Working, Backoffs, Retry,
     DropRetry, Resubmit, Revive, vars

\* FIFO: no event overtakes one that precedes it, by the dates the wall clock gave them or,
\* within one date, by the order of the Publish calls; a dead letter is put back among the
\* others by its date.
THEOREM FifoKeepsPublishOrder == Spec => FifoInPublishOrder
<1>1. ASSUME BrokerInv, [Next]_vars, NEW w \in Workers,
             worker[w].phase = "await", worker'[w].phase = "popped",
             NEW i \in DOMAIN queue', Precedes(queue'[i].event, worker'[w].delivery.event)
      PROVE  broker.ordering = "UNORDERED"
  <2>1. /\ queue # <<>> /\ queue' = Tail(queue) /\ worker'[w].delivery = Head(queue)
        /\ queue \in Seq(Deliveries) /\ broker.ordering \in {"FIFO", "UNORDERED"}
    BY <1>1, PoppedIsHead DEF BrokerInv, Placed, TypeOK
  <2>2. /\ i \in Int /\ i > 0 /\ i + 1 \in DOMAIN queue /\ 1 \in DOMAIN queue
        /\ queue'[i] = queue[i + 1] /\ Head(queue) = queue[1]
    BY <2>1, TailElements
  <2>3. ASSUME NEW k \in DOMAIN queue
        PROVE  queue[k].date = pub[queue[k].event].date /\ queue[k].date \in Nat
    <3>1. queue[k] \in Deliveries
      BY <2>1
    <3>2. queue[k] \in Stored["queue"]
      BY StoredAre DEF Contents
    <3> QED
      BY <1>1, <3>1, <3>2 DEF BrokerInv, Placed, Accepted, Deliveries, Stores
  <2>4. 1 < i + 1 /\ ~(i + 1 < 1)
    BY <2>2
  <2>5. queue[1].date <= queue[i + 1].date
    BY <1>1, <2>2, <2>4 DEF BrokerInv, Sorted
  <2>6. Precedes(queue[i + 1].event, queue[1].event)
    BY <1>1, <2>1, <2>2
  <2>7. /\ queue[i + 1].date = queue[1].date
        /\ <<queue[i + 1].event, queue[1].event>> \in history.preceded
        /\ queue[i + 1].event \notin history.parked
    BY <2>2, <2>3, <2>5, <2>6 DEF Precedes
  <2>8. broker.ordering # "FIFO"
    BY <1>1, <2>2, <2>4, <2>7 DEF BrokerInv, InOrder
  <2> QED
    BY <2>1, <2>8
<1>2. BrokerInv /\ [Next]_vars =>
        [\A w \in Workers :
           worker[w].phase = "await" /\ worker'[w].phase = "popped"
           => \A i \in DOMAIN queue' :
                Precedes(queue'[i].event, worker'[w].delivery.event)
                => broker.ordering = "UNORDERED"]_vars
  BY <1>1
<1> QED
  BY BrokerInvariant, <1>2, PTL DEF Spec, FifoInPublishOrder

\* A set without two different elements.
LEMMA OneOrNone ==
    ASSUME NEW S, \A x, y \in S : x = y
    PROVE  Cardinality(S) = IF S = {} THEN 0 ELSE 1
<1>1. CASE S = {}
  BY <1>1, FS_EmptySet
<1>2. CASE S # {}
  <2>1. PICK x : x \in S
    BY <1>2
  <2>2. S = {x}
    BY <2>1
  <2> QED
    BY <1>2, <2>2, FS_Singleton
<1> QED
  BY <1>1, <1>2

\* Event e has a delivery at place t.
Has(t, e) == \E d \in Stored[t] : d.event = e

\* How often each place counts event e.
LEMMA PlaceCounts ==
    ASSUME Placed, NEW e \in Events
    PROVE  /\ Cardinality({i \in DOMAIN queue : queue[i].event = e}) = (IF Has("queue", e) THEN 1 ELSE 0)
           /\ Cardinality({i \in DOMAIN letters : letters[i].event = e})
                = (IF Has("letters", e) THEN 1 ELSE 0)
           /\ Cardinality({w \in Workers : /\ worker[w].phase \in {"popped", "handling", "sleeping"}
                                           /\ worker[w].delivery.event = e})
                = (IF Has("carried", e) \/ Has("handling", e) THEN 1 ELSE 0)
           /\ Cardinality({d \in timers : d.event = e}) = (IF Has("timers", e) THEN 1 ELSE 0)
           /\ Cardinality({d \in reviving : d.event = e}) = (IF Has("reviving", e) THEN 1 ELSE 0)
<1>1. Cardinality({i \in DOMAIN queue : queue[i].event = e}) = (IF Has("queue", e) THEN 1 ELSE 0)
  <2> DEFINE S == {i \in DOMAIN queue : queue[i].event = e}
  <2>1. \A x, y \in S : x = y
    BY DEF Placed, Distinct, NoRepeats
  <2>2. S = {} <=> ~Has("queue", e)
    BY StoredAre DEF Has, Contents
  <2> HIDE DEF S
  <2>3. Cardinality(S) = (IF Has("queue", e) THEN 1 ELSE 0)
    BY <2>1, <2>2, OneOrNone
  <2> QED
    BY <2>3 DEF S
<1>2. Cardinality({i \in DOMAIN letters : letters[i].event = e}) = (IF Has("letters", e) THEN 1 ELSE 0)
  <2> DEFINE S == {i \in DOMAIN letters : letters[i].event = e}
  <2>1. \A x, y \in S : x = y
    BY DEF Placed, Distinct, NoRepeats
  <2>2. S = {} <=> ~Has("letters", e)
    BY StoredAre DEF Has, Contents
  <2> HIDE DEF S
  <2>3. Cardinality(S) = (IF Has("letters", e) THEN 1 ELSE 0)
    BY <2>1, <2>2, OneOrNone
  <2> QED
    BY <2>3 DEF S
<1>3. Cardinality({w \in Workers : /\ worker[w].phase \in {"popped", "handling", "sleeping"}
                                   /\ worker[w].delivery.event = e})
        = (IF Has("carried", e) \/ Has("handling", e) THEN 1 ELSE 0)
  <2> DEFINE S == {w \in Workers : /\ worker[w].phase \in {"popped", "handling", "sleeping"}
                                   /\ worker[w].delivery.event = e}
  <2>1. \A x, y \in S : x = y
    BY DEF Placed, Distinct, Busy, Holding
  <2>2. S = {} <=> ~(Has("carried", e) \/ Has("handling", e))
    BY StoredAre DEF Has, Carried, Handling
  <2> HIDE DEF S
  <2>3. Cardinality(S) = (IF Has("carried", e) \/ Has("handling", e) THEN 1 ELSE 0)
    BY <2>1, <2>2, OneOrNone
  <2> QED
    BY <2>3 DEF S
<1>4. Cardinality({d \in timers : d.event = e}) = (IF Has("timers", e) THEN 1 ELSE 0)
  <2> DEFINE S == {d \in timers : d.event = e}
  <2>1. \A x, y \in S : x = y
    BY StoredAre DEF Placed, Single, Stores
  <2>2. S = {} <=> ~Has("timers", e)
    BY StoredAre DEF Has
  <2> HIDE DEF S
  <2>3. Cardinality(S) = (IF Has("timers", e) THEN 1 ELSE 0)
    BY <2>1, <2>2, OneOrNone
  <2> QED
    BY <2>3 DEF S
<1>5. Cardinality({d \in reviving : d.event = e}) = (IF Has("reviving", e) THEN 1 ELSE 0)
  <2> DEFINE S == {d \in reviving : d.event = e}
  <2>1. \A x, y \in S : x = y
    BY StoredAre DEF Placed, Single, Stores
  <2>2. S = {} <=> ~Has("reviving", e)
    BY StoredAre DEF Has
  <2> HIDE DEF S
  <2>3. Cardinality(S) = (IF Has("reviving", e) THEN 1 ELSE 0)
    BY <2>1, <2>2, OneOrNone
  <2> QED
    BY <2>3 DEF S
<1> QED
  BY <1>1, <1>2, <1>3, <1>4, <1>5

LEMMA PlacedOnce == Placed => ExactlyOnePlace
<1> SUFFICES ASSUME Placed, NEW e \in Events
             PROVE  Places(e) = IF pub[e].state = "done" THEN 1 ELSE 0
  BY DEF ExactlyOnePlace
<1> DEFINE q == Cardinality({i \in DOMAIN queue : queue[i].event = e})
           l == Cardinality({i \in DOMAIN letters : letters[i].event = e})
           b == Cardinality({w \in Workers : /\ worker[w].phase \in {"popped", "handling", "sleeping"}
                                             /\ worker[w].delivery.event = e})
           t == Cardinality({d \in timers : d.event = e})
           r == Cardinality({d \in reviving : d.event = e})
           h == IF e \in history.handled THEN 1 ELSE 0
           g == IF e \in history.dropped THEN 1 ELSE 0
<1>1. Places(e) = q + l + b + t + r + h + g
  BY DEF Places
<1>2. /\ q = (IF Has("queue", e) THEN 1 ELSE 0)
      /\ l = (IF Has("letters", e) THEN 1 ELSE 0)
      /\ b = (IF Has("carried", e) \/ Has("handling", e) THEN 1 ELSE 0)
      /\ t = (IF Has("timers", e) THEN 1 ELSE 0)
      /\ r = (IF Has("reviving", e) THEN 1 ELSE 0)
  BY PlaceCounts
<1> HIDE DEF q, l, b, t, r
<1>3. ASSUME NEW u \in Stores, Has(u, e)
      PROVE  /\ pub[e].state = "done" /\ e \notin Closed
             /\ \A v \in Stores : Has(v, e) => u = v
  BY <1>3 DEF Has, Placed, Accepted, Single
<1>4. (e \in history.handled \/ e \in history.dropped) <=> e \in Closed
  BY DEF Closed
<1>5. ~(e \in history.handled /\ e \in history.dropped)
  BY DEF Placed, Kept
<1>6. e \in Closed => pub[e].state = "done"
  BY DEF Placed, Kept
<1>7. pub[e].state = "done" => e \in Closed \/ \E u \in Stores : Has(u, e)
  BY DEF Placed, Kept, Has
<1>8. CASE \E u \in Stores : Has(u, e)
  <2>1. PICK u \in Stores : Has(u, e)
    BY <1>8
  <2>2. h = 0 /\ g = 0 /\ pub[e].state = "done"
    BY <1>3, <1>4, <2>1
  <2>3. \A v \in Stores : Has(v, e) <=> u = v
    BY <1>3, <2>1
  <2>4. q + l + b + t + r = 1
    BY <1>2, <2>1, <2>3 DEF Stores
  <2> HIDE DEF h, g
  <2> QED
    BY <1>1, <1>2, <2>2, <2>4
<1>9. CASE ~(\E u \in Stores : Has(u, e))
  <2>1. q = 0 /\ l = 0 /\ b = 0 /\ t = 0 /\ r = 0
    BY <1>2, <1>9 DEF Stores
  <2>2. h + g = IF pub[e].state = "done" THEN 1 ELSE 0
    BY <1>4, <1>5, <1>6, <1>7, <1>9
  <2>3. h \in Nat /\ g \in Nat
    OBVIOUS
  <2> HIDE DEF h, g
  <2>4. Places(e) = h + g
    BY <1>1, <2>1, <2>3
  <2> QED
    BY <2>2, <2>4
<1> QED
  BY <1>8, <1>9

\* Exactly once: an accepted event is in exactly one place, in the queue, with a worker, in a
\* backoff, parked, being resubmitted or settled, whatever retries, resubmissions and Stop
\* overlap.
THEOREM ExactlyOnce == Spec => []ExactlyOnePlace
<1>1. BrokerInv => ExactlyOnePlace
  BY PlacedOnce DEF BrokerInv
<1> QED
  BY BrokerInvariant, <1>1, PTL

-----------------------------------------------------------------------------
(* The contract of the Broker interface.                                   *)

\* The place of a delivery in the words of the contract.
PlaceName(t) == IF t = "letters" THEN "parked" ELSE IF t = "handling" THEN "handling" ELSE "pending"

\* Where the contract has an event that is nowhere.
Settlement(e) == IF pub[e].state # "done" THEN "unpublished"
                 ELSE IF e \in history.handled THEN "handled" ELSE "given up"

\* The contract's variables are those of the one delivery of an event.
Views ==
    \A e \in Events :
        /\ \A t \in Stores : \A d \in Stored[t] :
             d.event = e => EventPlace[e] = PlaceName(t) /\ Spent[e] = d.attempts
        /\ (\A t \in Stores : \A d \in Stored[t] : d.event # e)
             => EventPlace[e] = Settlement(e) /\ Spent[e] = 0

LEMMA HeldIsStored ==
    ASSUME NEW e
    PROVE  \A d : d \in Held(e) <=> d.event = e /\ \E t \in Stores : d \in Stored[t]
<1>1. \A d : d \in Held(e) <=> /\ d.event = e
                               /\ \/ d \in timers \/ d \in reviving
                                  \/ d \in Contents(queue) \/ d \in Contents(letters)
                                  \/ \E v \in Workers : /\ worker[v].phase \in Holding
                                                        /\ d = worker[v].delivery
  BY DEF Held, Contents, Holding
<1>2. \A d : (\E v \in Workers : worker[v].phase \in Holding /\ d = worker[v].delivery)
             <=> d \in Carried \/ d \in Handling
  BY DEF Carried, Handling, Holding
<1>3. \A d : (\E t \in Stores : d \in Stored[t])
             <=> \/ d \in timers \/ d \in reviving \/ d \in Contents(queue)
                 \/ d \in Contents(letters) \/ d \in Carried \/ d \in Handling
  BY StoredAre DEF Stores
<1> QED
  BY <1>1, <1>2, <1>3

LEMMA PlaceIsStored ==
    ASSUME NEW e \in Events
    PROVE  EventPlace[e] = IF pub[e].state # "done" THEN "unpublished"
                           ELSE IF e \in history.handled THEN "handled"
                           ELSE IF e \in history.dropped THEN "given up"
                           ELSE IF Has("letters", e) THEN "parked"
                           ELSE IF Has("handling", e) THEN "handling" ELSE "pending"
<1>1. (\E i \in DOMAIN letters : letters[i].event = e) <=> Has("letters", e)
  BY StoredAre DEF Has, Contents
<1>2. (\E w \in Workers : worker[w].phase = "handling" /\ worker[w].delivery.event = e)
      <=> Has("handling", e)
  BY StoredAre DEF Has, Handling
<1>3. EventPlace[e] = Place(e)
  BY DEF EventPlace
<1> QED
  BY <1>1, <1>2, <1>3 DEF Place

LEMMA ViewsHold == Placed => Views
<1> SUFFICES ASSUME Placed, NEW e \in Events
             PROVE  /\ \A t \in Stores : \A d \in Stored[t] :
                         d.event = e => EventPlace[e] = PlaceName(t) /\ Spent[e] = d.attempts
                    /\ (\A t \in Stores : \A d \in Stored[t] : d.event # e)
                         => EventPlace[e] = Settlement(e) /\ Spent[e] = 0
  BY DEF Views
<1>1. Spent[e] = IF Held(e) = {} THEN 0 ELSE (CHOOSE d \in Held(e) : TRUE).attempts
  BY DEF Spent
<1>2. ASSUME NEW t \in Stores, NEW d \in Stored[t], d.event = e
      PROVE  EventPlace[e] = PlaceName(t) /\ Spent[e] = d.attempts
  <2>1. d \in Held(e)
    BY <1>2, HeldIsStored
  <2>2. \A c \in Held(e) : c = d
    BY <1>2, HeldIsStored DEF Placed, Single
  <2>3. Held(e) # {} /\ (CHOOSE c \in Held(e) : TRUE) = d
    <3>1. Held(e) # {}
      BY <2>1
    <3>2. (CHOOSE c \in Held(e) : TRUE) \in Held(e)
      BY <2>1
    <3> QED
      BY <2>2, <3>1, <3>2
  <2>4. Spent[e] = d.attempts
    BY <1>1, <2>3
  <2>5. pub[e].state = "done" /\ e \notin history.handled /\ e \notin history.dropped
    BY <1>2 DEF Placed, Accepted, Closed
  <2>6. Has("letters", e) <=> t = "letters"
    BY <1>2 DEF Has, Placed, Single, Stores
  <2>7. Has("handling", e) <=> t = "handling"
    BY <1>2 DEF Has, Placed, Single, Stores
  <2>8. EventPlace[e] = PlaceName(t)
    BY <2>5, <2>6, <2>7, PlaceIsStored DEF PlaceName
  <2> QED
    BY <2>4, <2>8
<1>3. ASSUME \A t \in Stores : \A d \in Stored[t] : d.event # e
      PROVE  EventPlace[e] = Settlement(e) /\ Spent[e] = 0
  <2>1. Held(e) = {}
    BY <1>3, HeldIsStored
  <2>2. Spent[e] = 0
    BY <1>1, <2>1
  <2>3. ~Has("letters", e) /\ ~Has("handling", e)
    BY <1>3 DEF Has, Stores
  <2>4. pub[e].state = "done" => e \in history.handled \/ e \in history.dropped
    BY <1>3 DEF Placed, Kept, Closed
  <2>5. EventPlace[e] = Settlement(e)
    BY <2>3, <2>4, PlaceIsStored DEF Settlement
  <2> QED
    BY <2>2, <2>5
<1> QED
  BY <1>2, <1>3

LEMMA ViewsHoldNext == Placed' => Views'
  BY ViewsHold, PTL

\* The contract's variables are functions of the events.
LEMMA ViewDomains ==
    /\ EventPlace = [e \in Events |-> EventPlace[e]] /\ EventPlace' = [e \in Events |-> EventPlace'[e]]
    /\ Spent = [e \in Events |-> Spent[e]] /\ Spent' = [e \in Events |-> Spent'[e]]
  BY DEF EventPlace, Spent

\* An event whose deliveries stay where they are stays where it is.
LEMMA ViewStays ==
    ASSUME Placed, Placed', NEW x \in Events,
           \A u \in Stores : \A y : y.event = x => (y \in Stored'[u] <=> y \in Stored[u]),
           Settlement(x)' = Settlement(x)
    PROVE  EventPlace'[x] = EventPlace[x] /\ Spent'[x] = Spent[x]
<1>0. Views /\ Views'
  BY ViewsHold, ViewsHoldNext
<1>1. CASE \E u \in Stores : \E y \in Stored[u] : y.event = x
  <2>0. PICK u \in Stores : \E y \in Stored[u] : y.event = x
    BY <1>1
  <2>1. PICK y \in Stored[u] : y.event = x
    BY <2>0
  <2>2. y \in Stored'[u]
    BY <2>1
  <2>3. EventPlace[x] = PlaceName(u) /\ Spent[x] = y.attempts
    BY <1>0, <2>1 DEF Views
  <2>4. EventPlace'[x] = PlaceName(u) /\ Spent'[x] = y.attempts
    BY <1>0, <2>1, <2>2 DEF Views, PlaceName
  <2> QED
    BY <2>3, <2>4
<1>2. CASE \A u \in Stores : \A y \in Stored[u] : y.event # x
  <2>1. \A u \in Stores : \A y \in Stored'[u] : y.event # x
    BY <1>2
  <2>2. EventPlace[x] = Settlement(x) /\ Spent[x] = 0
    BY <1>0, <1>2 DEF Views
  <2>3. EventPlace'[x] = Settlement(x)' /\ Spent'[x] = 0
    BY <1>0, <2>1 DEF Views
  <2> QED
    BY <2>2, <2>3
<1> QED
  BY <1>1, <1>2

\* What a journey looks like.
LEMMA JourneyView ==
    ASSUME Placed, Placed', NEW s, NEW c, NEW t, NEW d, Journey(s, c, t, d),
           NEW e \in Events, e = c.event
    PROVE  /\ EventPlace[e] = PlaceName(s) /\ Spent[e] = c.attempts
           /\ EventPlace' = [EventPlace EXCEPT ![e] = PlaceName(t)]
           /\ Spent' = [Spent EXCEPT ![e] = d.attempts]
<1>0. Views /\ Views'
  BY ViewsHold, ViewsHoldNext
<1>1. /\ s \in Stores /\ t \in Stores /\ c \in Stored[s] /\ d \in Stored'[t] /\ d.event = e
      /\ pub' = pub /\ history'.handled = history.handled
  BY DEF Journey
<1>2. EventPlace[e] = PlaceName(s) /\ Spent[e] = c.attempts
  BY <1>0, <1>1 DEF Views
<1>3. EventPlace'[e] = PlaceName(t) /\ Spent'[e] = d.attempts
  <2>1. \A x \in Events : \A u \in Stores : \A y \in Stored'[u] :
           y.event = x => EventPlace'[x] = PlaceName(u) /\ Spent'[x] = y.attempts
    BY <1>0 DEF Views, PlaceName
  <2> QED
    BY <1>1, <2>1
<1>4. ASSUME NEW x \in Events, x # e
      PROVE  EventPlace'[x] = EventPlace[x] /\ Spent'[x] = Spent[x]
  <2>1. \A u \in Stores : \A y : y.event = x => (y \in Stored'[u] <=> y \in Stored[u])
    BY <1>1, <1>4 DEF Journey
  <2>2. Settlement(x)' = Settlement(x)
    BY <1>1 DEF Settlement
  <2> QED
    BY <2>1, <2>2, ViewStays
<1>5. EventPlace' = [EventPlace EXCEPT ![e] = PlaceName(t)]
  BY <1>3, <1>4, ViewDomains
<1>6. Spent' = [Spent EXCEPT ![e] = d.attempts]
  BY <1>3, <1>4, ViewDomains
<1> QED
  BY <1>2, <1>5, <1>6

\* What the end of a delivery looks like.
LEMMA EndingView ==
    ASSUME Placed, Placed', NEW s, NEW c, Ending(s, c), NEW e \in Events, e = c.event
    PROVE  /\ EventPlace[e] = PlaceName(s) /\ Spent[e] = c.attempts
           /\ EventPlace' = [EventPlace EXCEPT ![e] = IF e \in history'.handled THEN "handled"
                                                      ELSE "given up"]
           /\ Spent' = [Spent EXCEPT ![e] = 0]
<1>0. Views /\ Views'
  BY ViewsHold, ViewsHoldNext
<1>1. s \in Stores /\ c \in Stored[s] /\ pub' = pub
  BY DEF Ending
<1>2. EventPlace[e] = PlaceName(s) /\ Spent[e] = c.attempts
  BY <1>0, <1>1 DEF Views
<1>3. ASSUME NEW u \in Stores, NEW y \in Stored'[u]
      PROVE  y.event # e
  <2>1. y \in Stored[u] /\ (u = s => y # c)
    BY DEF Ending
  <2> QED
    BY <1>1, <2>1 DEF Placed, Single
<1>4. EventPlace'[e] = Settlement(e)' /\ Spent'[e] = 0
  BY <1>0, <1>3 DEF Views
<1>5. pub[e].state = "done"
  BY <1>1 DEF Placed, Accepted
<1>6. Settlement(e)' = IF e \in history'.handled THEN "handled" ELSE "given up"
  BY <1>1, <1>5 DEF Settlement
<1>7. ASSUME NEW x \in Events, x # e
      PROVE  EventPlace'[x] = EventPlace[x] /\ Spent'[x] = Spent[x]
  <2>1. \A u \in Stores : \A y : y.event = x => (y \in Stored'[u] <=> y \in Stored[u])
    BY <1>7 DEF Ending
  <2>2. x \in history'.handled <=> x \in history.handled
    BY <1>7 DEF Ending
  <2>3. Settlement(x)' = Settlement(x)
    BY <1>1, <2>2 DEF Settlement
  <2> QED
    BY <2>1, <2>3, ViewStays
<1>8. EventPlace' = [EventPlace EXCEPT ![e] = IF e \in history'.handled THEN "handled"
                                              ELSE "given up"]
  BY <1>4, <1>6, <1>7, ViewDomains
<1>9. Spent' = [Spent EXCEPT ![e] = 0]
  BY <1>4, <1>7, ViewDomains
<1> QED
  BY <1>2, <1>8, <1>9

\* What the arrival of an event looks like.
LEMMA ArrivalView ==
    ASSUME Placed, Placed', NEW e, NEW d, Arrival(e, d), d.attempts = 0
    PROVE  /\ EventPlace[e] = "unpublished"
           /\ EventPlace' = [EventPlace EXCEPT ![e] = "pending"]
           /\ Spent' = Spent
<1>0. Views /\ Views'
  BY ViewsHold, ViewsHoldNext
<1>1. /\ e \in Events /\ d.event = e /\ d \in Stored'["queue"]
      /\ pub[e].state = "targeted" /\ "queue" \in Stores
      /\ history'.handled = history.handled
  BY DEF Arrival, Stores
<1>2. \A u \in Stores : \A y \in Stored[u] : y.event # e
  BY <1>1 DEF Placed, Accepted
<1>3. EventPlace[e] = "unpublished" /\ Spent[e] = 0
  BY <1>0, <1>1, <1>2 DEF Views, Settlement
<1>4. EventPlace'[e] = "pending" /\ Spent'[e] = 0
  <2>1. \A u \in Stores : \A y \in Stored'[u] :
           y.event = e => EventPlace'[e] = PlaceName(u) /\ Spent'[e] = y.attempts
    BY <1>0, <1>1 DEF Views, PlaceName
  <2> QED
    BY <1>1, <2>1 DEF PlaceName
<1>5. ASSUME NEW x \in Events, x # e
      PROVE  EventPlace'[x] = EventPlace[x] /\ Spent'[x] = Spent[x]
  <2>1. \A u \in Stores : \A y : y.event = x => (y \in Stored'[u] <=> y \in Stored[u])
    BY <1>1, <1>5 DEF Arrival
  <2>2. pub'[x] = pub[x]
    BY <1>1, <1>5 DEF Arrival, Placed, TypeOK
  <2>3. Settlement(x)' = Settlement(x)
    BY <1>1, <2>2 DEF Settlement
  <2> QED
    BY <2>1, <2>3, ViewStays
<1>6. EventPlace' = [EventPlace EXCEPT ![e] = "pending"]
  BY <1>4, <1>5, ViewDomains
<1>7. Spent' = Spent
  BY <1>3, <1>4, <1>5, ViewDomains
<1> QED
  BY <1>3, <1>6, <1>7

\* When no delivery goes anywhere the contract sees nothing.
LEMMA StillView ==
    ASSUME Placed, Placed', Still
    PROVE  EventPlace' = EventPlace /\ Spent' = Spent
<1>1. ASSUME NEW x \in Events
      PROVE  EventPlace'[x] = EventPlace[x] /\ Spent'[x] = Spent[x]
  <2>1. \A u \in Stores : \A y : y.event = x => (y \in Stored'[u] <=> y \in Stored[u])
    BY DEF Still
  <2>2. pub'[x].state = "done" <=> pub[x].state = "done"
    BY DEF Still
  <2>3. Settlement(x)' = Settlement(x)
    BY <2>2 DEF Still, Settlement
  <2> QED
    BY <2>1, <2>3, ViewStays
<1> QED
  BY <1>1, ViewDomains

-----------------------------------------------------------------------------
(* The steps of the contract.                                              *)

Abstract == <<Mode, EventPlace, Spent, broker.stopped>>

\* A step that touches neither the consumer's configuration nor the broker's flag.
LEMMA SameMode ==
    ASSUME broker' = broker
    PROVE  Mode' = Mode /\ broker'.stopped = broker.stopped
  BY DEF Mode

\* The consumer, the locks of Publish, and Stop: only Subscribe and Stop itself
\* are visible.
LEMMA RestingMaps ==
    ASSUME Placed, Placed', Unsubscribed, Resting
    PROVE  [Contract!Next]_Abstract
<1>0. EventPlace' = EventPlace /\ Spent' = Spent
  BY RestingStill, StillView
<1>1. ASSUME NEW ordering \in Orderings, Subscribe(ordering)
      PROVE  Contract!Next
  <2>1. /\ broker' = [broker EXCEPT !.subscribed = TRUE, !.ordering = ordering]
        /\ ~broker.subscribed
    BY <1>1 DEF Subscribe
  <2>2. Mode = "none"
    BY <2>1 DEF Mode
  <2>3. broker'.subscribed /\ broker'.ordering = ordering /\ broker'.stopped = broker.stopped
    BY <2>1 DEF Placed, TypeOK
  <2>4. Mode' = ordering
    BY <2>3 DEF Mode
  <2>5. ordering \in {"FIFO", "UNORDERED"}
    BY BrokerAssumption
  <2>6. Contract!Subscribe(ordering)
    BY <1>0, <2>2, <2>3, <2>4 DEF Contract!Subscribe
  <2> QED
    BY <2>5, <2>6 DEF Contract!Next
<1>2. CASE StopBroker
  <2>1. ~broker.stopped /\ broker' = [broker EXCEPT !.stopped = TRUE]
    BY <1>2 DEF StopBroker
  <2>2. /\ broker'.stopped = TRUE /\ broker'.subscribed = broker.subscribed
        /\ broker'.ordering = broker.ordering
    BY <2>1 DEF Placed, TypeOK
  <2>3. Mode' = Mode
    BY <2>2 DEF Mode
  <2>4. Contract!Stop
    BY <1>0, <2>1, <2>2, <2>3 DEF Contract!Stop
  <2> QED
    BY <2>4 DEF Contract!Next
<1>3. CASE Stopping
  <2>1. /\ broker'.stopped = broker.stopped /\ broker'.subscribed = broker.subscribed
        /\ broker'.ordering = broker.ordering
    BY <1>3 DEF Stopping, CancelContext, StopConsumer, Broadcast, StopReturns, Placed, TypeOK
  <2>2. Mode' = Mode
    BY <2>1 DEF Mode
  <2> QED
    BY <1>0, <2>1, <2>2 DEF Abstract
<1>4. CASE \/ Signal
           \/ \E e \in Events : BeginPublish(e) \/ TargetPublish(e)
           \/ \E w \in Workers : Await(w) /\ (broker.consumerStopped \/ queue = <<>>)
           \/ UNCHANGED vars
  <2>1. broker' = broker
    BY <1>4 DEF Signal, BeginPublish, TargetPublish, Await, vars
  <2> QED
    BY <1>0, <2>1, SameMode DEF Abstract
<1> QED
  BY <1>1, <1>2, <1>3, <1>4 DEF Resting

\* Publish hands the event to the queue.
LEMMA PublishMaps ==
    ASSUME Placed, Placed', Unsubscribed, NEW e \in Events, EnqueuePublish(e)
    PROVE  Contract!Next
<1> DEFINE d == [event |-> e, attempts |-> 0, date |-> pub[e].date]
<1>1. Arrival(e, d) /\ d.attempts = 0
  BY EnqueuePublishTrip
<1> HIDE DEF d
<1>2. /\ EventPlace[e] = "unpublished" /\ EventPlace' = [EventPlace EXCEPT ![e] = "pending"]
      /\ Spent' = Spent
  BY <1>1, ArrivalView
<1>3. broker.subscribed
  BY DEF EnqueuePublish, Unsubscribed
<1>4. broker.ordering # "none"
  BY DEF Placed, TypeOK
<1>5. Mode # "none"
  BY <1>3, <1>4 DEF Mode
<1>6. Mode' = Mode /\ broker'.stopped = broker.stopped
  BY SameMode DEF EnqueuePublish
<1>7. Contract!Publish(e)
  BY <1>2, <1>5, <1>6 DEF Contract!Publish, Contract!Move
<1>8. EventPlace'[e] = "pending"
  BY <1>2, ViewDomains
<1> QED
  BY <1>2, <1>7, <1>8 DEF Contract!Next

\* A delivery that changes its place and not its attempts, where the contract has one place,
\* does nothing the contract sees.
LEMMA SamePlaceMaps ==
    ASSUME Placed, Placed', broker' = broker, NEW s, NEW c, NEW t, NEW d,
           Journey(s, c, t, d), PlaceName(s) = PlaceName(t), c.attempts = d.attempts
    PROVE  UNCHANGED Abstract
<1>0. c.event \in Events
  BY StoredType DEF Journey, Placed, Deliveries
<1>1. PICK e \in Events : e = c.event
  BY <1>0
<1>2. /\ EventPlace[e] = PlaceName(s) /\ Spent[e] = c.attempts
      /\ EventPlace' = [EventPlace EXCEPT ![e] = PlaceName(t)]
      /\ Spent' = [Spent EXCEPT ![e] = d.attempts]
  BY <1>1, JourneyView
<1>3. EventPlace' = EventPlace /\ Spent' = Spent
  BY <1>2, ViewDomains
<1> QED
  BY <1>3, SameMode DEF Abstract

\* While the worker of a FIFO consumer begins an attempt, no other event is retrying: what is
\* not with the worker has not been attempted, or is a dead letter.
LEMMA NobodyElseRetries ==
    ASSUME Placed, Budgets, OneAtATime, broker.ordering = "FIFO",
           NEW w \in Workers, worker[w].phase \in {"popped", "sleeping"},
           NEW x \in Events, x # worker[w].delivery.event
    PROVE  EventPlace[x] # "handling" /\ (EventPlace[x] = "pending" => Spent[x] = 0)
<1>0. Views
  BY ViewsHold
<1>1. \A v \in Workers : worker[v].phase # "off" => v = w
  BY DEF OneAtATime
<1>2. Carried \subseteq {worker[w].delivery} /\ Handling = {}
  BY <1>1 DEF Carried, Handling
<1>3. CASE \E u \in Stores : \E y \in Stored[u] : y.event = x
  <2>0. PICK u \in Stores : \E y \in Stored[u] : y.event = x
    BY <1>3
  <2>1. PICK y \in Stored[u] : y.event = x
    BY <2>0
  <2>2. EventPlace[x] = PlaceName(u) /\ Spent[x] = y.attempts
    BY <1>0, <2>1 DEF Views
  <2>3. u # "carried" /\ u # "handling" /\ u # "timers"
    BY <1>2, <2>1, StoredAre DEF OneAtATime
  <2>4. CASE u = "queue"
    <3>1. y.attempts = 0
      BY <2>1, <2>4, StoredAre DEF OneAtATime
    <3> QED
      BY <2>2, <2>4, <3>1 DEF PlaceName
  <2>5. CASE u = "reviving"
    <3>1. y.attempts = 0
      BY <2>1, <2>5 DEF Budgets, Fits
    <3> QED
      BY <2>2, <2>5, <3>1 DEF PlaceName
  <2>6. CASE u = "letters"
    BY <2>2, <2>6 DEF PlaceName
  <2> QED
    BY <2>3, <2>4, <2>5, <2>6 DEF Stores
<1>4. CASE \A u \in Stores : \A y \in Stored[u] : y.event # x
  BY <1>0, <1>4 DEF Views, Settlement
<1> QED
  BY <1>3, <1>4

\* Handle is called.
LEMMA StartingMaps ==
    ASSUME Placed, Placed', Budgets, OneAtATime, NEW w \in Workers, Starting(w)
    PROVE  Contract!Next
<1> DEFINE c == worker[w].delivery
           d == [worker[w].delivery EXCEPT !.attempts = @ + 1]
<1>1. Journey("carried", c, "handling", d)
  BY StartingTrip
<1>2. /\ c \in Deliveries /\ c.event \in Events
      /\ worker[w].phase \in {"popped", "sleeping"} /\ broker' = broker
  BY DEF Starting, Process, WakeUp, Placed, TypeOK, Deliveries
<1>3. d.attempts = c.attempts + 1
  BY <1>2 DEF Deliveries
<1>4. PICK e \in Events : e = c.event
  BY <1>2
<1>5. c.attempts < MaxAttempts
  BY <1>1 DEF Journey, Budgets, Fits
<1>6. Mode = "FIFO" => \A x \in Events \ {e} :
                           EventPlace[x] # "handling" /\ (EventPlace[x] = "pending" => Spent[x] = 0)
  <2>1. Mode = "FIFO" => broker.ordering = "FIFO"
    BY DEF Mode
  <2>2. ASSUME Mode = "FIFO", NEW x \in Events \ {e}
        PROVE  EventPlace[x] # "handling" /\ (EventPlace[x] = "pending" => Spent[x] = 0)
    BY <1>2, <1>4, <2>1, <2>2, NobodyElseRetries
  <2> QED
    BY <2>2
<1> HIDE DEF c, d
<1>7. /\ EventPlace[e] = PlaceName("carried") /\ Spent[e] = c.attempts
      /\ EventPlace' = [EventPlace EXCEPT ![e] = PlaceName("handling")]
      /\ Spent' = [Spent EXCEPT ![e] = d.attempts]
  BY <1>1, <1>4, JourneyView
<1>8. /\ EventPlace[e] = "pending" /\ EventPlace' = [EventPlace EXCEPT ![e] = "handling"]
      /\ Spent' = [Spent EXCEPT ![e] = @ + 1]
  BY <1>3, <1>7 DEF PlaceName
<1>9. Mode' = Mode /\ broker'.stopped = broker.stopped
  BY <1>2, SameMode
<1>10. Mode = "FIFO" => \A x \in Events \ {e} : ~Contract!Retrying(x)
  BY <1>6 DEF Contract!Retrying
<1>11. Contract!Attempt(e)
  BY <1>5, <1>7, <1>8, <1>9, <1>10 DEF Contract!Attempt, Contract!Move
<1>12. EventPlace'[e] = "handling"
  BY <1>8, ViewDomains
<1> QED
  BY <1>8, <1>11, <1>12 DEF Contract!Next

\* The process gives up a delivery.
LEMMA GivenUpMaps ==
    ASSUME Placed, Placed', broker' = broker, broker.stopped, NEW s, NEW c, Ending(s, c),
           s # "handling", s # "letters", history'.handled = history.handled
    PROVE  Contract!Next
<1>1. s \in Stores /\ c \in Stored[s] /\ c.event \in Events
  BY StoredType DEF Ending, Placed, Deliveries
<1>2. PICK e \in Events : e = c.event
  BY <1>1
<1>3. e \notin history'.handled
  BY <1>1, <1>2 DEF Placed, Accepted, Closed
<1>4. /\ EventPlace[e] = "pending"
      /\ EventPlace' = [EventPlace EXCEPT ![e] = "given up"]
      /\ Spent' = [Spent EXCEPT ![e] = 0]
  BY <1>2, <1>3, EndingView DEF PlaceName
<1>5. Mode' = Mode /\ broker'.stopped = broker.stopped
  BY SameMode
<1>6. Contract!GiveUp(e)
  BY <1>4, <1>5 DEF Contract!GiveUp, Contract!Move
<1>7. EventPlace'[e] = "given up"
  BY <1>4, ViewDomains
<1> QED
  BY <1>4, <1>6, <1>7 DEF Contract!Next

\* Handle returns nil.
LEMMA SucceedMaps ==
    ASSUME Placed, Placed', NEW w \in Workers, Succeed(w)
    PROVE  Contract!Next
<1>1. /\ Ending("handling", worker[w].delivery) /\ worker[w].delivery.event \in Events
      /\ broker' = broker /\ worker[w].delivery.event \in history'.handled
  BY SucceedTrip DEF Succeed, Placed, TypeOK, Deliveries
<1>2. PICK e \in Events : e = worker[w].delivery.event
  BY <1>1
<1>3. /\ EventPlace[e] = "handling"
      /\ EventPlace' = [EventPlace EXCEPT ![e] = "handled"]
      /\ Spent' = [Spent EXCEPT ![e] = 0]
  <2>1. /\ EventPlace[e] = PlaceName("handling")
        /\ EventPlace' = [EventPlace EXCEPT ![e] = IF e \in history'.handled THEN "handled"
                                                   ELSE "given up"]
        /\ Spent' = [Spent EXCEPT ![e] = 0]
    BY <1>1, <1>2, EndingView
  <2>2. e \in history'.handled
    BY <1>1, <1>2
  <2> QED
    BY <2>1, <2>2 DEF PlaceName
<1>4. Mode' = Mode /\ broker'.stopped = broker.stopped
  BY <1>1, SameMode
<1>5. Contract!Succeed(e)
  BY <1>3, <1>4 DEF Contract!Succeed, Contract!Move
<1>6. EventPlace'[e] = "handled"
  BY <1>3, ViewDomains
<1> QED
  BY <1>3, <1>5, <1>6 DEF Contract!Next

\* Handle fails: the event is parked when it has spent its budget, and only then.
LEMMA FailureMaps ==
    ASSUME Placed, Placed', Budgets, NEW w \in Workers, Park(w) \/ BackOff(w)
    PROVE  Contract!Next
<1> DEFINE c == worker[w].delivery
<1>0. MaxAttempts \in Nat /\ c \in Deliveries /\ c.event \in Events /\ c.attempts \in Nat
      /\ broker' = broker
  BY BrokerAssumption DEF Park, BackOff, Placed, TypeOK, Deliveries
<1>1. PICK e \in Events : e = c.event
  BY <1>0
<1>2. Mode' = Mode /\ broker'.stopped = broker.stopped
  BY <1>0, SameMode
<1>3. CASE Park(w)
  <2>1. Journey("handling", c, "letters", c)
    BY <1>3, ParkTrip
  <2>2. c.attempts = MaxAttempts
    <3>1. c.attempts <= MaxAttempts
      BY <2>1 DEF Journey, Budgets, Fits
    <3> QED
      BY <1>0, <1>3, <3>1 DEF Park, Exhausted
  <2> HIDE DEF c
  <2>3. /\ EventPlace[e] = "handling" /\ Spent[e] = c.attempts
        /\ EventPlace' = [EventPlace EXCEPT ![e] = "parked"]
        /\ Spent' = [Spent EXCEPT ![e] = c.attempts]
    BY <1>1, <2>1, JourneyView DEF PlaceName
  <2>4. Spent' = Spent
    BY <2>3, ViewDomains
  <2>5. Contract!Park(e)
    BY <1>2, <2>2, <2>3, <2>4 DEF Contract!Park, Contract!Move
  <2>6. EventPlace'[e] = "parked"
    BY <2>3, ViewDomains
  <2> QED
    BY <2>3, <2>5, <2>6 DEF Contract!Next
<1>4. CASE BackOff(w)
  <2>1. PICK t \in {"carried", "timers"} : Journey("handling", c, t, c)
    BY <1>4, BackOffTrip
  <2>2. c.attempts < MaxAttempts
    BY <1>0, <1>4 DEF BackOff, Exhausted
  <2> HIDE DEF c
  <2>3. /\ EventPlace[e] = PlaceName("handling") /\ Spent[e] = c.attempts
        /\ EventPlace' = [EventPlace EXCEPT ![e] = PlaceName(t)]
        /\ Spent' = [Spent EXCEPT ![e] = c.attempts]
    BY <1>1, <2>1, JourneyView
  <2>4. /\ EventPlace[e] = "handling"
        /\ EventPlace' = [EventPlace EXCEPT ![e] = "pending"]
    BY <2>3 DEF PlaceName
  <2>5. Spent' = Spent
    BY <2>3, ViewDomains
  <2>6. Contract!Fail(e)
    BY <1>2, <2>2, <2>3, <2>4, <2>5 DEF Contract!Fail, Contract!Move
  <2>7. EventPlace'[e] = "pending"
    BY <2>4, ViewDomains
  <2> QED
    BY <2>4, <2>6, <2>7 DEF Contract!Next
<1> QED
  BY <1>3, <1>4

\* Resubmit grants a dead letter a fresh budget.
LEMMA ResubmitMaps ==
    ASSUME Placed, Placed', NEW i \in DOMAIN letters, Resubmit(i)
    PROVE  Contract!Next
<1> DEFINE c == letters[i]
           d == [letters[i] EXCEPT !.attempts = 0]
<1>1. Journey("letters", c, "reviving", d)
  BY ResubmitTrip
<1>2. c \in Deliveries /\ c.event \in Events /\ broker' = broker
  <2>1. c \in Deliveries
    BY DEF Placed, TypeOK
  <2>2. broker' = broker
    BY DEF Resubmit
  <2> QED
    BY <2>1, <2>2 DEF Deliveries
<1>3. d.attempts = 0
  BY <1>2 DEF Deliveries
<1>4. PICK e \in Events : e = c.event
  BY <1>2
<1> HIDE DEF c, d
<1>5. /\ EventPlace[e] = "parked"
      /\ EventPlace' = [EventPlace EXCEPT ![e] = "pending"]
      /\ Spent' = [Spent EXCEPT ![e] = 0]
  BY <1>1, <1>3, <1>4, JourneyView DEF PlaceName
<1>6. Mode' = Mode /\ broker'.stopped = broker.stopped
  BY <1>2, SameMode
<1>7. Contract!Resubmit(e)
  BY <1>5, <1>6 DEF Contract!Resubmit, Contract!Move
<1>8. EventPlace'[e] = "pending"
  BY <1>5, ViewDomains
<1> QED
  BY <1>5, <1>7, <1>8 DEF Contract!Next

\* Every step of the engine is a step of the contract, or nothing the contract sees.
LEMMA StepMaps ==
    ASSUME BrokerInv, BrokerInv', [Next]_vars
    PROVE  [Contract!Next]_Abstract
<1>0. /\ Placed /\ Placed' /\ Budgets /\ Unsubscribed /\ StopOrder /\ OneAtATime
  BY DEF BrokerInv
<1>1. CASE Resting
  BY <1>0, <1>1, RestingMaps
<1>2. ASSUME NEW e \in Events, EnqueuePublish(e)
      PROVE  Contract!Next
  BY <1>0, <1>2, PublishMaps
<1>3. ASSUME NEW w \in Workers, Popping(w)
      PROVE  UNCHANGED Abstract
  <2>1. Journey("queue", Head(queue), "carried", Head(queue)) /\ broker' = broker
    BY <1>0, <1>3, PopTrip DEF Popping, Await
  <2>2. PlaceName("queue") = PlaceName("carried")
    BY DEF PlaceName
  <2> QED
    BY <1>0, <2>1, <2>2, SamePlaceMaps
<1>4. ASSUME NEW w \in Workers, Starting(w)
      PROVE  Contract!Next
  BY <1>0, <1>4, StartingMaps
<1>5. ASSUME NEW w \in Workers, Dropping(w)
      PROVE  Contract!Next
  <2>1. Ending("carried", worker[w].delivery)
    BY <1>0, <1>5, DropTrip DEF Dropping
  <2>2. broker' = broker /\ broker.cancelled
    BY <1>5 DEF Dropping, Process, Interrupt
  <2>3. history'.handled = history.handled
    BY <1>0, <1>5, <2>2 DEF Dropping, Process, Interrupt, Placed, TypeOK
  <2> QED
    BY <1>0, <2>1, <2>2, <2>3, GivenUpMaps DEF StopOrder
<1>6. ASSUME NEW w \in Workers, Succeed(w)
      PROVE  Contract!Next
  BY <1>0, <1>6, SucceedMaps
<1>7. ASSUME NEW w \in Workers, Park(w) \/ BackOff(w)
      PROVE  Contract!Next
  BY <1>0, <1>7, FailureMaps
<1>8. ASSUME NEW d \in timers, Retry(d)
      PROVE  UNCHANGED Abstract
  <2>1. Journey("timers", d, "queue", d) /\ broker' = broker
    BY <1>0, <1>8, RetryTrip DEF Retry
  <2>2. PlaceName("timers") = PlaceName("queue")
    BY DEF PlaceName
  <2> QED
    BY <1>0, <2>1, <2>2, SamePlaceMaps
<1>9. ASSUME NEW d \in timers, DropRetry(d)
      PROVE  Contract!Next
  <2>1. Ending("timers", d)
    BY <1>0, <1>9, DropRetryTrip
  <2>2. broker' = broker /\ broker.cancelled
    BY <1>9 DEF DropRetry
  <2>3. history'.handled = history.handled
    BY <1>0, <1>9 DEF DropRetry, Placed, TypeOK
  <2> QED
    BY <1>0, <2>1, <2>2, <2>3, GivenUpMaps DEF StopOrder
<1>10. ASSUME NEW i \in DOMAIN letters, Resubmit(i)
       PROVE  Contract!Next
  BY <1>0, <1>10, ResubmitMaps
<1>11. ASSUME NEW d \in reviving, Revive(d)
       PROVE  UNCHANGED Abstract
  <2>1. Journey("reviving", d, "queue", d) /\ broker' = broker
    BY <1>0, <1>11, ReviveTrip DEF Revive
  <2>2. PlaceName("reviving") = PlaceName("queue")
    BY DEF PlaceName
  <2> QED
    BY <1>0, <2>1, <2>2, SamePlaceMaps
<1> QED
  BY <1>1, <1>2, <1>3, <1>4, <1>5, <1>6, <1>7, <1>8, <1>9, <1>10, <1>11, StepCases

LEMMA InitMaps == Init => Contract!Init
<1> SUFFICES ASSUME Init
             PROVE  Contract!Init
  OBVIOUS
<1>1. Views
  BY InitInv, ViewsHold DEF BrokerInv
<1>2. \A u \in Stores : Stored[u] = {}
  BY StoredAre DEF Init, Contents, Carried, Handling, Stores
<1>3. \A e \in Events : EventPlace[e] = "unpublished" /\ Spent[e] = 0
  BY <1>1, <1>2 DEF Views, Settlement, Init
<1>4. /\ EventPlace = [e \in Events |-> "unpublished"]
      /\ Spent = [e \in Events |-> 0]
  BY <1>3, ViewDomains
<1>5. Mode = "none" /\ broker.stopped = FALSE
  BY DEF Init, Mode
<1> QED
  BY <1>4, <1>5 DEF Contract!Init

\* The engine keeps the contract of the Broker interface, for any events, workers and
\* budgets: an event is attempted at most so often per budget and alone under FIFO, parked
\* when its budget is spent exactly, resubmitted with a fresh one, and given up only after
\* Stop and never during its handler.
THEOREM ImplementsContract == Spec => ImplementsBroker
<1>1. BrokerInv /\ BrokerInv' /\ [Next]_vars => [Contract!Next]_<<Mode, EventPlace, Spent, broker.stopped>>
  BY StepMaps DEF Abstract
<1> QED
  BY BrokerInvariant, InitMaps, <1>1, PTL DEF Spec, ImplementsBroker, Contract!Spec
=============================================================================
