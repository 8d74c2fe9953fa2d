----------------------------- MODULE ConfProofs -----------------------------
(***************************************************************************)
(* Proofs about Conf for any documents, struct types, edits and bounds,    *)
(* and whatever the resolution of a text is.                               *)
(***************************************************************************)
EXTENDS Conf, FiniteSetTheorems, SequenceTheorems, TLAPS

LOCAL INSTANCE SequencesExt
LOCAL INSTANCE FiniteSetsExt

-----------------------------------------------------------------------------
(* Paths.                                                                  *)

Path == Seq(STRING)

\* The first steps of a path.
LEMMA PrefixFacts ==
    ASSUME NEW p \in Path, NEW n \in 0..Len(p)
    PROVE  /\ SubSeq(p, 1, n) \in Path
           /\ Len(SubSeq(p, 1, n)) = n
           /\ \A i \in 1..n : SubSeq(p, 1, n)[i] = p[i]
  <1>1. \A i \in 1..n : p[i] \in STRING
    BY DEF Path
  <1>2. /\ SubSeq(p, 1, n) \in Seq(STRING)
        /\ Len(SubSeq(p, 1, n)) = (IF 1 <= n THEN n - 1 + 1 ELSE 0)
        /\ \A i \in 1..(n - 1 + 1) : SubSeq(p, 1, n)[i] = p[1 + i - 1]
    BY <1>1, SubSeqProperties
  <1> QED
    BY <1>2 DEF Path

\* Paths that agree step by step are equal.
LEMMA SamePath ==
    ASSUME NEW p \in Path, NEW q \in Path, Len(p) = Len(q),
           \A i \in 1..Len(p) : p[i] = q[i]
    PROVE  p = q
  BY SeqEqual DEF Path

LEMMA PrefixOfPrefix ==
    ASSUME NEW p \in Path, NEW n \in 0..Len(p), NEW m \in 0..n
    PROVE  SubSeq(SubSeq(p, 1, n), 1, m) = SubSeq(p, 1, m)
  <1> DEFINE q == SubSeq(p, 1, n)
  <1>1. q \in Path /\ Len(q) = n /\ \A i \in 1..n : q[i] = p[i]
    BY PrefixFacts
  <1>2. Len(p) \in Nat /\ m \in 0..Len(p) /\ m \in 0..Len(q)
    BY <1>1 DEF Path
  <1>3. /\ SubSeq(q, 1, m) \in Path /\ Len(SubSeq(q, 1, m)) = m
        /\ \A i \in 1..m : SubSeq(q, 1, m)[i] = q[i]
    BY <1>1, <1>2, PrefixFacts
  <1>4. /\ SubSeq(p, 1, m) \in Path /\ Len(SubSeq(p, 1, m)) = m
        /\ \A i \in 1..m : SubSeq(p, 1, m)[i] = p[i]
    BY <1>2, PrefixFacts
  <1>5. \A i \in 1..m : SubSeq(q, 1, m)[i] = SubSeq(p, 1, m)[i]
    BY <1>1, <1>3, <1>4
  <1> QED
    BY <1>3, <1>4, <1>5, SamePath

LEMMA WholePath ==
    ASSUME NEW p \in Path
    PROVE  Len(p) \in Nat /\ SubSeq(p, 1, Len(p)) = p
  BY SubSeqFull DEF Path

LEMMA Extended ==
    ASSUME NEW p \in Path, NEW step \in STRING
    PROVE  /\ Append(p, step) \in Path
           /\ Len(Append(p, step)) = Len(p) + 1
           /\ Append(p, step)[Len(p) + 1] = step
           /\ \A n \in 0..Len(p) : SubSeq(Append(p, step), 1, n) = SubSeq(p, 1, n)
  <1> DEFINE q == Append(p, step)
  <1>1. q \in Path /\ Len(q) = Len(p) + 1 /\ q[Len(p) + 1] = step
        /\ Len(p) \in Nat /\ \A i \in 1..Len(p) : q[i] = p[i]
    <2>1. p \in Seq(STRING) /\ Len(p) \in Nat
      BY DEF Path
    <2>2. /\ q \in Seq(STRING) /\ Len(q) = Len(p) + 1
          /\ \A i \in 1..Len(p) : q[i] = p[i]
          /\ q[Len(p) + 1] = step
      <3>1. /\ Append(p, step) \in Seq(STRING)
            /\ Append(p, step) # << >>
            /\ Len(Append(p, step)) = Len(p) + 1
            /\ \A i \in 1..Len(p) : Append(p, step)[i] = p[i]
            /\ Append(p, step)[Len(p) + 1] = step
        BY <2>1, AppendProperties
      <3> QED
        BY <3>1
    <2> QED
      BY <2>1, <2>2 DEF Path
  <1> HIDE DEF q
  <1>2. ASSUME NEW n \in 0..Len(p)
        PROVE  SubSeq(q, 1, n) = SubSeq(p, 1, n)
    <2>1. n \in 0..Len(q)
      BY <1>1
    <2>2. /\ SubSeq(q, 1, n) \in Path /\ Len(SubSeq(q, 1, n)) = n
          /\ \A i \in 1..n : SubSeq(q, 1, n)[i] = q[i]
      BY <1>1, <2>1, PrefixFacts
    <2>3. /\ SubSeq(p, 1, n) \in Path /\ Len(SubSeq(p, 1, n)) = n
          /\ \A i \in 1..n : SubSeq(p, 1, n)[i] = p[i]
      BY PrefixFacts
    <2>4. n \in Nat /\ \A i \in 1..n : i \in 1..Len(p)
      BY <1>1
    <2>5. \A i \in 1..n : SubSeq(q, 1, n)[i] = SubSeq(p, 1, n)[i]
      BY <1>1, <2>2, <2>3, <2>4
    <2> QED
      BY <2>2, <2>3, <2>5, SamePath
  <1> QED
    BY <1>1, <1>2 DEF q

-----------------------------------------------------------------------------
(* Documents.                                                              *)

LEMMA OneSort ==
    ASSUME NEW d, WellFormed(d), NEW p \in DOMAIN d
    PROVE  /\ IsA(d[p], "object") => ~IsA(d[p], "list")
           /\ IsA(d[p], "text") \/ IsA(d[p], "null") =>
                ~IsA(d[p], "object") /\ ~IsA(d[p], "list")
  <1>1. PICK sort \in Sorts : DOMAIN d[p] = {sort}
    BY DEF WellFormed
  <1> QED
    BY <1>1 DEF IsA

\* What is above a node is there, a list for an index and an object for a key.
LEMMA AboveFacts ==
    ASSUME NEW d, WellFormed(d), NEW p \in DOMAIN d, NEW n \in 0..(Len(p) - 1)
    PROVE  /\ SubSeq(p, 1, n) \in DOMAIN d
           /\ IsA(d[SubSeq(p, 1, n)], "object") <=> p[n + 1] \notin ToSet(Indices)
           /\ IsA(d[SubSeq(p, 1, n)], "list") <=> p[n + 1] \in ToSet(Indices)
  <1>1. /\ SubSeq(p, 1, n) \in DOMAIN d
        /\ IsA(d[SubSeq(p, 1, n)],
               IF p[n + 1] \in ToSet(Indices) THEN "list" ELSE "object")
    BY DEF WellFormed
  <1>2. IsA(d[SubSeq(p, 1, n)], "object") => ~IsA(d[SubSeq(p, 1, n)], "list")
    BY <1>1, OneSort
  <1>3. CASE p[n + 1] \in ToSet(Indices)
    BY <1>1, <1>2, <1>3
  <1>4. CASE p[n + 1] \notin ToSet(Indices)
    BY <1>1, <1>2, <1>4
  <1> QED
    BY <1>3, <1>4

LEMMA PathsOfDocument ==
    ASSUME NEW d, WellFormed(d), NEW p \in DOMAIN d
    PROVE  p \in Path /\ Len(p) \in Nat
  BY DEF WellFormed, Path

\* The nodes a merge leaves in place.
Kept(base, overlay) ==
    {p \in DOMAIN base : \A n \in 0..Len(p) :
        SubSeq(p, 1, n) \in DOMAIN overlay =>
            IsA(base[SubSeq(p, 1, n)], "object") /\ IsA(overlay[SubSeq(p, 1, n)], "object")}

LEMMA MergeFacts ==
    ASSUME NEW base, NEW overlay
    PROVE  /\ DOMAIN MergeTree(base, overlay) = DOMAIN overlay \cup Kept(base, overlay)
           /\ \A p \in DOMAIN overlay : MergeTree(base, overlay)[p] = overlay[p]
           /\ \A p \in Kept(base, overlay) \ DOMAIN overlay :
                MergeTree(base, overlay)[p] = base[p]
  <1>1. MergeTree(base, overlay) = Overlay(base, overlay, Kept(base, overlay))
    BY DEF MergeTree, Kept
  <1> QED
    BY <1>1 DEF Overlay

\* A document that has a say at a path decides it.
LEMMA SpeakerDecides ==
    ASSUME NEW base, WellFormed(base), NEW overlay, WellFormed(overlay), NEW p \in Path,
           Speaks(overlay, p)
    PROVE  Alike(MergeTree(base, overlay), overlay, p)
  <1> DEFINE after == MergeTree(base, overlay)
  <1>0. /\ DOMAIN after = DOMAIN overlay \cup Kept(base, overlay)
        /\ \A q \in DOMAIN overlay : after[q] = overlay[q]
        /\ \A q \in Kept(base, overlay) \ DOMAIN overlay : after[q] = base[q]
    BY MergeFacts
  <1> SUFFICES Alike(after, overlay, p)
    OBVIOUS
  <1> HIDE DEF after
  <1>1. CASE p \in DOMAIN overlay
    BY <1>0, <1>1 DEF Alike
  <1>2. CASE p \notin DOMAIN overlay
    <2>1. PICK n \in 0..(Len(p) - 1) :
            /\ SubSeq(p, 1, n) \in DOMAIN overlay
            /\ p[n + 1] \in ToSet(Indices) \/ ~IsA(overlay[SubSeq(p, 1, n)], "object")
      BY <1>2 DEF Speaks
    <2>2. SUFFICES p \notin Kept(base, overlay)
      BY <1>0, <1>2 DEF Alike
    <2>3. SUFFICES ASSUME p \in Kept(base, overlay)
                   PROVE  FALSE
      OBVIOUS
    <2>4. p \in DOMAIN base /\ n \in 0..Len(p)
      BY <2>3, WholePath DEF Kept
    <2>5. IsA(base[SubSeq(p, 1, n)], "object") /\ IsA(overlay[SubSeq(p, 1, n)], "object")
      BY <2>1, <2>3, <2>4 DEF Kept
    <2>6. p[n + 1] \notin ToSet(Indices)
      BY <2>4, <2>5, AboveFacts
    <2> QED
      BY <2>1, <2>5, <2>6
  <1> QED
    BY <1>1, <1>2

\* A document that has none leaves what was there.
LEMMA SilentLeaves ==
    ASSUME NEW base, WellFormed(base), NEW overlay, WellFormed(overlay), NEW p \in Path,
           ~Speaks(overlay, p)
    PROVE  Alike(MergeTree(base, overlay), base, p)
  <1> DEFINE after == MergeTree(base, overlay)
  <1>0. /\ DOMAIN after = DOMAIN overlay \cup Kept(base, overlay)
        /\ \A q \in DOMAIN overlay : after[q] = overlay[q]
        /\ \A q \in Kept(base, overlay) \ DOMAIN overlay : after[q] = base[q]
    BY MergeFacts
  <1> SUFFICES Alike(after, base, p)
    OBVIOUS
  <1> HIDE DEF after
  <1>1. p \notin DOMAIN overlay
    BY DEF Speaks
  <1>2. p \in DOMAIN base => p \in Kept(base, overlay)
    <2> SUFFICES ASSUME p \in DOMAIN base, NEW n \in 0..Len(p),
                        SubSeq(p, 1, n) \in DOMAIN overlay
                 PROVE  /\ IsA(base[SubSeq(p, 1, n)], "object")
                        /\ IsA(overlay[SubSeq(p, 1, n)], "object")
      BY DEF Kept
    <2>1. n # Len(p)
      BY <1>1, WholePath
    <2>2. n \in 0..(Len(p) - 1)
      BY <2>1, WholePath
    <2>3. p[n + 1] \notin ToSet(Indices) /\ IsA(overlay[SubSeq(p, 1, n)], "object")
      BY <2>2 DEF Speaks
    <2> QED
      BY <2>2, <2>3, AboveFacts
  <1> QED
    BY <1>0, <1>1, <1>2 DEF Alike, Kept

\* What every node of a document satisfies.
Placed(d, p) ==
    /\ p \in Path
    /\ \E sort \in Sorts : DOMAIN d[p] = {sort}
    /\ \A n \in 0..(Len(p) - 1) :
         /\ SubSeq(p, 1, n) \in DOMAIN d
         /\ IsA(d[SubSeq(p, 1, n)], IF p[n + 1] \in ToSet(Indices) THEN "list" ELSE "object")
         /\ \A i \in 2..Len(Indices) :
              p[n + 1] = Indices[i] => Append(SubSeq(p, 1, n), Indices[i - 1]) \in DOMAIN d

LEMMA WellFormedIsPlaced ==
    ASSUME NEW d
    PROVE  WellFormed(d) <=> /\ IsFiniteSet(DOMAIN d) /\ <<>> \in DOMAIN d
                             /\ \A p \in DOMAIN d : Placed(d, p)
  BY DEF WellFormed, Placed, Path

LEMMA IndexFacts ==
    ASSUME NEW i \in 2..Len(Indices)
    PROVE  /\ Indices[i] \in ToSet(Indices) /\ Indices[i - 1] \in ToSet(Indices)
           /\ Indices[i - 1] \in STRING /\ Indices[i - 1] # "$schema"
  <1>1. Indices \in Seq(STRING \ {"$schema"}) /\ Len(Indices) \in Nat /\ DOMAIN Indices = 1..Len(Indices)
    BY ScenariosAssumption
  <1>2. i \in DOMAIN Indices /\ i - 1 \in DOMAIN Indices
    BY <1>1
  <1> QED
    BY <1>1, <1>2 DEF ToSet

\* A merge of two documents is a document.
LEMMA MergeWellFormed ==
    ASSUME NEW base, WellFormed(base), NEW overlay, WellFormed(overlay)
    PROVE  WellFormed(MergeTree(base, overlay))
  <1> DEFINE after == MergeTree(base, overlay)
  <1>0. /\ DOMAIN after = DOMAIN overlay \cup Kept(base, overlay)
        /\ \A q \in DOMAIN overlay : after[q] = overlay[q]
        /\ \A q \in Kept(base, overlay) \ DOMAIN overlay : after[q] = base[q]
    BY MergeFacts
  <1> SUFFICES WellFormed(after)
    OBVIOUS
  <1> HIDE DEF after
  <1>4. IsFiniteSet(DOMAIN after)
    <2>1. IsFiniteSet(DOMAIN base) /\ IsFiniteSet(DOMAIN overlay)
      BY DEF WellFormed
    <2>2. Kept(base, overlay) \subseteq DOMAIN base
      BY DEF Kept
    <2>3. IsFiniteSet(Kept(base, overlay))
      BY <2>1, <2>2, FS_Subset
    <2> QED
      BY <1>0, <2>1, <2>3, FS_Union
  <1>1. /\ <<>> \in DOMAIN overlay /\ \A p \in DOMAIN overlay : Placed(overlay, p)
        /\ \A p \in DOMAIN base : Placed(base, p)
    BY WellFormedIsPlaced
  <1>2. ASSUME NEW p \in DOMAIN overlay
        PROVE  Placed(after, p)
    BY <1>0, <1>1 DEF Placed
  <1>3. ASSUME NEW p \in Kept(base, overlay), p \notin DOMAIN overlay
        PROVE  Placed(after, p)
    <2>1. /\ p \in DOMAIN base /\ Placed(base, p) /\ p \in Path /\ Len(p) \in Nat
          /\ after[p] = base[p]
      BY <1>0, <1>1, <1>3, PathsOfDocument DEF Kept
    <2> SUFFICES ASSUME NEW n \in 0..(Len(p) - 1)
                 PROVE  /\ SubSeq(p, 1, n) \in DOMAIN after
                        /\ IsA(after[SubSeq(p, 1, n)],
                               IF p[n + 1] \in ToSet(Indices) THEN "list" ELSE "object")
                        /\ \A i \in 2..Len(Indices) :
                             p[n + 1] = Indices[i] =>
                                 Append(SubSeq(p, 1, n), Indices[i - 1]) \in DOMAIN after
      BY <2>1 DEF Placed
    <2> DEFINE q == SubSeq(p, 1, n)
    <2>2. /\ n \in 0..Len(p) /\ n \in Nat /\ q \in Path /\ Len(q) = n /\ q \in DOMAIN base
          /\ \A m \in 0..n : SubSeq(q, 1, m) = SubSeq(p, 1, m) /\ m \in 0..Len(p)
      <3>1. n \in 0..Len(p) /\ n \in Nat /\ \A m \in 0..n : m \in 0..Len(p)
        BY <2>1
      <3> QED
        BY <2>1, <3>1, PrefixFacts, PrefixOfPrefix, AboveFacts
    <2>3. q \in Kept(base, overlay)
      <3>1. \A m \in 0..Len(q) : SubSeq(q, 1, m) = SubSeq(p, 1, m) /\ m \in 0..Len(p)
        BY <2>2
      <3> HIDE DEF q
      <3> QED
        BY <1>3, <2>2, <3>1 DEF Kept
    <2>4. CASE q \in DOMAIN overlay
      <3>1. IsA(base[q], "object") /\ IsA(overlay[q], "object")
        BY <1>3, <2>2, <2>4 DEF Kept
      <3>2. p[n + 1] \notin ToSet(Indices)
        BY <2>1, <3>1, AboveFacts
      <3> QED
        BY <1>0, <2>3, <2>4, <3>1, <3>2, IndexFacts
    <2>5. CASE q \notin DOMAIN overlay
      <3>1. IsA(after[q], IF p[n + 1] \in ToSet(Indices) THEN "list" ELSE "object")
        BY <1>0, <2>1, <2>3, <2>5 DEF Placed
      <3>2. ASSUME NEW i \in 2..Len(Indices), p[n + 1] = Indices[i]
            PROVE  Append(q, Indices[i - 1]) \in DOMAIN after
        <4> DEFINE r == Append(q, Indices[i - 1])
        <4>1. r \in DOMAIN base
          BY <2>1, <3>2 DEF Placed
        <4>2. /\ r \in Path /\ Len(r) = n + 1
              /\ \A m \in 0..n : SubSeq(r, 1, m) = SubSeq(q, 1, m)
          BY <2>2, IndexFacts, Extended
        <4> HIDE DEF r
        <4>3. SubSeq(r, 1, n + 1) = r /\ SubSeq(r, 1, n) = q
          BY <2>2, <4>2, WholePath
        <4>4. r \notin DOMAIN overlay
          <5> SUFFICES ASSUME r \in DOMAIN overlay
                       PROVE  FALSE
            OBVIOUS
          <5>1. n \in 0..(Len(r) - 1)
            BY <2>2, <4>2
          <5> QED
            BY <2>5, <4>3, <5>1, AboveFacts
        <4>5. r \in Kept(base, overlay)
          <5> SUFFICES ASSUME NEW m \in 0..Len(r), SubSeq(r, 1, m) \in DOMAIN overlay
                       PROVE  /\ IsA(base[SubSeq(r, 1, m)], "object")
                              /\ IsA(overlay[SubSeq(r, 1, m)], "object")
            BY <4>1 DEF Kept
          <5>1. m # n + 1
            BY <4>3, <4>4
          <5>2. m \in 0..n
            BY <2>2, <4>2, <5>1
          <5>3. SubSeq(r, 1, m) = SubSeq(p, 1, m) /\ m \in 0..Len(p)
            BY <2>2, <4>2, <5>2
          <5> QED
            BY <1>3, <5>3 DEF Kept
        <4> QED
          BY <1>0, <4>5 DEF r
      <3> QED
        BY <1>0, <2>3, <3>1, <3>2
    <2> QED
      BY <2>4, <2>5
  <1> QED
    BY <1>0, <1>1, <1>2, <1>3, <1>4, WellFormedIsPlaced

\* Dropping the schema leaves a document.
LEMMA SchemaDropped ==
    ASSUME NEW d, WellFormed(d)
    PROVE  /\ WellFormed(WithoutSchemaKey(d))
           /\ \A p \in Path : p = <<>> \/ Head(p) # "$schema" =>
                Alike(WithoutSchemaKey(d), d, p)
           /\ \A p \in DOMAIN WithoutSchemaKey(d) : p = <<>> \/ Head(p) # "$schema"
  <1> DEFINE after == WithoutSchemaKey(d)
  <1>0. /\ DOMAIN after = {p \in DOMAIN d : p = <<>> \/ Head(p) # "$schema"}
        /\ \A p \in DOMAIN after : after[p] = d[p]
    BY DEF WithoutSchemaKey
  <1> SUFFICES /\ WellFormed(after)
               /\ \A p \in Path : p = <<>> \/ Head(p) # "$schema" => Alike(after, d, p)
    BY <1>0
  <1> HIDE DEF after
  <1>1. IsFiniteSet(DOMAIN d) /\ <<>> \in DOMAIN d /\ \A p \in DOMAIN d : Placed(d, p)
    BY WellFormedIsPlaced
  <1>3. IsFiniteSet(DOMAIN after)
    BY <1>0, <1>1, FS_Subset
  <1>2. ASSUME NEW p \in DOMAIN after
        PROVE  Placed(after, p)
    <2>1. Placed(d, p) /\ p \in DOMAIN d /\ p \in Path /\ Len(p) \in Nat /\ after[p] = d[p]
      BY <1>0, <1>1, PathsOfDocument
    <2> SUFFICES ASSUME NEW n \in 0..(Len(p) - 1)
                 PROVE  /\ SubSeq(p, 1, n) \in DOMAIN after
                        /\ \A i \in 2..Len(Indices) :
                             p[n + 1] = Indices[i] =>
                                 Append(SubSeq(p, 1, n), Indices[i - 1]) \in DOMAIN after
      BY <1>0, <2>1 DEF Placed
    <2> DEFINE q == SubSeq(p, 1, n)
    <2>2. /\ n \in 0..Len(p) /\ n \in Nat
          /\ q \in Path /\ Len(q) = n /\ q \in DOMAIN d /\ \A i \in 1..n : q[i] = p[i]
      <3>1. n \in 0..Len(p) /\ n \in Nat
        BY <2>1
      <3> QED
        BY <2>1, <3>1, PrefixFacts, AboveFacts
    <2>3. p # <<>> /\ Head(p) = p[1] /\ p[1] # "$schema"
      <3>1. p # <<>> /\ Head(p) = p[1]
        BY <2>1 DEF Path
      <3> QED
        BY <1>0, <3>1
    <2> HIDE DEF q
    <2>4. q \in DOMAIN after
      <3>1. q = <<>> \/ (Head(q) = q[1] /\ 1 \in 1..n)
        BY <2>2 DEF Path
      <3> QED
        BY <1>0, <2>2, <2>3, <3>1
    <2>5. ASSUME NEW i \in 2..Len(Indices), p[n + 1] = Indices[i]
          PROVE  Append(q, Indices[i - 1]) \in DOMAIN after
      <3> DEFINE r == Append(q, Indices[i - 1])
      <3>1. r \in DOMAIN d
        BY <2>1, <2>5 DEF Placed, q
      <3>2. /\ r \in Path /\ Len(r) = n + 1 /\ r[n + 1] = Indices[i - 1]
            /\ \A m \in 0..n : SubSeq(r, 1, m) = SubSeq(q, 1, m)
        BY <2>2, IndexFacts, Extended
      <3>3. r # <<>> /\ Head(r) = r[1]
        <4> HIDE DEF r
        <4> QED
          BY <2>2, <3>2 DEF Path
      <3>4. r[1] # "$schema"
        <4> HIDE DEF r
        <4>1. CASE n = 0
          BY <3>2, <4>1, IndexFacts
        <4>2. CASE n # 0
          <5>1. n \in 0..Len(r) /\ n \in 0..Len(q) /\ 1 \in 1..n
            BY <2>2, <3>2, <4>2
          <5>2. SubSeq(r, 1, n)[1] = r[1] /\ SubSeq(q, 1, n)[1] = q[1]
            BY <2>2, <3>2, <5>1, PrefixFacts
          <5>3. SubSeq(r, 1, n) = SubSeq(q, 1, n)
            BY <2>2, <3>2, <5>1
          <5> QED
            BY <2>2, <2>3, <5>1, <5>2, <5>3
        <4> QED
          BY <4>1, <4>2
      <3> QED
        BY <1>0, <3>1, <3>3, <3>4
    <2> QED
      BY <2>4, <2>5 DEF q
  <1> QED
    BY <1>0, <1>1, <1>2, <1>3, WellFormedIsPlaced DEF Alike

\* The resolution replaces texts by words, in place.
LEMMA ResolvedWellFormed ==
    ASSUME WellFormed(merged)
    PROVE  WellFormed(ResolveTree)
  <1>0. /\ DOMAIN ResolveTree = DOMAIN merged
        /\ \A p \in DOMAIN merged :
             ResolveTree[p] = IF IsA(merged[p], "text") THEN [word |-> Resolved(p).word]
                              ELSE merged[p]
    BY DEF ResolveTree
  <1> DEFINE after == ResolveTree
  <1> SUFFICES WellFormed(after)
    OBVIOUS
  <1> HIDE DEF after
  <1>1. IsFiniteSet(DOMAIN merged) /\ <<>> \in DOMAIN merged /\ \A p \in DOMAIN merged : Placed(merged, p)
    BY WellFormedIsPlaced
  <1>2. \A p \in DOMAIN merged :
          /\ IsA(merged[p], "object") => IsA(after[p], "object")
          /\ IsA(merged[p], "list") => IsA(after[p], "list")
    BY <1>0, OneSort DEF after
  <1>3. ASSUME NEW p \in DOMAIN merged
        PROVE  \E sort \in Sorts : DOMAIN after[p] = {sort}
    <2>1. CASE IsA(merged[p], "text")
      <3>1. DOMAIN after[p] = {"word"}
        BY <1>0, <2>1 DEF after
      <3> QED
        BY <3>1 DEF Sorts
    <2>2. CASE ~IsA(merged[p], "text")
      BY <1>0, <1>1, <2>2 DEF after, Placed
    <2> QED
      BY <2>1, <2>2
  <1>4. DOMAIN after = DOMAIN merged
    BY <1>0 DEF after
  <1>5. ASSUME NEW p \in DOMAIN merged
        PROVE  Placed(after, p)
    <2> SUFFICES ASSUME NEW n \in 0..(Len(p) - 1)
                 PROVE  IsA(after[SubSeq(p, 1, n)],
                            IF p[n + 1] \in ToSet(Indices) THEN "list" ELSE "object")
      BY <1>1, <1>3, <1>4 DEF Placed
    <2>1. /\ SubSeq(p, 1, n) \in DOMAIN merged
          /\ IsA(merged[SubSeq(p, 1, n)],
                 IF p[n + 1] \in ToSet(Indices) THEN "list" ELSE "object")
      BY <1>1 DEF Placed
    <2> QED
      BY <1>2, <2>1
  <1> QED
    BY <1>1, <1>4, <1>5, WellFormedIsPlaced

-----------------------------------------------------------------------------
(* Competing fields.                                                       *)

\* A set of indices that has all the smaller ones of each is an interval from 1.
LEMMA InitialSegment ==
    ASSUME NEW n \in Nat, NEW S \in SUBSET (1..n),
           \A i, j \in 1..n : i < j /\ j \in S => i \in S
    PROVE  S = 1..Cardinality(S) /\ Cardinality(S) \in Nat
  <1>1. IsFiniteSet(1..n)
    BY FS_Interval
  <1>2. IsFiniteSet(S)
    BY <1>1, FS_Subset
  <1> DEFINE k == Cardinality(S)
  <1>3. k \in Nat
    BY <1>2, FS_CardinalityType
  <1>4. ASSUME NEW i \in S
        PROVE  i \in 1..k
    <2>1. i \in 1..n /\ 1..i \subseteq S
      OBVIOUS
    <2>2. Cardinality(1..i) <= k
      BY <1>2, <2>1, FS_Subset
    <2>3. Cardinality(1..i) = i
      BY <2>1, FS_Interval
    <2> QED
      BY <1>3, <2>1, <2>2, <2>3
  <1>5. S \subseteq 1..k
    BY <1>4
  <1>6. IsFiniteSet(1..k) /\ Cardinality(1..k) = k
    BY <1>3, FS_Interval
  <1> QED
    BY <1>3, <1>5, <1>6, FS_Subset

\* A set of naturals that is not empty has a smallest element.
LEMMA SmallestExists ==
    ASSUME NEW T \in SUBSET Nat, T # {}
    PROVE  \E m \in T : \A k \in T : m <= k
  <1>1. PICK t \in T : TRUE
    OBVIOUS
  <1> DEFINE S == {k \in 1..(t + 1) : \A i \in T : k - 1 <= i}
  <1>2. S \in SUBSET (1..(t + 1)) /\ t + 1 \in Nat /\ t \in Nat
    OBVIOUS
  <1>3. ASSUME NEW i \in 1..(t + 1), NEW j \in 1..(t + 1), i < j, j \in S
        PROVE  i \in S
    <2>1. \A x \in T : j - 1 <= x /\ x \in Nat
      BY <1>3
    <2>2. \A x \in T : i - 1 <= x
      BY <1>3, <2>1
    <2> QED
      BY <2>2
  <1> HIDE DEF S
  <1>4. PICK c \in Nat : S = 1..c
    BY <1>2, <1>3, InitialSegment
  <1>5. 1 \in S
    BY <1>2 DEF S
  <1>6. c \in S /\ c + 1 \notin S
    BY <1>4, <1>5
  <1>7. c \in 1..(t + 1) /\ \A i \in T : c - 1 <= i /\ i \in Nat
    BY <1>6 DEF S
  <1>8. CASE c = t + 1
    BY <1>1, <1>2, <1>7, <1>8
  <1>9. CASE c # t + 1
    <2>1. c + 1 \in 1..(t + 1)
      BY <1>2, <1>7, <1>9
    <2>2. PICK i \in T : ~(c + 1 - 1 <= i)
      BY <1>6, <2>1 DEF S
    <2>3. i = c - 1
      BY <1>7, <2>2
    <2> QED
      BY <1>7, <2>3
  <1> QED
    BY <1>8, <1>9

\* The smallest and the largest of some naturals.
LEMMA MinFacts ==
    ASSUME NEW T \in SUBSET Nat, T # {}
    PROVE  Min(T) \in T /\ \A k \in T : Min(T) <= k
  <1>1. \E m \in T : \A k \in T : m <= k
    BY SmallestExists
  <1> QED
    BY <1>1 DEF Min

LEMMA MaxFacts ==
    ASSUME NEW n \in Nat, NEW T \in SUBSET (0..n), T # {}
    PROVE  Max(T) \in T /\ \A k \in T : Max(T) >= k
  <1> DEFINE R == {n - k : k \in T}
  <1>1. R \in SUBSET Nat /\ R # {}
    <2>1. \A k \in T : n - k \in Nat
      OBVIOUS
    <2> QED
      BY <2>1
  <1>2. PICK r \in R : \A q \in R : r <= q
    BY <1>1, MinFacts
  <1>3. PICK m \in T : r = n - m
    BY <1>2
  <1>4. \A k \in T : m >= k
    <2> TAKE k \in T
    <2>1. n - m <= n - k /\ k \in 0..n /\ m \in 0..n
      BY <1>2, <1>3
    <2> QED
      BY <2>1
  <1> QED
    BY <1>4 DEF Max

\* By the rule of encoding/json the field beats every other one.
Beats(field, candidates) ==
    \A other \in candidates \ {field} :
        \/ Depth(field) < Depth(other)
        \/ Depth(field) = Depth(other) /\ field.tagged /\ ~other.tagged

\* What dominantField computes is that rule.
LEMMA DominantFacts ==
    ASSUME NEW C, IsFiniteSet(C), C # {},
           \A f \in C : Depth(f) \in Nat /\ f.tagged \in BOOLEAN
    PROVE  DominantField(C) = {f \in C : Beats(f, C)}
  <1> DEFINE depths == {Depth(g) : g \in C}
             m == Min(depths)
             atDepth == {f \in C : Depth(f) = m}
             tagged == {f \in atDepth : f.tagged}
  <1>1. depths \in SUBSET Nat /\ depths # {}
    OBVIOUS
  <1>2. m \in depths /\ \A k \in depths : m <= k
    <2> HIDE DEF depths
    <2> QED
      BY <1>1, MinFacts
  <1> HIDE DEF m
  <1>3. m \in Nat /\ (\A f \in C : m <= Depth(f)) /\ \E f \in C : f \in atDepth
    BY <1>1, <1>2
  <1>4. /\ Cardinality(atDepth) = 1 <=> \E x : atDepth = {x}
        /\ Cardinality(tagged) = 1 <=> \E x : tagged = {x}
    <2>1. IsFiniteSet(atDepth) /\ IsFiniteSet(tagged)
      BY FS_Subset
    <2> QED
      BY <2>1, FS_Singleton
  <1>5. DominantField(C) = IF \E x : atDepth = {x} THEN atDepth
                           ELSE IF \E x : tagged = {x} THEN tagged ELSE {}
    BY <1>4 DEF DominantField, m
  <1>6. ASSUME NEW x, atDepth = {x}
        PROVE  atDepth = {f \in C : Beats(f, C)}
    <2>1. x \in C /\ Depth(x) = m /\ \A f \in C : Depth(f) = m => f = x
      BY <1>6
    <2>2. \A f \in C \ {x} : m < Depth(f)
      BY <1>3, <2>1
    <2>3. Beats(x, C)
      BY <2>1, <2>2 DEF Beats
    <2>4. ASSUME NEW f \in C, f # x, Beats(f, C)
          PROVE  FALSE
      BY <2>1, <2>2, <2>4 DEF Beats
    <2> QED
      BY <1>6, <2>1, <2>3, <2>4
  <1>7. ASSUME NEW f \in C, Beats(f, C)
        PROVE  f \in atDepth /\ \A g \in atDepth : g = f \/ (f.tagged /\ ~g.tagged)
    <2>1. PICK h \in C : Depth(h) = m
      BY <1>3
    <2>2. Depth(f) <= m
      BY <1>3, <1>7, <2>1 DEF Beats
    <2>3. Depth(f) = m
      BY <1>3, <2>2
    <2>4. ASSUME NEW g \in atDepth, g # f
          PROVE  f.tagged /\ ~g.tagged
      BY <1>3, <1>7, <2>3, <2>4 DEF Beats
    <2> QED
      BY <2>3, <2>4
  <1>8. ASSUME NEW x, tagged = {x}
        PROVE  tagged = {f \in C : Beats(f, C)}
    <2>1. x \in C /\ Depth(x) = m /\ x.tagged /\ \A f \in C : Depth(f) = m /\ f.tagged => f = x
      BY <1>8
    <2>2. Beats(x, C)
      <3> SUFFICES ASSUME NEW g \in C \ {x}
                   PROVE  Depth(x) < Depth(g) \/ (Depth(x) = Depth(g) /\ x.tagged /\ ~g.tagged)
        BY DEF Beats
      <3>1. Depth(g) # m => m < Depth(g)
        BY <1>3
      <3>2. Depth(g) = m => ~g.tagged
        BY <2>1
      <3> QED
        BY <2>1, <3>1, <3>2
    <2>3. ASSUME NEW f \in C, Beats(f, C)
          PROVE  f = x
      <3>1. x \in atDepth /\ x.tagged
        BY <2>1
      <3> QED
        BY <1>7, <2>3, <3>1
    <2> QED
      BY <1>8, <2>1, <2>2, <2>3
  <1>9. ASSUME ~\E x : atDepth = {x}, ~\E x : tagged = {x}
        PROVE  {} = {f \in C : Beats(f, C)}
    <2> SUFFICES ASSUME NEW f \in C, Beats(f, C)
                 PROVE  FALSE
      OBVIOUS
    <2>1. f \in atDepth /\ \A g \in atDepth : g = f \/ (f.tagged /\ ~g.tagged)
      BY <1>7
    <2>2. PICK g \in atDepth : g # f
      BY <1>9, <2>1
    <2>3. f \in tagged
      BY <2>1, <2>2
    <2>4. \A h \in tagged : h = f
      BY <2>1
    <2> QED
      BY <1>9, <2>3, <2>4
  <1> HIDE DEF atDepth, tagged
  <1> QED
    BY <1>5, <1>6, <1>8, <1>9

-----------------------------------------------------------------------------
(* The struct type of a scenario.                                          *)

LEMMA TypeFacts ==
    ASSUME NEW s \in Scenarios
    PROVE  /\ IsFiniteSet(s.type)
           /\ \A f \in s.type :
                /\ f.path \in Path /\ Len(f.path) \in Nat
                /\ Depth(f) \in Nat /\ f.tagged \in BOOLEAN
  <1>1. TypeAssumption(s.type)
    BY ScenariosAssumption
  <1>2. IsFiniteSet(s.type)
    BY <1>1 DEF TypeAssumption
  <1>3. \A f \in s.type : f.path \in Seq(STRING) /\ f.index \in Seq(Nat) /\ f.tagged \in BOOLEAN
    BY <1>1 DEF TypeAssumption
  <1>4. \A f \in s.type : Depth(f) \in Nat
    BY <1>3 DEF Depth
  <1> QED
    BY <1>2, <1>3, <1>4 DEF Path

\* The candidates for a path are fields of that path.
LEMMA CandidatesAre ==
    ASSUME NEW type, NEW p
    PROVE  \A f \in Candidates(type, p) : f \in type /\ f.path = p
  BY DEF Candidates, Collected, Visible, SameStruct

\* What is collected has a place in memory of its own.
LEMMA FieldsApart ==
    ASSUME scenario \in Scenarios
    PROVE  \A f, g \in Fields : f.cell = g.cell => f = g
  <1>1. TypeAssumption(scenario.type)
    BY ScenariosAssumption
  <1> QED
    BY <1>1 DEF Fields, TypeAssumption

\* The field a path is bound to is the one Bindable describes.
LEMMA FieldAtFacts ==
    ASSUME scenario \in Scenarios, NEW p
    PROVE  FieldAt(p) = {f \in scenario.type : f.path = p /\ Bindable(f)}
  <1> DEFINE C == Candidates(scenario.type, p)
  <1>1. \A f \in C : f \in scenario.type /\ f.path = p
    BY CandidatesAre
  <1>2. FieldAt(p) = IF C = {} THEN {} ELSE DominantField(C)
    BY DEF FieldAt, FieldOf
  <1>3. \A f \in C : Bindable(f) <=> Beats(f, C)
    BY <1>1 DEF Bindable, Beats
  <1>7. C \subseteq scenario.type /\ \A f : f.path = p /\ Bindable(f) => f \in C
    BY <1>1 DEF Bindable
  <1>4. IsFiniteSet(C) /\ \A f \in C : Depth(f) \in Nat /\ f.tagged \in BOOLEAN
    BY <1>7, TypeFacts, FS_Subset
  <1> HIDE DEF C
  <1>5. C # {} => DominantField(C) = {f \in C : Beats(f, C)}
    BY <1>4, DominantFacts
  <1>6. FieldAt(p) = {f \in C : Bindable(f)}
    BY <1>2, <1>3, <1>5
  <1> QED
    BY <1>1, <1>6, <1>7

\* No two fields are bindable by one name.
LEMMA OneField ==
    ASSUME scenario \in Scenarios, NEW f \in scenario.type, NEW g \in scenario.type,
           f.path = g.path, Bindable(f), Bindable(g)
    PROVE  f = g
  <1> SUFFICES ASSUME f # g
               PROVE  FALSE
    OBVIOUS
  <1>1. Depth(f) \in Nat /\ Depth(g) \in Nat
    BY TypeFacts
  <1>2. /\ f \in Candidates(scenario.type, g.path) \ {g}
        /\ g \in Candidates(scenario.type, f.path) \ {f}
    BY DEF Bindable
  <1>3. Depth(f) < Depth(g) \/ (Depth(f) = Depth(g) /\ f.tagged /\ ~g.tagged)
    BY <1>2 DEF Bindable
  <1>4. Depth(g) < Depth(f) \/ (Depth(g) = Depth(f) /\ g.tagged /\ ~f.tagged)
    BY <1>2 DEF Bindable
  <1> QED
    BY <1>1, <1>3, <1>4

\* Above a field the names are bound to containers.
LEMMA AboveField ==
    ASSUME scenario \in Scenarios, NEW f \in scenario.type, NEW n \in 0..(Len(f.path) - 1),
           NEW g \in scenario.type, g.path = SubSeq(f.path, 1, n), Bindable(g)
    PROVE  Head(g.kind) \in Containers
  <1>0. TypeAssumption(scenario.type)
    BY ScenariosAssumption
  <1>3. \E h \in FieldOf(scenario.type, SubSeq(f.path, 1, n)) : Head(h.kind) \in Containers
    BY <1>0 DEF TypeAssumption
  <1>1. PICK h \in FieldAt(SubSeq(f.path, 1, n)) : Head(h.kind) \in Containers
    BY <1>3 DEF FieldAt
  <1>2. h \in scenario.type /\ h.path = g.path /\ Bindable(h)
    BY <1>1, FieldAtFacts
  <1> QED
    BY <1>1, <1>2, OneField

-----------------------------------------------------------------------------
(* The type invariant.                                                     *)

\* Work and a tree are there only while a Load binds; the tree stays until the next.
Stages ==
    /\ phase # "bind" => work = <<>>
    /\ phase \in {"read", "resolve"} => tree = <<>>
    /\ phase = "bind" => tree # <<>>

TypeInv == TypeOK /\ Stages

LEMMA EmptyTree ==
    /\ DOMAIN <<>> = {}
    /\ \A d : WellFormed(d) => d # <<>>
    /\ WellFormed(Empty)
  <1>1. DOMAIN <<>> = {}
    OBVIOUS
  <1>2. ASSUME NEW d, WellFormed(d)
        PROVE  d # <<>>
    BY <1>1, <1>2 DEF WellFormed
  <1>3. WellFormed(Empty)
    <2>1. DOMAIN Empty = {<<>>} /\ DOMAIN Empty[<<>>] = {"object"}
      BY DEF Empty
    <2>2. <<>> \in Path /\ Len(<<>>) = 0
      BY EmptySeq DEF Path
    <2>3. Placed(Empty, <<>>)
      BY <2>1, <2>2 DEF Placed, Sorts
    <2>4. IsFiniteSet(DOMAIN Empty)
      BY <2>1, FS_Singleton
    <2> QED
      BY <2>1, <2>3, <2>4, WellFormedIsPlaced
  <1> QED
    BY <1>1, <1>2, <1>3

LEMMA TypeInit == Init => TypeInv
  <1> SUFFICES ASSUME Init
               PROVE  TypeInv
    OBVIOUS
  <1>1. work \in Seq(DOMAIN tree)
    BY EmptySeq DEF Init
  <1>2. budget \in [loads : Nat, edits : Nat]
    BY ScenariosAssumption DEF Init
  <1>3. DOMAIN target = DOMAIN scenario.defaults /\ DOMAIN before = DOMAIN target
    BY DEF Init
  <1>4. DOMAIN files = DOMAIN scenario.contents /\ \A f \in DOMAIN files : files[f] \in scenario.contents[f]
    BY DEF Init
  <1> QED
    BY <1>1, <1>2, <1>3, <1>4, EmptyTree DEF Init, TypeInv, TypeOK, Stages

\* A text that fails gives one of the reasons of a resolution.
LEMMA ReportsFacts == Reports \subseteq Reasons
  BY DEF Reports, Failing

LEMMA FinishType ==
    ASSUME TypeInv, NEW reason, Finish(reason), UNCHANGED tree,
           reason \in {"none", "read", "decode", "circular", "unresolved", "unknown", "mismatch"},
           DOMAIN target' = DOMAIN target
    PROVE  TypeInv'
  <1>1. work' \in Seq(DOMAIN tree')
    BY EmptySeq DEF Finish
  <1> QED
    BY <1>1 DEF Finish, TypeInv, TypeOK, Stages, WellFormed

\* An order of the children is a sequence of nodes.
LEMMA OrderType ==
    ASSUME WellFormed(tree), NEW path, NEW order \in Orders(path)
    PROVE  /\ order \in Seq(DOMAIN tree) /\ order \in Seq(Children(path))
           /\ \A child \in Children(path) : \E i \in DOMAIN order : order[i] = child
           /\ \A i, j \in DOMAIN order : i # j => order[i] # order[j]
  <1> DEFINE n == Cardinality(Children(path))
  <1>1. order \in [1..n -> Children(path)] /\ Children(path) \subseteq DOMAIN tree
    BY DEF Orders, Children
  <1>2. n \in Nat
    <2>1. IsFiniteSet(Children(path))
      BY <1>1, FS_Subset DEF WellFormed
    <2> QED
      BY <2>1, FS_CardinalityType
  <1> QED
    BY <1>1, <1>2, SeqDef DEF Orders

\* What a source holds when it is read.
LEMMA SourceContent ==
    ASSUME TypeOK, next <= Len(scenario.sources)
    PROVE  LET content == files[scenario.sources[next].file] IN
           /\ scenario.sources[next].file \in DOMAIN scenario.contents
           /\ content \in scenario.contents[scenario.sources[next].file]
           /\ IsA(content, "absent") \/ WellFormed(content.value)
  <1>0. /\ scenario \in Scenarios /\ next \in Nat \ {0}
        /\ scenario.sources \in Seq([file : DOMAIN scenario.contents, optional : BOOLEAN])
    BY ScenariosAssumption DEF TypeOK
  <1>1. next \in 1..Len(scenario.sources)
    BY <1>0
  <1>2. scenario.sources[next] \in [file : DOMAIN scenario.contents, optional : BOOLEAN]
    BY <1>0, <1>1, ElementOfSeq
  <1>3. /\ scenario.sources[next].file \in DOMAIN scenario.contents
        /\ files[scenario.sources[next].file] \in scenario.contents[scenario.sources[next].file]
    BY <1>2 DEF TypeOK
  <1> QED
    BY <1>0, <1>3, ScenariosAssumption

LEMMA TypeStep == TypeInv /\ [Next]_vars => TypeInv'
  <1> SUFFICES ASSUME TypeInv, [Next]_vars
               PROVE  TypeInv'
    OBVIOUS
  <1> USE DEF Stages
  <1>1. CASE Load
    <2>1. work' = <<>> /\ work' \in Seq(DOMAIN tree')
      BY <1>1, EmptySeq DEF Load, TypeInv
    <2>2. budget' \in [loads : Nat, edits : Nat]
      BY <1>1 DEF Load, TypeInv, TypeOK
    <2> QED
      BY <1>1, <2>1, <2>2, EmptyTree DEF Load, TypeInv, TypeOK
  <1>2. CASE ReadSource
    <2> DEFINE source == scenario.sources[next]
               content == files[source.file]
    <2>0. IsA(content, "absent") \/ WellFormed(content.value)
      BY <1>2, SourceContent DEF ReadSource, TypeInv
    <2>1. CASE IsA(content, "absent") /\ source.optional
      <3>1. /\ next' = next + 1 /\ UNCHANGED tree
            /\ UNCHANGED <<scenario, environment, files, phase, documents, merged, work, before,
                           error, budget, target>>
        BY <1>2, <2>1 DEF ReadSource
      <3> QED
        BY <3>1 DEF TypeInv, TypeOK
    <2>2. CASE Finish("read")
      BY <1>2, <2>2, FinishType DEF ReadSource
    <2>3. CASE Finish("decode")
      BY <1>2, <2>3, FinishType DEF ReadSource
    <2>4. CASE /\ ~IsA(content, "absent") /\ next' = next + 1
               /\ merged' = MergeTree(merged, content.value)
               /\ UNCHANGED <<scenario, environment, files, phase, work, before, error, budget>>
      <3>1. WellFormed(MergeTree(merged, content.value))
        BY <2>0, <2>4, MergeWellFormed DEF TypeInv, TypeOK
      <3>2. WellFormed(merged)'
        BY <2>4, <3>1
      <3> QED
        BY <1>2, <2>4, <3>2 DEF ReadSource, TypeInv, TypeOK
    <2> QED
      BY <1>2, <2>1, <2>2, <2>3, <2>4 DEF ReadSource
  <1>3. CASE EndSources
    <2>1. WellFormed(merged)'
      BY <1>3, SchemaDropped DEF EndSources, TypeInv, TypeOK
    <2> QED
      BY <1>3, <2>1 DEF EndSources, TypeInv, TypeOK, WellFormed
  <1>4. CASE Resolve
    <2>1. CASE /\ \E reason \in Reports : Finish(reason)
               /\ UNCHANGED tree
      BY <1>4, <2>1, FinishType, ReportsFacts DEF Resolve, Reasons
    <2>2. CASE /\ tree' = ResolveTree /\ work' = << <<>> >> /\ phase' = "bind"
               /\ UNCHANGED <<scenario, environment, files, next, documents, merged, before,
                              error, budget>>
      <3>1. WellFormed(ResolveTree)
        BY ResolvedWellFormed DEF TypeInv, TypeOK
      <3>2. WellFormed(tree)' /\ tree' # <<>>
        BY <2>2, <3>1, EmptyTree
      <3>3. <<>> \in DOMAIN tree'
        BY <3>2 DEF WellFormed
      <3>4. work' \in Seq(DOMAIN tree')
        BY <2>2, <3>3
      <3> QED
        BY <1>4, <2>2, <3>2, <3>4 DEF Resolve, TypeInv, TypeOK, WellFormed
    <2> QED
      BY <1>4, <2>1, <2>2 DEF Resolve
  <1>5. CASE BindValue
    <2> DEFINE path == Head(work)
    <2>0. /\ phase = "bind" /\ work # <<>> /\ UNCHANGED tree /\ WellFormed(tree)
          /\ work \in Seq(DOMAIN tree) /\ Tail(work) \in Seq(DOMAIN tree)
      <3>1. work \in Seq(DOMAIN tree) /\ work # <<>>
        BY <1>5 DEF BindValue, TypeInv, TypeOK
      <3>2. Tail(work) \in Seq(DOMAIN tree)
        BY <3>1, HeadTailProperties
      <3> QED
        BY <1>5, <3>1, <3>2 DEF BindValue, TypeInv, TypeOK
    <2>1. CASE FieldAt(path) = {} /\ Finish("unknown") /\ UNCHANGED target
      BY <2>0, <2>1, FinishType
    <2>2. ASSUME NEW field \in FieldAt(path), Finish("mismatch"),
                 target' = IF Head(field.kind) = "pointer"
                           THEN [target EXCEPT ![field.cell] = Allocated] ELSE target
          PROVE  TypeInv'
      <3>1. DOMAIN target' = DOMAIN target
        BY <2>2
      <3> QED
        BY <2>0, <2>2, <3>1, FinishType
    <2>3. ASSUME work' \in Seq(DOMAIN tree), DOMAIN target' = DOMAIN target,
                 UNCHANGED <<scenario, environment, files, phase, next, documents, merged,
                             before, error, budget>>
          PROVE  TypeInv'
      BY <2>0, <2>3 DEF TypeInv, TypeOK, WellFormed
    <2>4. ASSUME NEW field \in FieldAt(path), ~Mismatched(field, path),
                 target' = CASE Head(field.kind) = "pointer" ->
                                   [target EXCEPT ![field.cell] = Allocated]
                              [] Head(field.kind) \in Containers \ {"pointer"} -> target
                              [] OTHER -> [target EXCEPT ![field.cell] =
                                             CHOOSE v \in Converted(field.kind, path) : TRUE],
                 IF Head(field.kind) \in Containers
                 THEN \E order \in Orders(path) : work' = order \o Tail(work)
                 ELSE work' = Tail(work)
          PROVE  DOMAIN target' = DOMAIN target /\ work' \in Seq(DOMAIN tree)
      <3>1. DOMAIN target' = DOMAIN target
        BY <2>4
      <3>2. ASSUME NEW order \in Orders(path), work' = order \o Tail(work)
            PROVE  work' \in Seq(DOMAIN tree)
        <4>1. order \in Seq(DOMAIN tree)
          BY <2>0, OrderType
        <4> QED
          BY <2>0, <3>2, <4>1, ConcatProperties
      <3> QED
        BY <2>0, <2>4, <3>1, <3>2
    <2> QED
      BY <1>5, <2>0, <2>1, <2>2, <2>3, <2>4 DEF BindValue
  <1>6. CASE Return
    BY <1>6, FinishType DEF Return
  <1>7. CASE \E file \in DOMAIN files : Edit(file)
    <2>1. budget' \in [loads : Nat, edits : Nat]
      BY <1>7 DEF Edit, TypeInv, TypeOK
    <2> QED
      <3>0. PICK file \in DOMAIN files : Edit(file)
        BY <1>7
      <3>1. PICK content \in scenario.contents[file] :
              files' = [files EXCEPT ![file] = content]
        BY <3>0 DEF Edit
      <3>2. UNCHANGED <<scenario, environment, phase, next, documents, merged, tree, work, target,
                        before, error>>
        BY <1>7 DEF Edit
      <3>3. /\ DOMAIN files' = DOMAIN scenario.contents
            /\ \A f \in DOMAIN files' : files'[f] \in scenario.contents[f]
        BY <3>1 DEF TypeInv, TypeOK
      <3> QED
        BY <2>1, <3>2, <3>3 DEF TypeInv, TypeOK
  <1>8. CASE UNCHANGED vars
    BY <1>8 DEF vars, TypeInv, TypeOK, WellFormed
  <1> QED
    BY <1>1, <1>2, <1>3, <1>4, <1>5, <1>6, <1>7, <1>8 DEF Next

LEMMA TypeInvariant == Spec => []TypeInv
  <1>1. Init => TypeInv
    BY TypeInit
  <1>2. TypeInv /\ [Next]_vars => TypeInv'
    BY TypeStep
  <1> QED
    BY <1>1, <1>2, PTL DEF Spec

-----------------------------------------------------------------------------
(* The merge of the sources.                                               *)

\* The documents there are.
Readable ==
    {content.value :
       content \in {c \in UNION {scenario.contents[file] : file \in DOMAIN scenario.contents} :
                      ~IsA(c, "absent")}}

\* The documents read so far that have a say at a path.
Speaking(path) == {i \in DOMAIN documents : Speaks(documents[i], path)}

\* The last of them decided, and where none has a say there is nothing.
Heard(path) ==
    IF Speaking(path) = {} THEN path \notin DOMAIN merged
    ELSE Alike(merged, documents[Max(Speaking(path))], path)

SourcesInv ==
    /\ documents \in Seq(Readable)
    /\ phase = "read" => \A path \in Path \ {<<>>} : Heard(path)
    /\ LastWordWins

LEMMA ReadableFacts ==
    ASSUME scenario \in Scenarios, NEW d \in Readable
    PROVE  WellFormed(d)
  <1>1. PICK file \in DOMAIN scenario.contents, content \in UNION {scenario.contents[f] : f \in DOMAIN scenario.contents} :
          content \in scenario.contents[file] /\ ~IsA(content, "absent") /\ d = content.value
    BY DEF Readable
  <1> QED
    BY <1>1, ScenariosAssumption

LEMMA DocumentsFacts ==
    ASSUME documents \in Seq(Readable)
    PROVE  /\ Len(documents) \in Nat /\ DOMAIN documents = 1..Len(documents)
           /\ \A i \in DOMAIN documents : documents[i] \in Readable
  OBVIOUS

\* The last speaker of some is one of them.
LEMMA LastSpeaker ==
    ASSUME documents \in Seq(Readable), NEW path, Speaking(path) # {}
    PROVE  /\ Max(Speaking(path)) \in Speaking(path)
           /\ \A i \in Speaking(path) : Max(Speaking(path)) >= i
  <1>1. Len(documents) \in Nat /\ Speaking(path) \in SUBSET (0..Len(documents))
    BY DocumentsFacts DEF Speaking
  <1> HIDE DEF Speaking
  <1> QED
    BY <1>1, MaxFacts

\* One more document: it decides where it has a say, elsewhere nothing changes.
LEMMA OneMore ==
    ASSUME documents \in Seq(Readable), scenario \in Scenarios, WellFormed(merged),
           NEW d \in Readable, NEW path \in Path, Heard(path),
           merged' = MergeTree(merged, d), documents' = Append(documents, d)
    PROVE  Heard(path)'
  <1> DEFINE n == Len(documents)
             speaking == Speaking(path)
             later == Speaking(path)'
  <1>1. /\ n \in Nat /\ DOMAIN documents = 1..n /\ documents' \in Seq(Readable)
        /\ Len(documents') = n + 1 /\ DOMAIN documents' = 1..(n + 1)
        /\ documents'[n + 1] = d /\ \A i \in 1..n : documents'[i] = documents[i]
    <2>1. documents' \in Seq(Readable)
      BY AppendProperties
    <2> QED
      BY <2>1, DocumentsFacts
  <1>2. later = IF Speaks(d, path) THEN speaking \cup {n + 1} ELSE speaking
    BY <1>1 DEF Speaking
  <1>3. speaking \subseteq 1..n
    BY <1>1 DEF Speaking
  <1>4. WellFormed(d)
    BY ReadableFacts
  <1> HIDE DEF speaking, later
  <1>5. CASE Speaks(d, path)
    <2>1. Max(later) = n + 1
      <3>1. n + 1 \in Nat /\ later = speaking \cup {n + 1}
        BY <1>1, <1>2, <1>5
      <3>0. n \in Nat /\ \A i \in speaking : i \in 1..n
        BY <1>1, <1>3
      <3> HIDE DEF n
      <3>2. \A i \in later : i \in 0..(n + 1)
        BY <3>0, <3>1
      <3>3. later \in SUBSET (0..(n + 1)) /\ n + 1 \in later /\ later # {}
        BY <3>1, <3>2
      <3>4. Max(later) \in later /\ \A k \in later : Max(later) >= k
        BY <3>1, <3>3, MaxFacts
      <3>5. Max(later) >= n + 1 /\ Max(later) \in 0..(n + 1)
        BY <3>3, <3>4
      <3> QED
        BY <3>1, <3>5
    <2>2. Alike(merged', d, path)
      BY <1>4, <1>5, SpeakerDecides
    <2> QED
      BY <1>1, <1>2, <1>5, <2>1, <2>2 DEF Heard, later
  <1>6. CASE ~Speaks(d, path)
    <2>1. Alike(merged', merged, path)
      BY <1>4, <1>6, SilentLeaves
    <2>2. later = speaking
      BY <1>2, <1>6
    <2>3. CASE speaking = {}
      BY <2>1, <2>2, <2>3 DEF Heard, later, speaking, Alike
    <2>4. CASE speaking # {}
      <3>1. Max(speaking) \in 1..n
        BY <1>3, <2>4, LastSpeaker DEF speaking
      <3>2. Alike(merged, documents[Max(speaking)], path)
        BY <2>4 DEF Heard, speaking
      <3>3. documents'[Max(later)] = documents[Max(speaking)]
        BY <1>1, <2>2, <3>1
      <3>4. Alike(merged', documents'[Max(later)], path)
        BY <2>1, <3>2, <3>3 DEF Alike
      <3> QED
        BY <2>2, <2>4, <3>4 DEF Heard, later
    <2> QED
      BY <2>3, <2>4
  <1> QED
    BY <1>5, <1>6

LEMMA SourcesStep == TypeInv /\ SourcesInv /\ [Next]_vars => SourcesInv'
  <1> SUFFICES ASSUME TypeInv, SourcesInv, [Next]_vars
               PROVE  SourcesInv'
    OBVIOUS
  <1>0. scenario' = scenario /\ scenario \in Scenarios /\ WellFormed(merged)
        /\ Readable' = Readable
    <2>1. scenario' = scenario
      BY DEF Next, vars, Load, ReadSource, EndSources, Resolve, BindValue, Return, Edit, Finish
    <2> QED
      BY <2>1 DEF TypeInv, TypeOK, Readable
  <1>1. CASE Load
    <2>1. documents' = <<>> /\ documents' \in Seq(Readable) /\ phase' = "read" /\ merged' = Empty
      BY <1>1, EmptySeq DEF Load
    <2>2. ASSUME NEW path \in Path \ {<<>>}
          PROVE  Heard(path)'
      <3>1. Speaking(path)' = {}
        BY <2>1 DEF Speaking
      <3>2. path \notin DOMAIN merged'
        BY <2>1 DEF Empty
      <3> QED
        BY <3>1, <3>2 DEF Heard
    <2> QED
      BY <1>0, <2>1, <2>2 DEF SourcesInv, LastWordWins
  <1>2. CASE ReadSource
    <2> DEFINE source == scenario.sources[next]
               content == files[source.file]
    <2>1. CASE UNCHANGED <<documents, merged>> /\ phase' # "resolve"
      <3>1. \A path \in Path \ {<<>>} : Heard(path)
        BY <1>2 DEF SourcesInv, ReadSource
      <3>2. \A path \in Path \ {<<>>} : Heard(path)'
        BY <2>1, <3>1 DEF Heard, Speaking
      <3> QED
        BY <1>0, <2>1, <3>2 DEF SourcesInv, LastWordWins
    <2>2. CASE /\ ~IsA(content, "absent") /\ phase' = phase /\ phase = "read"
               /\ merged' = MergeTree(merged, content.value)
               /\ documents' = Append(documents, content.value)
      <3>1. content.value \in Readable
        BY <1>2, <2>2, SourceContent DEF ReadSource, TypeInv, Readable
      <3> HIDE DEF content
      <3>2. documents \in Seq(Readable) /\ \A path \in Path \ {<<>>} : Heard(path)
        BY <2>2 DEF SourcesInv
      <3>3. \A path \in Path \ {<<>>} : Heard(path)'
        BY <1>0, <2>2, <3>1, <3>2, OneMore
      <3>4. documents' \in Seq(Readable)
        BY <2>2, <3>1, <3>2, AppendProperties
      <3> QED
        BY <1>0, <2>2, <3>3, <3>4 DEF SourcesInv, LastWordWins
    <2> QED
      BY <1>2, <2>1, <2>2 DEF ReadSource, Finish
  <1>3. CASE EndSources
    <2>1. /\ phase = "read" /\ phase' = "resolve" /\ documents' = documents
          /\ merged' = WithoutSchemaKey(merged) /\ documents \in Seq(Readable)
          /\ \A path \in Path \ {<<>>} : Heard(path)
      BY <1>3 DEF EndSources, SourcesInv
    <2> DEFINE Named == UNION {DOMAIN documents[i] : i \in DOMAIN documents}
    <2>2. ASSUME NEW path, path \in Named \cup DOMAIN merged',
                 path # <<>>, Head(path) # "$schema"
          PROVE  /\ Speaking(path) # {}
                 /\ Alike(merged', documents[Max(Speaking(path))], path)
      <3>1. path \in Path /\ (path \in DOMAIN merged \/ \E i \in DOMAIN documents : path \in DOMAIN documents[i])
        <4>1. CASE path \in DOMAIN merged'
          <5>1. path \in DOMAIN merged
            BY <2>1, <4>1 DEF WithoutSchemaKey
          <5> QED
            BY <1>0, <5>1, PathsOfDocument
        <4>2. CASE \E i \in DOMAIN documents : path \in DOMAIN documents[i]
          BY <1>0, <2>1, <4>2, DocumentsFacts, ReadableFacts, PathsOfDocument
        <4>3. path \in DOMAIN merged' \/ \E i \in DOMAIN documents : path \in DOMAIN documents[i]
          <5>1. path \in DOMAIN merged' \/ path \in Named
            <6> HIDE DEF Named
            <6> QED
              BY <2>2
          <5>2. ASSUME path \in Named
                PROVE  \E i \in DOMAIN documents : path \in DOMAIN documents[i]
            BY <5>2
          <5> QED
            BY <5>1, <5>2
        <4>4. path \in DOMAIN merged' => path \in DOMAIN merged
          BY <2>1 DEF WithoutSchemaKey
        <4> QED
          BY <4>1, <4>2, <4>3, <4>4
      <3>2. Heard(path)
        BY <2>1, <2>2, <3>1
      <3>3. Speaking(path) # {}
        BY <3>1, <3>2 DEF Heard, Speaking, Speaks
      <3>4. Alike(merged', merged, path)
        BY <1>0, <2>1, <2>2, <3>1, SchemaDropped
      <3> QED
        BY <3>2, <3>3, <3>4 DEF Heard, Alike
    <2>3. LastWordWins'
      <3>1. \A path \in Named \cup DOMAIN merged' :
              path = <<>> \/ Head(path) = "$schema"
              \/ (Speaking(path) # {} /\ Alike(merged', documents[Max(Speaking(path))], path))
        BY <2>2
      <3>2. \A path : {i \in DOMAIN documents : Speaks(documents[i], path)} = Speaking(path)
        BY DEF Speaking
      <3> HIDE <2>2
      <3> QED
        BY <2>1, <3>1, <3>2 DEF LastWordWins
    <2> QED
      BY <1>0, <2>1, <2>3 DEF SourcesInv
  <1>4. CASE /\ UNCHANGED <<documents, merged>> /\ phase' # "read"
             /\ phase' = "resolve" => phase = "resolve"
    BY <1>0, <1>4 DEF SourcesInv, LastWordWins
  <1>5. CASE UNCHANGED <<documents, merged, phase>>
    <2>1. phase' = "read" => \A path \in Path \ {<<>>} : Heard(path)'
      BY <1>5 DEF SourcesInv, Heard, Speaking
    <2>2. LastWordWins'
      BY <1>5 DEF SourcesInv, LastWordWins
    <2> QED
      BY <1>0, <1>5, <2>1, <2>2 DEF SourcesInv
  <1>6. CASE Resolve \/ BindValue \/ Return
    <2>1. /\ UNCHANGED <<documents, merged>> /\ phase' # "read"
          /\ phase' = "resolve" => phase = "resolve"
      BY <1>6 DEF Resolve, BindValue, Return, Finish
    <2> QED
      BY <1>4, <2>1
  <1>7. CASE (\E file \in DOMAIN files : Edit(file)) \/ UNCHANGED vars
    BY <1>5, <1>7 DEF Edit, vars
  <1> QED
    BY <1>1, <1>2, <1>3, <1>6, <1>7 DEF Next

LEMMA SourcesInvariant == Spec => []SourcesInv
  <1>1. Init => SourcesInv
    BY EmptySeq DEF Init, SourcesInv, LastWordWins
  <1>2. TypeInv /\ SourcesInv /\ [Next]_vars => SourcesInv'
    BY SourcesStep
  <1> QED
    BY <1>1, <1>2, TypeInvariant, PTL DEF Spec

-----------------------------------------------------------------------------
(* What lies under what.                                                   *)

Under(q, p) == Len(q) <= Len(p) /\ SubSeq(p, 1, Len(q)) = q

LEMMA UnderRefl ==
    ASSUME NEW p \in Path
    PROVE  Under(p, p)
  BY WholePath DEF Under

LEMMA UnderTrans ==
    ASSUME NEW q \in Path, NEW p \in Path, NEW r \in Path, Under(q, p), Under(p, r)
    PROVE  Under(q, r)
  <1>1. Len(q) \in Nat /\ Len(p) \in Nat /\ Len(r) \in Nat
    BY WholePath
  <1>2. Len(p) \in 0..Len(r) /\ Len(q) \in 0..Len(p) /\ Len(q) <= Len(r)
    BY <1>1 DEF Under
  <1>3. SubSeq(SubSeq(r, 1, Len(p)), 1, Len(q)) = SubSeq(r, 1, Len(q))
    BY <1>2, PrefixOfPrefix
  <1> QED
    BY <1>2, <1>3 DEF Under

\* Of two paths above a third one is above the other.
LEMMA UnderBoth ==
    ASSUME NEW q \in Path, NEW p \in Path, NEW r \in Path, Under(q, r), Under(p, r),
           Len(q) <= Len(p)
    PROVE  Under(q, p)
  <1>1. Len(q) \in Nat /\ Len(p) \in Nat /\ Len(r) \in Nat
    BY WholePath
  <1>2. Len(p) \in 0..Len(r) /\ Len(q) \in 0..Len(p)
    BY <1>1 DEF Under
  <1>3. SubSeq(SubSeq(r, 1, Len(p)), 1, Len(q)) = SubSeq(r, 1, Len(q))
    BY <1>2, PrefixOfPrefix
  <1> QED
    BY <1>2, <1>3 DEF Under

LEMMA SameLength ==
    ASSUME NEW q \in Path, NEW p \in Path, Under(q, p), Len(q) = Len(p)
    PROVE  q = p
  BY WholePath DEF Under

LEMMA ChildFacts ==
    ASSUME WellFormed(tree), NEW p \in DOMAIN tree, NEW c \in Children(p)
    PROVE  /\ c \in DOMAIN tree /\ c \in Path /\ Len(c) = Len(p) + 1 /\ Len(p) \in Nat
           /\ Under(p, c) /\ c # p
  <1>1. c \in DOMAIN tree /\ c # <<>> /\ SubSeq(c, 1, Len(c) - 1) = p
    BY DEF Children, Front
  <1>2. c \in Path /\ Len(c) \in Nat /\ Len(c) # 0
    BY <1>1, PathsOfDocument, EmptySeq DEF Path
  <1>3. Len(c) - 1 \in 0..Len(c)
    BY <1>2
  <1>4. Len(p) = Len(c) - 1
    BY <1>1, <1>2, <1>3, PrefixFacts
  <1> QED
    BY <1>1, <1>2, <1>4 DEF Under

\* What is strictly under a node is under one of its children.
LEMMA UnderChild ==
    ASSUME WellFormed(tree), NEW p \in DOMAIN tree, NEW r \in DOMAIN tree, Under(p, r), r # p
    PROVE  \E c \in Children(p) : Under(c, r)
  <1>1. p \in Path /\ r \in Path /\ Len(p) \in Nat /\ Len(r) \in Nat
    BY PathsOfDocument
  <1>2. Len(p) < Len(r)
    BY <1>1, SameLength DEF Under
  <1> DEFINE c == SubSeq(r, 1, Len(p) + 1)
  <1>3. Len(p) + 1 \in 0..Len(r) /\ Len(p) \in 0..(Len(p) + 1)
    BY <1>1, <1>2
  <1>4. c \in Path /\ Len(c) = Len(p) + 1
    BY <1>1, <1>3, PrefixFacts
  <1>5. SubSeq(c, 1, Len(p)) = p
    BY <1>1, <1>3, PrefixOfPrefix DEF Under
  <1>6. c \in DOMAIN tree
    <2>1. CASE Len(p) + 1 = Len(r)
      BY <1>1, <2>1, WholePath
    <2>2. CASE Len(p) + 1 # Len(r)
      <3>1. Len(p) + 1 \in 0..(Len(r) - 1)
        BY <1>1, <1>2, <2>2
      <3> QED
        BY <3>1, AboveFacts
    <2> QED
      BY <2>1, <2>2
  <1>7. Under(c, r)
    BY <1>1, <1>2, <1>4 DEF Under
  <1> HIDE DEF c
  <1>8. c # <<>> /\ Front(c) = p
    BY <1>1, <1>4, <1>5, EmptySeq DEF Front
  <1> QED
    BY <1>6, <1>7, <1>8 DEF Children

\* What is above a child is the child or above its parent.
LEMMA AboveChild ==
    ASSUME WellFormed(tree), NEW p \in DOMAIN tree, NEW c \in Children(p), NEW q \in Path, Under(q, c)
    PROVE  q = c \/ Under(q, p)
  <1>1. /\ c \in Path /\ p \in Path /\ Len(c) = Len(p) + 1 /\ Len(p) \in Nat /\ Under(p, c)
        /\ Len(q) \in Nat
    BY ChildFacts, PathsOfDocument, WholePath
  <1>2. CASE Len(q) = Len(c)
    BY <1>1, <1>2, SameLength
  <1>3. CASE Len(q) # Len(c)
    <2>1. Len(q) <= Len(c)
      BY DEF Under
    <2>2. Len(c) \in Nat
      BY <1>1, WholePath
    <2>3. Len(q) <= Len(p)
      BY <1>1, <1>3, <2>1, <2>2
    <2> QED
      BY <1>1, <2>3, UnderBoth
  <1> QED
    BY <1>2, <1>3

-----------------------------------------------------------------------------
(* The work list.                                                          *)

\* Nothing on the list is under anything else on it.
Separate(list) == \A i, j \in DOMAIN list : Under(list[i], list[j]) => i = j

\* Binding has still to come by.
Pending(list, p) == \E i \in DOMAIN list : Under(list[i], p)

\* The first of the list is replaced by some of its children.
LEMMA Advance ==
    ASSUME WellFormed(tree), NEW list \in Seq(DOMAIN tree), list # <<>>, Separate(list),
           NEW new \in Seq(Children(Head(list))),
           \A i, j \in DOMAIN new : i # j => new[i] # new[j]
    PROVE  /\ new \o Tail(list) \in Seq(DOMAIN tree)
           /\ Separate(new \o Tail(list))
           /\ \A r : (\E i \in DOMAIN (new \o Tail(list)) : (new \o Tail(list))[i] = r)
                <=> \/ \E i \in DOMAIN new : new[i] = r
                    \/ r # Head(list) /\ \E i \in DOMAIN list : list[i] = r
  <1> DEFINE p == Head(list)
             later == new \o Tail(list)
             k == Len(new)
             m == Len(list)
  <1>1. /\ p = list[1] /\ p \in DOMAIN tree /\ m \in Nat /\ m >= 1 /\ DOMAIN list = 1..m
        /\ \A i \in 1..m : list[i] \in DOMAIN tree
        /\ Tail(list) \in Seq(DOMAIN tree) /\ Len(Tail(list)) = m - 1
        /\ \A i \in 1..(m - 1) : Tail(list)[i] = list[i + 1]
    BY HeadTailProperties, EmptySeq
  <1>2. /\ k \in Nat /\ DOMAIN new = 1..k /\ \A i \in 1..k : new[i] \in Children(p)
        /\ new \in Seq(DOMAIN tree)
    <2>1. Children(p) \subseteq DOMAIN tree
      BY DEF Children
    <2>2. new \in Seq(DOMAIN tree)
      BY <2>1, SeqMonotonic
    <2> QED
      BY <2>2
  <1>3. /\ later \in Seq(DOMAIN tree) /\ DOMAIN later = 1..(k + m - 1)
        /\ \A i \in 1..k : later[i] = new[i]
        /\ \A i \in (k + 1)..(k + m - 1) : later[i] = list[i - k + 1]
    <2>1. /\ later \in Seq(DOMAIN tree) /\ Len(later) = k + (m - 1)
          /\ \A i \in 1..(k + (m - 1)) : later[i] = IF i <= k THEN new[i] ELSE Tail(list)[i - k]
      BY <1>1, <1>2, ConcatProperties
    <2> HIDE DEF later, k, m
    <2>2. DOMAIN later = 1..(k + m - 1)
      BY <1>1, <1>2, <2>1
    <2>3. ASSUME NEW i \in (k + 1)..(k + m - 1)
          PROVE  later[i] = list[i - k + 1]
      <3>1. i \in 1..(k + (m - 1)) /\ ~(i <= k) /\ i - k \in 1..(m - 1)
        BY <1>1, <1>2
      <3>2. later[i] = Tail(list)[i - k]
        BY <2>1, <3>1
      <3> QED
        BY <1>1, <3>1, <3>2
    <2> QED
      BY <1>1, <1>2, <2>1, <2>2, <2>3
  <1> HIDE DEF p, later, k, m
  <1>4. \A i \in DOMAIN later :
          \/ i \in 1..k /\ later[i] = new[i]
          \/ i - k + 1 \in 2..m /\ later[i] = list[i - k + 1]
    BY <1>1, <1>2, <1>3
  <1>5. /\ \A j \in 1..k : j \in DOMAIN later
        /\ \A j \in 2..m : j + k - 1 \in DOMAIN later /\ later[j + k - 1] = list[j]
    <2>1. ASSUME NEW j \in 2..m
          PROVE  j + k - 1 \in DOMAIN later /\ later[j + k - 1] = list[j]
      <3> DEFINE i == j + k - 1
      <3>1. i \in (k + 1)..(k + m - 1) /\ i - k + 1 = j /\ i \in 1..(k + m - 1)
        BY <1>1, <1>2
      <3> HIDE DEF i
      <3>2. later[i] = list[i - k + 1]
        BY <1>3, <3>1
      <3>3. i \in DOMAIN later /\ later[i] = list[j]
        BY <1>3, <3>1, <3>2
      <3> QED
        BY <3>3 DEF i
    <2> QED
      BY <1>1, <1>2, <1>3, <2>1
  <1>6. \A j \in 2..m : j \in DOMAIN list /\ ~Under(p, list[j]) /\ ~Under(list[j], p) /\ list[j] # p
    <2> SUFFICES ASSUME NEW j \in 2..m
                 PROVE  j \in DOMAIN list /\ ~Under(p, list[j]) /\ ~Under(list[j], p) /\ list[j] # p
      OBVIOUS
    <2>1. j \in 1..m /\ 1 \in 1..m /\ j # 1
      BY <1>1
    <2>2. ~Under(p, list[j]) /\ ~Under(list[j], p)
      BY <1>1, <2>1 DEF Separate
    <2>3. Under(p, p)
      BY <1>1, PathsOfDocument, UnderRefl
    <2> QED
      BY <1>1, <2>1, <2>2, <2>3
  <1>7. ASSUME NEW r
        PROVE  (\E i \in DOMAIN later : later[i] = r)
               <=> \/ \E i \in DOMAIN new : new[i] = r
                   \/ r # p /\ \E i \in DOMAIN list : list[i] = r
    <2>1. ASSUME NEW i \in DOMAIN later, later[i] = r
          PROVE  \/ \E j \in DOMAIN new : new[j] = r
                 \/ r # p /\ \E j \in DOMAIN list : list[j] = r
      BY <1>2, <1>4, <1>6, <2>1
    <2>2. ASSUME NEW i \in DOMAIN new, new[i] = r
          PROVE  \E j \in DOMAIN later : later[j] = r
      BY <1>2, <1>3, <1>5, <2>2
    <2>3. ASSUME r # p, NEW i \in DOMAIN list, list[i] = r
          PROVE  \E j \in DOMAIN later : later[j] = r
      <3>1. i \in 2..m
        BY <1>1, <2>3
      <3> QED
        BY <1>5, <2>3, <3>1
    <2> QED
      BY <2>1, <2>2, <2>3
  <1>8. Separate(later)
    <2> SUFFICES ASSUME NEW i \in DOMAIN later, NEW j \in DOMAIN later, Under(later[i], later[j])
                 PROVE  i = j
      BY DEF Separate
    <2>0. i \in Int /\ j \in Int
      BY <1>1, <1>2, <1>3
    <2>1. CASE i \in 1..k /\ j \in 1..k
      <3>1. new[i] \in Children(p) /\ new[j] \in Children(p) /\ Under(new[i], new[j])
        BY <1>2, <1>3, <2>1
      <3>2. /\ new[i] \in Path /\ new[j] \in Path /\ Len(new[i]) = Len(new[j])
        BY <1>1, <3>1, ChildFacts
      <3>3. new[i] = new[j]
        BY <3>1, <3>2, SameLength
      <3> QED
        BY <1>2, <2>1, <3>3
    <2>2. CASE i \in 1..k /\ j - k + 1 \in 2..m /\ later[j] = list[j - k + 1]
      <3> DEFINE q == list[j - k + 1]
      <3>1. new[i] \in Children(p) /\ Under(new[i], q)
        BY <1>2, <1>3, <2>2
      <3>2. q \in DOMAIN tree /\ ~Under(p, q)
        <4>1. j - k + 1 \in 1..m
          BY <2>2
        <4> QED
          BY <1>1, <1>6, <2>2, <4>1
      <3> HIDE DEF q
      <3>3. Under(p, q)
        BY <1>1, <3>1, <3>2, ChildFacts, PathsOfDocument, UnderTrans
      <3> QED
        BY <3>2, <3>3
    <2>3. CASE j \in 1..k /\ i - k + 1 \in 2..m /\ later[i] = list[i - k + 1]
      <3> DEFINE q == list[i - k + 1]
      <3>1. new[j] \in Children(p) /\ Under(q, new[j])
        BY <1>2, <1>3, <2>3
      <3>2. q \in DOMAIN tree /\ ~Under(p, q) /\ ~Under(q, p)
        <4>1. i - k + 1 \in 1..m
          BY <2>3
        <4> QED
          BY <1>1, <1>6, <2>3, <4>1
      <3> HIDE DEF q
      <3>3. q = new[j] \/ Under(q, p)
        BY <1>1, <3>1, <3>2, AboveChild, PathsOfDocument
      <3>4. Under(p, new[j])
        BY <1>1, <3>1, ChildFacts
      <3> QED
        BY <3>2, <3>3, <3>4
    <2>4. CASE /\ i - k + 1 \in 2..m /\ later[i] = list[i - k + 1]
               /\ j - k + 1 \in 2..m /\ later[j] = list[j - k + 1]
      <3>1. i - k + 1 = j - k + 1
        BY <1>6, <2>4 DEF Separate
      <3> QED
        BY <1>2, <2>0, <3>1
    <2> QED
      BY <1>4, <2>1, <2>2, <2>3, <2>4
  <1> QED
    BY <1>3, <1>7, <1>8 DEF later, p

\* What is pending when the first of the list is done, or is replaced by its children.
LEMMA Moved ==
    ASSUME WellFormed(tree), NEW list \in Seq(DOMAIN tree), list # <<>>, Separate(list),
           NEW new \in Seq(Children(Head(list))),
           \A i, j \in DOMAIN new : i # j => new[i] # new[j],
           NEW r \in DOMAIN tree
    PROVE  /\ ~Under(Head(list), r) => (Pending(new \o Tail(list), r) <=> Pending(list, r))
           /\ Under(Head(list), r) =>
                /\ Pending(list, r)
                /\ new = <<>> => ~Pending(new \o Tail(list), r)
                /\ (\A c \in Children(Head(list)) : \E i \in DOMAIN new : new[i] = c) =>
                     (Pending(new \o Tail(list), r) <=> r # Head(list))
  <1> DEFINE p == Head(list)
             later == new \o Tail(list)
  <1>1. /\ p = list[1] /\ 1 \in DOMAIN list /\ p \in DOMAIN tree /\ p \in Path /\ r \in Path
        /\ \A i \in DOMAIN list : list[i] \in DOMAIN tree /\ list[i] \in Path
    <2>1. /\ p = list[1] /\ 1 \in DOMAIN list
          /\ \A i \in DOMAIN list : list[i] \in DOMAIN tree
      BY HeadTailProperties, EmptySeq
    <2> QED
      BY <2>1, PathsOfDocument
  <1>2. /\ \A i \in DOMAIN new : new[i] \in Children(p)
        /\ new = <<>> => DOMAIN new = {}
    OBVIOUS
  <1>3. \A q : (\E i \in DOMAIN later : later[i] = q)
               <=> \/ \E i \in DOMAIN new : new[i] = q
                   \/ q # p /\ \E i \in DOMAIN list : list[i] = q
    BY Advance
  <1> HIDE DEF p, later
  <1>4. \A q : (\E i \in DOMAIN new : new[i] = q) => /\ q \in Path /\ Under(p, q)
                                                     /\ Len(q) = Len(p) + 1 /\ Len(p) \in Nat
    BY <1>1, <1>2, ChildFacts
  <1>5. ASSUME NEW q, q # p, \E i \in DOMAIN list : list[i] = q
        PROVE  q \in Path /\ ~Under(p, q) /\ ~Under(q, p)
    BY <1>1, <1>5 DEF Separate
  <1>6. ASSUME ~Under(p, r), Pending(later, r)
        PROVE  Pending(list, r)
    <2>1. PICK i \in DOMAIN later : Under(later[i], r)
      BY <1>6 DEF Pending
    <2>2. ~\E j \in DOMAIN new : new[j] = later[i]
      BY <1>1, <1>4, <1>6, <2>1, UnderTrans
    <2>3. \E j \in DOMAIN list : list[j] = later[i]
      BY <1>3, <2>2
    <2> QED
      BY <2>1, <2>3 DEF Pending
  <1>7. ASSUME ~Under(p, r), Pending(list, r)
        PROVE  Pending(later, r)
    <2>1. PICK i \in DOMAIN list : Under(list[i], r)
      BY <1>7 DEF Pending
    <2>2. list[i] # p
      BY <1>7, <2>1
    <2>3. \E j \in DOMAIN later : later[j] = list[i]
      BY <1>3, <2>2
    <2> QED
      BY <2>1, <2>3 DEF Pending
  <1>8. ASSUME Under(p, r), NEW i \in DOMAIN later, Under(later[i], r)
        PROVE  \E j \in DOMAIN new : new[j] = later[i]
    <2> SUFFICES ASSUME later[i] # p, \E j \in DOMAIN list : list[j] = later[i]
                 PROVE  FALSE
      BY <1>3
    <2>1. later[i] \in Path /\ ~Under(p, later[i]) /\ ~Under(later[i], p)
      BY <1>5
    <2>2. Len(p) \in Nat /\ Len(later[i]) \in Nat
      BY <1>1, <2>1, WholePath
    <2>3. CASE Len(later[i]) <= Len(p)
      BY <1>1, <1>8, <2>1, <2>3, UnderBoth
    <2>4. CASE Len(p) <= Len(later[i])
      BY <1>1, <1>8, <2>1, <2>4, UnderBoth
    <2> QED
      BY <2>2, <2>3, <2>4
  <1>9. ASSUME Under(p, r), new = <<>>
        PROVE  ~Pending(later, r)
    BY <1>2, <1>8, <1>9 DEF Pending
  <1>10. ASSUME r = p
         PROVE  ~Pending(later, r)
    <2> SUFFICES ASSUME NEW i \in DOMAIN later, Under(later[i], p)
                 PROVE  FALSE
      BY <1>10 DEF Pending
    <2>1. Under(p, p)
      BY <1>1, UnderRefl
    <2>2. Len(later[i]) = Len(p) + 1 /\ Len(p) \in Nat
      BY <1>4, <1>8, <1>10, <2>1
    <2>3. Len(later[i]) <= Len(p)
      BY DEF Under
    <2> QED
      BY <2>2, <2>3
  <1>11. ASSUME Under(p, r), r # p, \A c \in Children(p) : \E i \in DOMAIN new : new[i] = c
         PROVE  Pending(later, r)
    <2>1. PICK c \in Children(p) : Under(c, r)
      BY <1>1, <1>11, UnderChild
    <2>2. \E i \in DOMAIN later : later[i] = c
      BY <1>3, <1>11
    <2> QED
      BY <2>1, <2>2 DEF Pending
  <1>12. Under(p, r) => Pending(list, r)
    BY <1>1 DEF Pending
  <1> QED
    BY <1>6, <1>7, <1>9, <1>10, <1>11, <1>12 DEF p, later

-----------------------------------------------------------------------------
(* The binding.                                                            *)

\* Binding goes to a path through the fields of containers.
Reached(p) ==
    \A n \in 0..(Len(p) - 1) : \E f \in FieldAt(SubSeq(p, 1, n)) : Head(f.kind) \in Containers

\* A field holds what it did while its path is pending, and what it is due after that.
Settled(f) ==
    IF f.path \in DOMAIN tree /\ Pending(work, f.path)
    THEN target[f.cell] = before[f.cell]
    ELSE Bound(f) = {target[f.cell]}

\* What no name is bound to is left alone.
Nameless == \A cell \in DOMAIN target \ {f.cell : f \in Fields} : target[cell] = before[cell]

Binding ==
    /\ \A i \in DOMAIN work : Reached(work[i])
    /\ Separate(work)
    /\ \A p \in DOMAIN tree : Pending(work, p) \/ ~Misfit(p)
    /\ \A f \in Fields : Settled(f)
    /\ Nameless

BindInv ==
    /\ phase \in {"read", "resolve"} => target = before
    /\ phase = "bind" => Binding
    /\ BoundByName

\* What is due depends on nothing that binding changes.
LEMMA Unmoved ==
    ASSUME UNCHANGED <<scenario, tree, before>>
    PROVE  /\ \A p : (FieldAt(p))' = FieldAt(p)
           /\ \A p : Misfit(p)' <=> Misfit(p)
           /\ \A p : Unknown(p)' <=> Unknown(p)
           /\ \A f : (Bound(f))' = Bound(f)
           /\ \A p : Reached(p)' <=> Reached(p)
           /\ Fields' = Fields
  <1>1. \A p : (FieldAt(p))' = FieldAt(p)
    BY DEF FieldAt
  <1>2. \A p : Misfit(p)' <=> Misfit(p)
    BY DEF Misfit, Bindable, Mismatched, Converted, Children, Elements
  <1>3. \A f : (Bound(f))' = Bound(f)
    BY DEF Bound, Bindable, Converted
  <1>4. \A p : Reached(p)' <=> Reached(p)
    BY DEF Reached, FieldAt
  <1>5. Fields' = Fields
    BY DEF Fields
  <1>6. \A p : Unknown(p)' <=> Unknown(p)
    BY <1>2 DEF Unknown, Bindable
  <1> QED
    BY <1>1, <1>2, <1>3, <1>4, <1>5, <1>6

\* The children of a path that is reached, bound to a container, are reached.
LEMMA ReachedChild ==
    ASSUME WellFormed(tree), NEW p \in DOMAIN tree, Reached(p), NEW c \in Children(p),
           NEW f \in FieldAt(p), Head(f.kind) \in Containers
    PROVE  Reached(c)
  <1>1. c \in Path /\ Len(c) = Len(p) + 1 /\ Len(p) \in Nat /\ SubSeq(c, 1, Len(p)) = p
    BY ChildFacts DEF Under
  <1> SUFFICES ASSUME NEW n \in 0..(Len(c) - 1)
               PROVE  \E g \in FieldAt(SubSeq(c, 1, n)) : Head(g.kind) \in Containers
    BY DEF Reached
  <1>2. CASE n = Len(p)
    BY <1>1, <1>2
  <1>3. CASE n # Len(p)
    <2>0. Len(c) = Len(p) + 1 /\ Len(p) \in Nat
      BY <1>1
    <2>1. n \in 0..(Len(p) - 1) /\ n \in 0..Len(p) /\ Len(p) \in 0..Len(c)
      BY <1>3, <2>0
    <2>2. SubSeq(p, 1, n) = SubSeq(c, 1, n)
      BY <1>1, <2>1, PrefixOfPrefix
    <2> QED
      BY <2>1, <2>2 DEF Reached
  <1> QED
    BY <1>2, <1>3

\* What the first of the list is bound to.
LEMMA FirstFacts ==
    ASSUME TypeInv, Binding, work # <<>>
    PROVE  /\ WellFormed(tree) /\ scenario \in Scenarios
           /\ work \in Seq(DOMAIN tree) /\ Tail(work) \in Seq(DOMAIN tree)
           /\ Head(work) \in DOMAIN tree /\ Head(work) \in Path /\ Reached(Head(work))
           /\ \A field \in FieldAt(Head(work)) :
                /\ field \in scenario.type /\ field.path = Head(work) /\ Bindable(field)
                /\ \A f \in scenario.type : f.path = Head(work) /\ Bindable(f) => f = field
  <1>1. /\ scenario \in Scenarios /\ work \in Seq(DOMAIN tree)
        /\ tree = <<>> \/ WellFormed(tree)
    BY DEF TypeInv, TypeOK
  <1>2. /\ Head(work) = work[1] /\ 1 \in DOMAIN work /\ Head(work) \in DOMAIN tree
        /\ Tail(work) \in Seq(DOMAIN tree)
    BY <1>1, HeadTailProperties, EmptySeq
  <1>3. WellFormed(tree)
    BY <1>1, <1>2, EmptyTree
  <1>4. Head(work) \in Path
    BY <1>2, <1>3, PathsOfDocument
  <1>5. Reached(Head(work))
    BY <1>2 DEF Binding
  <1>6. ASSUME NEW field \in FieldAt(Head(work))
        PROVE  /\ field \in scenario.type /\ field.path = Head(work) /\ Bindable(field)
               /\ \A f \in scenario.type : f.path = Head(work) /\ Bindable(f) => f = field
    <2>1. field \in scenario.type /\ field.path = Head(work) /\ Bindable(field)
      BY <1>1, FieldAtFacts
    <2> QED
      BY <1>1, <2>1, OneField
  <1> QED
    BY <1>1, <1>2, <1>3, <1>4, <1>5, <1>6

\* Every field is a cell of the target.
LEMMA CellFacts ==
    ASSUME TypeInv
    PROVE  \A f \in scenario.type : f.cell \in DOMAIN target
  <1>1. scenario \in Scenarios /\ DOMAIN target = DOMAIN scenario.defaults
    BY DEF TypeInv, TypeOK
  <1>2. DOMAIN scenario.defaults = {f.cell : f \in scenario.type}
    BY <1>1, ScenariosAssumption
  <1> QED
    BY <1>1, <1>2

\* The first of the list is bound, and is replaced by its children or, when nothing
\* under it can be bound apart, by nothing.
LEMMA OneBound ==
    ASSUME TypeInv, Binding, work # <<>>, UNCHANGED <<scenario, tree, before>>,
           NEW field \in FieldAt(Head(work)), NEW new \in Seq(Children(Head(work))),
           \A i, j \in DOMAIN new : i # j => new[i] # new[j],
           work' = new \o Tail(work),
           DOMAIN target' = DOMAIN target,
           \A cell \in DOMAIN target : cell # field.cell => target'[cell] = target[cell],
           Bound(field) = {target'[field.cell]},
           ~Misfit(Head(work)),
           \/ /\ Head(field.kind) \in Containers
              /\ \A c \in Children(Head(work)) : \E i \in DOMAIN new : new[i] = c
           \/ /\ new = <<>>
              /\ \A q \in DOMAIN tree : Under(Head(work), q) /\ q # Head(work) =>
                   ~Misfit(q) /\ \A f \in scenario.type : f.path # q
    PROVE  Binding'
  <1> DEFINE p == Head(work)
             later == new \o Tail(work)
  <1>1. /\ WellFormed(tree) /\ scenario \in Scenarios /\ work \in Seq(DOMAIN tree)
        /\ p \in DOMAIN tree /\ p \in Path /\ Reached(p)
        /\ field \in scenario.type /\ field.path = p /\ Bindable(field)
        /\ \A f \in scenario.type : f.path = p /\ Bindable(f) => f = field
    BY FirstFacts
  <1>2. Separate(work)
    BY DEF Binding
  <1>3. /\ Separate(later)
        /\ \A q : (\E i \in DOMAIN later : later[i] = q)
             => \/ \E i \in DOMAIN new : new[i] = q
                \/ \E i \in DOMAIN work : work[i] = q
    BY <1>1, <1>2, Advance
  <1>4. ASSUME NEW r \in DOMAIN tree
        PROVE  /\ ~Under(p, r) => (Pending(later, r) <=> Pending(work, r))
               /\ Under(p, r) =>
                    /\ Pending(work, r)
                    /\ new = <<>> => ~Pending(later, r)
                    /\ (\A c \in Children(p) : \E i \in DOMAIN new : new[i] = c) =>
                         (Pending(later, r) <=> r # p)
    BY <1>1, <1>2, Moved
  <1>5. Under(p, p)
    BY <1>1, UnderRefl
  <1>6. /\ \A q : Misfit(q)' <=> Misfit(q)
        /\ \A f : (Bound(f))' = Bound(f)
        /\ \A q : Reached(q)' <=> Reached(q)
        /\ Fields' = Fields
    BY Unmoved
  <1>7. work' = later
    OBVIOUS
  <1>8. ~Misfit(p)
    OBVIOUS
  <1>9. \/ Head(field.kind) \in Containers /\ \A c \in Children(p) : \E i \in DOMAIN new : new[i] = c
        \/ /\ new = <<>>
           /\ \A q \in DOMAIN tree : Under(p, q) /\ q # p =>
                ~Misfit(q) /\ \A f \in scenario.type : f.path # q
    OBVIOUS
  <1>10. \A i \in DOMAIN new : new[i] \in Children(p)
    OBVIOUS
  <1>11. new = <<>> => DOMAIN new = {}
    OBVIOUS
  <1>19. /\ field \in Fields /\ Fields \subseteq scenario.type
         /\ \A f \in Fields : f # field => target'[f.cell] = target[f.cell]
    <2>1. field \in Fields /\ Fields \subseteq scenario.type
      BY <1>1 DEF Fields, Bindable
    <2>2. \A f \in Fields : f.cell \in DOMAIN target
      BY <2>1, CellFacts
    <2> QED
      BY <1>1, <2>1, <2>2, FieldsApart
  <1>20. \A cell \in DOMAIN target' \ {f.cell : f \in Fields} : target'[cell] = before[cell]
    BY <1>19 DEF Binding, Nameless
  <1> HIDE DEF p, later
  <1>12. ASSUME NEW i \in DOMAIN later
         PROVE  Reached(later[i])
    <2>1. CASE \E j \in DOMAIN new : new[j] = later[i]
      <3>1. later[i] \in Children(p) /\ new # <<>>
        BY <1>10, <1>11, <2>1
      <3> QED
        BY <1>1, <1>9, <3>1, ReachedChild DEF p
    <2>2. CASE \E j \in DOMAIN work : work[j] = later[i]
      BY <2>2 DEF Binding
    <2> QED
      BY <1>3, <2>1, <2>2
  <1>13. ASSUME NEW q \in DOMAIN tree
         PROVE  Pending(later, q) \/ ~Misfit(q)
    <2>1. CASE ~Under(p, q)
      BY <1>4, <2>1 DEF Binding
    <2>2. CASE q = p
      BY <1>8, <2>2
    <2>3. CASE Under(p, q) /\ q # p
      BY <1>4, <1>9, <2>3
    <2> QED
      BY <2>1, <2>2, <2>3
  <1>14. ASSUME NEW f \in Fields
         PROVE  IF f.path \in DOMAIN tree /\ Pending(later, f.path)
                THEN target'[f.cell] = before[f.cell]
                ELSE Bound(f) = {target'[f.cell]}
    <2>0. IF f.path \in DOMAIN tree /\ Pending(work, f.path)
          THEN target[f.cell] = before[f.cell]
          ELSE Bound(f) = {target[f.cell]}
      BY DEF Binding, Settled
    <2>1. CASE f = field
      <3>1. ~Pending(later, p)
        BY <1>1, <1>4, <1>5, <1>9
      <3> QED
        BY <1>1, <2>1, <3>1
    <2>2. CASE f # field
      <3>0. target'[f.cell] = target[f.cell] /\ f \in scenario.type
        BY <1>19, <2>2
      <3>1. CASE f.path \notin DOMAIN tree
        BY <2>0, <3>0, <3>1
      <3>2. CASE f.path \in DOMAIN tree /\ ~Under(p, f.path)
        BY <1>4, <2>0, <3>0, <3>2
      <3>3. CASE f.path = p
        <4>1. ~Pending(later, p) /\ Pending(work, p)
          BY <1>1, <1>4, <1>5, <1>9
        <4>2. ~Bindable(f)
          BY <1>1, <2>2, <3>0, <3>3
        <4>3. Bound(f) = {before[f.cell]}
          BY <4>2 DEF Bound
        <4> QED
          BY <1>1, <2>0, <3>0, <3>3, <4>1, <4>3
      <3>4. CASE f.path \in DOMAIN tree /\ Under(p, f.path) /\ f.path # p
        <4>1. Pending(later, f.path) /\ Pending(work, f.path)
          BY <1>4, <1>9, <3>0, <3>4
        <4> QED
          BY <2>0, <3>0, <3>4, <4>1
      <3> QED
        BY <3>1, <3>2, <3>3, <3>4
    <2> QED
      BY <2>1, <2>2
  <1>15. \A i \in DOMAIN work' : (Reached(work[i]))'
    <2>1. \A i \in DOMAIN work' : Reached(work'[i])
      BY <1>7, <1>12
    <2> QED
      BY <2>1 DEF Reached, FieldAt
  <1>16. Separate(work')
    BY <1>3, <1>7
  <1>17. \A q \in DOMAIN tree' : Pending(work', q) \/ ~Misfit(q)'
    BY <1>6, <1>7, <1>13
  <1>18. \A f \in Fields' : Settled(f)'
    BY <1>6, <1>7, <1>14 DEF Settled
  <1>21. Nameless'
    BY <1>6, <1>20 DEF Nameless
  <1> QED
    BY <1>15, <1>16, <1>17, <1>18, <1>21 DEF Binding

\* Nothing is under null, and nothing under what is set as one is bound apart.
LEMMA LeafAlone ==
    ASSUME WellFormed(tree), scenario \in Scenarios, NEW p \in DOMAIN tree,
           NEW field \in scenario.type, field.path = p, Bindable(field),
           IsA(tree[p], "null") \/ Head(field.kind) \notin Containers,
           NEW q \in DOMAIN tree, Under(p, q), q # p
    PROVE  ~Misfit(q) /\ \A f \in scenario.type : f.path # q
  <1>1. p \in Path /\ q \in Path /\ Len(p) \in Nat /\ Len(q) \in Nat
    BY PathsOfDocument
  <1>2. Len(p) \in 0..(Len(q) - 1) /\ SubSeq(q, 1, Len(p)) = p
    <2>1. Len(p) # Len(q) /\ Len(p) <= Len(q) /\ SubSeq(q, 1, Len(p)) = p
      BY <1>1, SameLength DEF Under
    <2> QED
      BY <1>1, <2>1
  <1>3. IsA(tree[p], "object") \/ IsA(tree[p], "list")
    BY <1>2, AboveFacts
  <1>4. ~IsA(tree[p], "null")
    BY <1>3, OneSort
  <1>5. \A g \in scenario.type : g.path = p /\ Bindable(g) => Head(g.kind) \notin Containers
    BY <1>4, OneField
  <1>6. ~Misfit(q)
    BY <1>2, <1>5 DEF Misfit
  <1>7. ASSUME NEW f \in scenario.type, f.path = q
        PROVE  FALSE
    <2>1. Len(p) \in 0..(Len(f.path) - 1) /\ field.path = SubSeq(f.path, 1, Len(p))
      BY <1>2, <1>7
    <2>2. Head(field.kind) \in Containers
      BY <2>1, AboveField
    <2> QED
      BY <1>5, <2>2
  <1> QED
    BY <1>6, <1>7

LEMMA ConvertedOne ==
    ASSUME NEW kind, NEW path, Converted(kind, path) # {}
    PROVE  Converted(kind, path) = {CHOOSE v \in Converted(kind, path) : TRUE}
  <1>1. PICK v : Converted(kind, path) = {v}
    BY DEF Converted
  <1> QED
    BY <1>1

\* bind starts at the root, so everything is to come.
LEMMA BindStarts ==
    ASSUME TypeInv, TypeInv', BindInv, Resolve, phase' = "bind"
    PROVE  BindInv'
  <1>1. /\ work' = << <<>> >> /\ UNCHANGED <<before, target>> /\ target = before
        /\ phase' = "bind"
    BY DEF Resolve, Finish, BindInv
  <1>2. <<>> \in Path /\ Len(<<>>) = 0
    BY EmptySeq DEF Path
  <1>3. DOMAIN work' = {1} /\ work'[1] = <<>>
    BY <1>1
  <1>4. \A i \in DOMAIN work' : (Reached(work[i]))'
    BY <1>2, <1>3 DEF Reached
  <1>5. Separate(work')
    BY <1>3 DEF Separate
  <1>6. ASSUME NEW p, p \in DOMAIN tree'
        PROVE  Pending(work', p)
    <2>1. WellFormed(tree)'
      BY <1>6, EmptyTree DEF TypeInv, TypeOK
    <2>2. p \in Seq(STRING)
      BY <1>6, <2>1 DEF WellFormed
    <2>3. p \in Path /\ Len(p) \in Nat
      BY <2>2, WholePath DEF Path
    <2>4. 0 \in 0..Len(p)
      BY <2>3
    <2>5. SubSeq(p, 1, 0) \in Path /\ Len(SubSeq(p, 1, 0)) = 0
      BY <2>3, <2>4, PrefixFacts
    <2>6. SubSeq(p, 1, 0) = <<>>
      BY <2>5, EmptySeq DEF Path
    <2>7. Under(<<>>, p)
      BY <1>2, <2>3, <2>6 DEF Under
    <2> QED
      BY <1>3, <2>7 DEF Pending
  <1>7. ASSUME NEW f, f \in Fields'
        PROVE  Settled(f)'
    <2>1. f.path \in DOMAIN tree' => Pending(work', f.path)
      BY <1>6
    <2>2. f.path \notin DOMAIN tree' => (Bound(f))' = {before'[f.cell]}
      BY DEF Bound
    <2> QED
      BY <1>1, <2>1, <2>2 DEF Settled
  <1>9. Nameless'
    BY <1>1 DEF Nameless
  <1>8. Binding'
    BY <1>4, <1>5, <1>6, <1>7, <1>9 DEF Binding
  <1> QED
    BY <1>1, <1>8 DEF BindInv, BoundByName

\* A Load that fails before it binds.
LEMMA FailsEarly ==
    ASSUME TypeInv, BindInv, phase \in {"read", "resolve"}, NEW reason, Finish(reason),
           reason \notin {"unknown", "mismatch"}, UNCHANGED <<tree, target>>
    PROVE  BindInv'
  BY DEF TypeInv, Stages, BindInv, BoundByName, Finish

\* A key the struct has no field for, or a value that does not fit the field.
LEMMA BindFails ==
    ASSUME TypeInv, BindInv, phase = "bind", work # <<>>, UNCHANGED tree,
           NEW reason, Finish(reason),
           \/ reason = "unknown" /\ FieldAt(Head(work)) = {} /\ UNCHANGED target
           \/ /\ reason = "mismatch"
              /\ \E field \in FieldAt(Head(work)) :
                   /\ ~IsA(tree[Head(work)], "null") /\ Mismatched(field, Head(work))
                   /\ target' = IF Head(field.kind) = "pointer"
                                THEN [target EXCEPT ![field.cell] = Allocated]
                                ELSE target
    PROVE  BindInv'
  <1> DEFINE p == Head(work)
  <1>0. Binding
    BY DEF BindInv
  <1>1. /\ scenario \in Scenarios /\ p \in DOMAIN tree /\ Reached(p) /\ tree # <<>>
        /\ \A field \in FieldAt(p) :
             /\ field \in scenario.type /\ field.path = p /\ Bindable(field)
             /\ \A f \in scenario.type : f.path = p /\ Bindable(f) => f = field
    BY <1>0, FirstFacts, EmptyTree
  <1>2. /\ UNCHANGED <<scenario, tree, before>> /\ phase' = "idle" /\ error' # "none"
        /\ error' = reason
    BY DEF Finish
  <1>3. /\ \A q : Misfit(q)' <=> Misfit(q)
        /\ \A q : Unknown(q)' <=> Unknown(q)
        /\ \A f : (Bound(f))' = Bound(f)
        /\ Fields' = Fields
    BY <1>2, Unmoved
  <1>4. \/ reason = "unknown" /\ FieldAt(p) = {} /\ UNCHANGED target
        \/ /\ reason = "mismatch"
           /\ \E field \in FieldAt(p) :
                /\ ~IsA(tree[p], "null") /\ Mismatched(field, p)
                /\ target' = IF Head(field.kind) = "pointer"
                             THEN [target EXCEPT ![field.cell] = Allocated]
                             ELSE target
    OBVIOUS
  <1> HIDE DEF p
  <1>5. \A n \in 0..(Len(p) - 1) : \E f \in scenario.type :
          f.path = SubSeq(p, 1, n) /\ Bindable(f) /\ Head(f.kind) \in Containers
    BY <1>1, FieldAtFacts DEF Reached
  <1>6. \A f \in scenario.type : f.path = p /\ Bindable(f) =>
          ~IsA(tree[p], "null") /\ Mismatched(f, p)
    <2>1. CASE FieldAt(p) = {}
      BY <1>1, <2>1, FieldAtFacts
    <2>2. CASE FieldAt(p) # {}
      BY <1>1, <1>4, <2>2
    <2> QED
      BY <2>1, <2>2
  <1>7. Misfit(p)
    BY <1>5, <1>6 DEF Misfit
  <1>12. Unknown(p) <=> reason = "unknown"
    <2>1. (\A f \in scenario.type : f.path = p => ~Bindable(f)) <=> FieldAt(p) = {}
      BY <1>1, FieldAtFacts
    <2> QED
      BY <1>4, <1>7, <2>1 DEF Unknown
  <1>10. /\ Fields \subseteq scenario.type
         /\ \A field \in FieldAt(p) : field \in Fields
    BY <1>1 DEF Fields, Bindable
  <1>11. \A cell \in DOMAIN target' \ {f.cell : f \in Fields} : target'[cell] = before[cell]
    BY <1>0, <1>4, <1>10 DEF Binding, Nameless
  <1>8. ASSUME NEW f \in Fields
        PROVE  target'[f.cell] \in Bound(f) \cup {before[f.cell]}
    <2>1. target[f.cell] \in Bound(f) \cup {before[f.cell]}
      BY <1>0 DEF Binding, Settled
    <2>2. CASE UNCHANGED target
      BY <2>1, <2>2
    <2>3. ASSUME NEW field \in FieldAt(p), ~IsA(tree[p], "null"), Head(field.kind) = "pointer",
                 target' = [target EXCEPT ![field.cell] = Allocated]
          PROVE  target'[f.cell] \in Bound(f) \cup {before[f.cell]}
      <3>1. CASE f = field
        <4>1. /\ f.path = p /\ f.path \in DOMAIN tree /\ Bindable(f) /\ Head(f.kind) = "pointer"
              /\ ~IsA(tree[f.path], "null")
          BY <1>1, <2>3, <3>1
        <4>2. Bound(f) = {Allocated}
          BY <4>1 DEF Bound
        <4>3. f.cell \in DOMAIN target
          BY <1>10, CellFacts
        <4> QED
          BY <2>3, <3>1, <4>2, <4>3
      <3>2. CASE f # field
        <4>1. f.cell # field.cell
          BY <1>1, <1>10, <2>3, <3>2, FieldsApart
        <4>2. target'[f.cell] = target[f.cell]
          <5>1. f.cell \in DOMAIN target
            BY <1>10, CellFacts
          <5> QED
            BY <2>3, <4>1, <5>1
        <4> QED
          BY <2>1, <4>2
      <3> QED
        BY <3>1, <3>2
    <2> QED
      BY <1>4, <2>2, <2>3
  <1>9. BoundByName'
    <2>1. ~(\A q \in DOMAIN tree' : ~Misfit(q)')
      BY <1>1, <1>2, <1>3, <1>7
    <2>2. \A f \in Fields' : target'[f.cell] \in (Bound(f))' \cup {before'[f.cell]}
      BY <1>2, <1>3, <1>8
    <2>3. \A cell \in DOMAIN target' \ {f.cell : f \in Fields'} : target'[cell] = before'[cell]
      BY <1>2, <1>3, <1>11
    <2>4. /\ error' = "unknown" => \E q \in DOMAIN tree' : Unknown(q)'
          /\ error' = "mismatch" => \E q \in DOMAIN tree' : Misfit(q)' /\ ~Unknown(q)'
      BY <1>1, <1>2, <1>3, <1>7, <1>12
    <2> QED
      BY <1>1, <1>2, <2>1, <2>2, <2>3, <2>4 DEF BoundByName
  <1> QED
    BY <1>2, <1>9 DEF BindInv

\* A value is bound, or passed over when it is null.
LEMMA BindSucceeds ==
    ASSUME TypeInv, BindInv, phase = "bind", work # <<>>,
           UNCHANGED <<scenario, tree, before, phase>>,
           NEW field \in FieldAt(Head(work)),
           \/ IsA(tree[Head(work)], "null") /\ UNCHANGED target /\ work' = Tail(work)
           \/ /\ ~IsA(tree[Head(work)], "null") /\ ~Mismatched(field, Head(work))
              /\ target' = CASE Head(field.kind) = "pointer" ->
                                  [target EXCEPT ![field.cell] = Allocated]
                             [] Head(field.kind) \in Containers \ {"pointer"} -> target
                             [] OTHER -> [target EXCEPT ![field.cell] =
                                            CHOOSE v \in Converted(field.kind, Head(work)) : TRUE]
              /\ IF Head(field.kind) \in Containers
                 THEN \E order \in Orders(Head(work)) : work' = order \o Tail(work)
                 ELSE work' = Tail(work)
    PROVE  BindInv'
  <1> DEFINE p == Head(work)
  <1>0. Binding
    BY DEF BindInv
  <1>1. /\ scenario \in Scenarios /\ p \in DOMAIN tree /\ p \in Path /\ WellFormed(tree)
        /\ work \in Seq(DOMAIN tree) /\ Tail(work) \in Seq(DOMAIN tree)
        /\ field \in scenario.type /\ field.path = p /\ Bindable(field)
    BY <1>0, FirstFacts
  <1>2. field.cell \in DOMAIN target /\ field \in Fields
    BY <1>1, CellFacts DEF Fields, Bindable
  <1>3. target[field.cell] = before[field.cell]
    <2>1. 1 \in DOMAIN work /\ work[1] = p
      BY <1>1, HeadTailProperties, EmptySeq
    <2>2. Pending(work, p)
      BY <1>1, <2>1, UnderRefl DEF Pending
    <2>3. Settled(field)
      BY <1>0, <1>2 DEF Binding
    <2> QED
      BY <1>1, <2>2, <2>3 DEF Settled
  <1>4. ~Misfit(p)
    BY <1>1 DEF Misfit
  <1>5. /\ DOMAIN target' = DOMAIN target
        /\ \A cell \in DOMAIN target : cell # field.cell => target'[cell] = target[cell]
    OBVIOUS
  <1>6. CASE IsA(tree[p], "null") \/ Head(field.kind) \notin Containers
    <2>1. work' = <<>> \o Tail(work) /\ <<>> \in Seq(Children(p))
      BY <1>1, <1>6, ConcatEmptySeq, EmptySeq DEF Containers
    <2>2. Bound(field) = {target'[field.cell]}
      <3>1. CASE IsA(tree[p], "null")
        BY <1>1, <1>3, <3>1 DEF Bound
      <3>2. CASE ~IsA(tree[p], "null")
        <4>1. Head(field.kind) \notin {"struct", "pointer", "array"}
          BY <1>6, <3>2 DEF Containers
        <4>2. Converted(field.kind, p) # {}
          BY <3>2, <4>1 DEF Mismatched
        <4>3. Bound(field) = Converted(field.kind, p)
          BY <1>1, <3>2, <4>1 DEF Bound
        <4>4. target' = [target EXCEPT ![field.cell] =
                           CHOOSE v \in Converted(field.kind, p) : TRUE]
          BY <3>2, <4>1 DEF Containers
        <4> HIDE DEF p
        <4>5. target'[field.cell] = CHOOSE v \in Converted(field.kind, p) : TRUE
          BY <1>2, <4>4
        <4> QED
          BY <4>2, <4>3, <4>5, ConvertedOne
      <3> QED
        BY <3>1, <3>2
    <2>3. \A q \in DOMAIN tree : Under(p, q) /\ q # p =>
            ~Misfit(q) /\ \A f \in scenario.type : f.path # q
      BY <1>1, <1>6, LeafAlone
    <2>4. \A i, j \in DOMAIN <<>> : i # j => <<>>[i] # <<>>[j]
      OBVIOUS
    <2>5. Binding'
      BY <1>0, <1>4, <1>5, <2>1, <2>2, <2>3, <2>4, OneBound
    <2> QED
      BY <2>5 DEF BindInv, BoundByName
  <1>7. CASE ~IsA(tree[p], "null") /\ Head(field.kind) \in Containers
    <2>1. PICK order \in Orders(p) : work' = order \o Tail(work)
      BY <1>7
    <2>2. /\ order \in Seq(Children(p))
          /\ \A child \in Children(p) : \E i \in DOMAIN order : order[i] = child
          /\ \A i, j \in DOMAIN order : i # j => order[i] # order[j]
      BY <1>1, OrderType
    <2>3. Bound(field) = {target'[field.cell]}
      <3>1. CASE Head(field.kind) = "pointer"
        BY <1>1, <1>2, <1>7, <3>1 DEF Bound
      <3>2. CASE Head(field.kind) \in {"struct", "array"}
        BY <1>1, <1>3, <1>7, <3>2 DEF Bound, Containers
      <3> QED
        BY <1>7, <3>1, <3>2 DEF Containers
    <2>4. Binding'
      BY <1>0, <1>4, <1>5, <1>7, <2>1, <2>2, <2>3, OneBound
    <2> QED
      BY <2>4 DEF BindInv, BoundByName
  <1> QED
    BY <1>6, <1>7

LEMMA BindStep == TypeInv /\ TypeInv' /\ BindInv /\ [Next]_vars => BindInv'
  <1> SUFFICES ASSUME TypeInv, TypeInv', BindInv, [Next]_vars
               PROVE  BindInv'
    OBVIOUS
  <1>1. CASE Load
    BY <1>1 DEF Load, BindInv, BoundByName
  <1>2. CASE ReadSource
    <2>1. CASE \E reason \in {"read", "decode"} : Finish(reason)
      BY <1>2, <2>1, FailsEarly DEF ReadSource
    <2>2. CASE UNCHANGED phase
      <3>1. phase' = "read" /\ UNCHANGED <<before, target>>
        BY <1>2, <2>2 DEF ReadSource, Finish
      <3> QED
        BY <1>2, <3>1 DEF ReadSource, BindInv, BoundByName
    <2> QED
      BY <1>2, <2>1, <2>2 DEF ReadSource
  <1>3. CASE EndSources
    BY <1>3 DEF EndSources, BindInv, BoundByName
  <1>4. CASE Resolve
    <2>1. CASE \E reason \in Reports : Finish(reason) /\ UNCHANGED tree
      BY <1>4, <2>1, FailsEarly, ReportsFacts DEF Resolve, Reasons
    <2>2. CASE phase' = "bind"
      BY <1>4, <2>2, BindStarts
    <2> QED
      BY <1>4, <2>1, <2>2 DEF Resolve
  <1>5. CASE BindValue
    <2>0. phase = "bind" /\ work # <<>> /\ UNCHANGED tree
      BY <1>5 DEF BindValue
    <2>1. CASE FieldAt(Head(work)) = {} /\ Finish("unknown") /\ UNCHANGED target
      BY <2>0, <2>1, BindFails
    <2>2. ASSUME NEW field \in FieldAt(Head(work)), Finish("mismatch"),
                 ~IsA(tree[Head(work)], "null"), Mismatched(field, Head(work)),
                 target' = IF Head(field.kind) = "pointer"
                           THEN [target EXCEPT ![field.cell] = Allocated] ELSE target
          PROVE  BindInv'
      BY <2>0, <2>2, BindFails
    <2>3. ASSUME NEW field \in FieldAt(Head(work)),
                 UNCHANGED <<scenario, before, phase>>,
                 \/ IsA(tree[Head(work)], "null") /\ UNCHANGED target /\ work' = Tail(work)
                 \/ /\ ~IsA(tree[Head(work)], "null") /\ ~Mismatched(field, Head(work))
                    /\ target' = CASE Head(field.kind) = "pointer" ->
                                        [target EXCEPT ![field.cell] = Allocated]
                                   [] Head(field.kind) \in Containers \ {"pointer"} -> target
                                   [] OTHER -> [target EXCEPT ![field.cell] =
                                        CHOOSE v \in Converted(field.kind, Head(work)) : TRUE]
                    /\ IF Head(field.kind) \in Containers
                       THEN \E order \in Orders(Head(work)) : work' = order \o Tail(work)
                       ELSE work' = Tail(work)
          PROVE  BindInv'
      BY <2>0, <2>3, BindSucceeds
    <2> QED
      BY <1>5, <2>1, <2>2, <2>3 DEF BindValue
  <1>6. CASE Return
    <2>1. /\ work = <<>> /\ tree # <<>> /\ Binding
          /\ UNCHANGED <<scenario, tree, before, target>> /\ phase' = "idle" /\ error' = "none"
      BY <1>6 DEF Return, Finish, BindInv, TypeInv, Stages
    <2>2. \A q : ~Pending(work, q)
      BY <2>1 DEF Pending
    <2>3. /\ \A q \in DOMAIN tree : ~Misfit(q)
          /\ \A f \in Fields : Bound(f) = {target[f.cell]}
          /\ Nameless
      BY <2>1, <2>2 DEF Binding, Settled
    <2>4. /\ \A q : Misfit(q)' <=> Misfit(q)
          /\ \A f : (Bound(f))' = Bound(f)
          /\ \A q : Unknown(q)' <=> Unknown(q)
          /\ Fields' = Fields
      BY <2>1, Unmoved
    <2> QED
      BY <2>1, <2>3, <2>4 DEF BindInv, BoundByName, Nameless
  <1>7. CASE (\E file \in DOMAIN files : Edit(file)) \/ UNCHANGED vars
    <2>1. UNCHANGED <<scenario, phase, tree, work, target, before, error>>
      BY <1>7 DEF Edit, vars
    <2>2. /\ \A q : Misfit(q)' <=> Misfit(q)
          /\ \A f : (Bound(f))' = Bound(f)
          /\ \A q : Reached(q)' <=> Reached(q)
          /\ \A q : Unknown(q)' <=> Unknown(q)
          /\ Fields' = Fields
      BY <2>1, Unmoved
    <2>3. phase = "bind" => Binding'
      BY <2>1, <2>2 DEF BindInv, Binding, Settled, Nameless
    <2>4. BoundByName'
      BY <2>1, <2>2 DEF BindInv, BoundByName
    <2> QED
      BY <2>1, <2>3, <2>4 DEF BindInv
  <1> QED
    BY <1>1, <1>2, <1>3, <1>4, <1>5, <1>6, <1>7 DEF Next

LEMMA BindInvariant == Spec => []BindInv
  <1>1. Init => BindInv
    BY DEF Init, BindInv, BoundByName
  <1>2. TypeInv /\ TypeInv' /\ BindInv /\ [Next]_vars => BindInv'
    BY BindStep
  <1> QED
    BY <1>1, <1>2, TypeInvariant, PTL DEF Spec

-----------------------------------------------------------------------------
(* The theorems.                                                           *)

\* Every variable has its type in every reachable state: the merge, the dropped key of
\* the schema and resolveTree leave well-formed documents, and what bind has still to do
\* are nodes of the resolved tree.
THEOREM TypeCorrect == Spec => []TypeOK
  <1>1. TypeInv => TypeOK
    BY DEF TypeInv
  <1> QED
    BY <1>1, TypeInvariant, PTL

\* After the merge loop of Load and the dropped key of the schema, every path holds what
\* the last document with a say there holds, or nothing where that document replaced it.
THEOREM LastDocumentWins == Spec => []LastWordWins
  <1>1. SourcesInv => LastWordWins
    BY DEF SourcesInv
  <1> QED
    BY <1>1, SourcesInvariant, PTL

\* In whatever order bind goes over the keys of an object, Load succeeds exactly when
\* every key of the resolved tree fits, then every field that structFields has collected
\* holds what its name was given, and after a failure every field holds that or what the
\* caller filled in.
THEOREM BindingByName == Spec => []BoundByName
  <1>1. BindInv => BoundByName
    BY DEF BindInv
  <1> QED
    BY <1>1, BindInvariant, PTL

\* Without a shared Go name reflect.VisibleFields leaves all fields, and the rules are those
\* of encoding/json.
LEMMA SameRules ==
    ASSUME GoNamesApart, NEW f \in scenario.type
    PROVE  Bindable(f) <=> JsonBindable(f)
  <1> DEFINE S == SameStruct(scenario.type, f.path)
  <1>1. ASSUME NEW g \in S
        PROVE  \A h \in S : g.name = h.name => g = h
    <2>1. \A h \in S : h \in SameStruct(scenario.type, g.path)
      BY DEF SameStruct
    <2> QED
      BY <2>1 DEF GoNamesApart, SameStruct
  <1>2. Visible(S) = S
    BY <1>1 DEF Visible
  <1> HIDE DEF S
  <1>3. Candidates(scenario.type, f.path) = JsonCandidates(f.path)
    BY <1>2 DEF Candidates, Collected, JsonCandidates, S
  <1> QED
    BY <1>3 DEF Bindable, JsonBindable

\* A key is refused as unknown only when encoding/json would have no field for it either,
\* unless two fields of one struct share their Go name.
THEOREM JsonRuleWhenApart == Spec => []RefusedAsByJsonWhenApart
  <1>1. BoundByName => RefusedAsByJsonWhenApart
    <2> SUFFICES ASSUME BoundByName, GoNamesApart, phase = "idle", error = "unknown"
                 PROVE  \E path \in DOMAIN tree :
                          /\ \A n \in 0..(Len(path) - 1) : \E f \in scenario.type :
                               /\ f.path = SubSeq(path, 1, n) /\ JsonBindable(f)
                               /\ Head(f.kind) \in Containers
                          /\ \A f \in scenario.type : f.path = path => ~JsonBindable(f)
      BY DEF RefusedAsByJsonWhenApart, RefusedAsByJson
    <2>1. PICK path \in DOMAIN tree : Unknown(path)
      BY DEF BoundByName
    <2> QED
      BY <2>1, SameRules DEF Unknown, Misfit
  <1> QED
    BY <1>1, BindingByName, PTL

=============================================================================
