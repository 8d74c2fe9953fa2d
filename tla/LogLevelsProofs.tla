-------------------------- MODULE LogLevelsProofs --------------------------
(***************************************************************************)
(* Proofs about LogLevels for any spellings, documents and bounds: the     *)
(* walk along a chain computed once finds the longest configured           *)
(* whole-segment prefix, and Apply overlays exactly what a document says.  *)
(***************************************************************************)
EXTENDS LogLevels, FiniteSetTheorems, SequenceTheorems, TLAPS

LOCAL INSTANCE SequencesExt
LOCAL INSTANCE FiniteSetsExt

-----------------------------------------------------------------------------
(* Numbers.                                                                *)

\* A set of indices that has all the smaller ones of each is an interval from 1.
LEMMA InitialSegment ==
    ASSUME NEW n \in Nat, NEW S \in SUBSET (1..n),
           \A i, j \in 1..n : i < j /\ j \in S => i \in S
    PROVE  S = 1..Cardinality(S) /\ Cardinality(S) \in Nat
  <1>1. IsFiniteSet(1..n)
    BY FS_Interval
  <1>2. IsFiniteSet(S)
    BY <1>1, FS_Subset
  <1> DEFINE k == Cardinality(S)
  <1>3. k \in Nat
    BY <1>2, FS_CardinalityType
  <1>4. ASSUME NEW i \in S
        PROVE  i \in 1..k
    <2>1. i \in 1..n /\ 1..i \subseteq S
      OBVIOUS
    <2>2. Cardinality(1..i) <= k
      BY <1>2, <2>1, FS_Subset
    <2>3. Cardinality(1..i) = i
      BY <2>1, FS_Interval
    <2> QED
      BY <1>3, <2>1, <2>2, <2>3
  <1>5. S \subseteq 1..k
    BY <1>4
  <1>6. IsFiniteSet(1..k) /\ Cardinality(1..k) = k
    BY <1>3, FS_Interval
  <1> QED
    BY <1>3, <1>5, <1>6, FS_Subset

\* A set of naturals that is not empty has a smallest element.
LEMMA SmallestExists ==
    ASSUME NEW T \in SUBSET Nat, T # {}
    PROVE  \E m \in T : \A k \in T : m <= k
  <1>1. PICK t \in T : TRUE
    OBVIOUS
  <1> DEFINE S == {k \in 1..(t + 1) : \A i \in T : k - 1 <= i}
  <1>2. S \in SUBSET (1..(t + 1)) /\ t + 1 \in Nat /\ t \in Nat
    OBVIOUS
  <1>3. ASSUME NEW i \in 1..(t + 1), NEW j \in 1..(t + 1), i < j, j \in S
        PROVE  i \in S
    <2>1. \A x \in T : j - 1 <= x /\ x \in Nat
      BY <1>3
    <2>2. \A x \in T : i - 1 <= x
      BY <1>3, <2>1
    <2> QED
      BY <2>2
  <1> HIDE DEF S
  <1>4. PICK c \in Nat : S = 1..c
    BY <1>2, <1>3, InitialSegment
  <1>5. 1 \in S
    BY <1>2 DEF S
  <1>6. c \in S /\ c + 1 \notin S
    BY <1>4, <1>5
  <1>7. c \in 1..(t + 1) /\ \A i \in T : c - 1 <= i /\ i \in Nat
    BY <1>6 DEF S
  <1>8. CASE c = t + 1
    BY <1>1, <1>2, <1>7, <1>8
  <1>9. CASE c # t + 1
    <2>1. c + 1 \in 1..(t + 1)
      BY <1>2, <1>7, <1>9
    <2>2. PICK i \in T : ~(c + 1 - 1 <= i)
      BY <1>6, <2>1 DEF S
    <2>3. i = c - 1
      BY <1>7, <2>2
    <2> QED
      BY <1>7, <2>3
  <1> QED
    BY <1>8, <1>9

\* The smallest and the largest of some naturals.
LEMMA MinFacts ==
    ASSUME NEW T \in SUBSET Nat, T # {}
    PROVE  Min(T) \in T /\ \A k \in T : Min(T) <= k
  <1>1. \E m \in T : \A k \in T : m <= k
    BY SmallestExists
  <1> QED
    BY <1>1 DEF Min

LEMMA MaxFacts ==
    ASSUME NEW n \in Nat, NEW T \in SUBSET (0..n), T # {}
    PROVE  Max(T) \in T /\ \A k \in T : Max(T) >= k
  <1> DEFINE R == {n - k : k \in T}
  <1>1. R \in SUBSET Nat /\ R # {}
    <2>1. \A k \in T : n - k \in Nat
      OBVIOUS
    <2> QED
      BY <2>1
  <1>2. PICK r \in R : \A q \in R : r <= q
    BY <1>1, SmallestExists
  <1>3. PICK m \in T : r = n - m
    BY <1>2
  <1>4. \A k \in T : m >= k
    <2> TAKE k \in T
    <2>1. n - m <= n - k /\ k \in 0..n /\ m \in 0..n
      BY <1>2, <1>3
    <2> QED
      BY <2>1
  <1> QED
    BY <1>4 DEF Max

-----------------------------------------------------------------------------
(* Names.                                                                  *)

\* What Trim leaves begins and ends outside of the cut set.
LEMMA TrimFacts ==
    ASSUME NEW s \in Seq(STRING), NEW cut
    PROVE  /\ Trim(s, cut) \in Seq(STRING)
           /\ Trim(s, cut) # <<>> => Trim(s, cut)[Len(Trim(s, cut))] \notin cut
  <1> DEFINE kept == {i \in DOMAIN s : s[i] \notin cut}
  <1>1. kept \in SUBSET (0..Len(s)) /\ kept \in SUBSET Nat /\ Len(s) \in Nat
    OBVIOUS
  <1>2. CASE kept = {}
    BY <1>2 DEF Trim
  <1>3. CASE kept # {}
    <2> DEFINE a == Min(kept)
               b == Max(kept)
    <2>1. a \in kept /\ b \in kept /\ a <= b
      BY <1>1, <1>3, MinFacts, MaxFacts
    <2> HIDE DEF a, b
    <2>2. a \in 1..Len(s) /\ b \in 1..Len(s) /\ s[b] \notin cut
      BY <2>1
    <2> DEFINE r == SubSeq(s, a, b)
    <2>3. r \in Seq(STRING) /\ Len(r) = b - a + 1 /\ \A i \in 1..(b - a + 1) : r[i] = s[a + i - 1]
      <3>1. \A i \in a..b : s[i] \in STRING
        BY <2>2
      <3> QED
        BY <2>1, <2>2, <3>1, SubSeqProperties
    <2>4. r[Len(r)] = s[b]
      BY <2>1, <2>2, <2>3
    <2>5. Trim(s, cut) = r
      BY <1>3 DEF Trim, a, b
    <2> QED
      BY <2>2, <2>3, <2>4, <2>5
  <1> QED
    BY <1>2, <1>3

\* A canonical name ends in a segment.
LEMMA CanonicalFacts ==
    ASSUME NEW s \in Seq(STRING)
    PROVE  /\ CanonicalName(s) \in Seq(STRING)
           /\ CanonicalName(s) # Root =>
                CanonicalName(s)[Len(CanonicalName(s))] \notin Separators
  <1>1. Root \in Seq(STRING)
    BY DEF Root
  <1> QED
    BY <1>1, TrimFacts DEF CanonicalName, Root

LEMMA SpellingsType == Spellings \subseteq Seq(STRING)
  BY SpellingsAssumption DEF Spellings, ToSet

LEMMA NamesFacts ==
    ASSUME NEW n \in Names
    PROVE  n \in Seq(STRING) /\ (n # Root => n[Len(n)] \notin Separators /\ Len(n) \in 1..Len(n))
  <1>1. PICK s \in Spellings : n = CanonicalName(s)
    BY DEF Names
  <1>2. n \in Seq(STRING) /\ (n # Root => n[Len(n)] \notin Separators)
    BY <1>1, SpellingsType, CanonicalFacts
  <1>3. n # <<>> => Len(n) \in 1..Len(n)
    BY <1>2
  <1> QED
    BY <1>2, <1>3 DEF Root

-----------------------------------------------------------------------------
(* The walk along a chain.                                                 *)

\* A name that governs another is its prefix up to the end of a segment, and the reverse.
LEMMA GoverningFacts ==
    ASSUME NEW c \in Seq(STRING), c # Root => c[Len(c)] \notin Separators,
           NEW a \in Names, a # Root
    PROVE  (IsPrefix(a, c) /\ (a = c \/ c[Len(a) + 1] \in Separators))
           <=> (Len(a) \in SegmentEnds(c) /\ a = SubSeq(c, 1, Len(a)))
  <1>1. a \in Seq(STRING) /\ Len(a) \in 1..Len(a) /\ a[Len(a)] \notin Separators
    BY NamesFacts
  <1>2. SubSeq(a, 1, Len(a)) = a
    BY <1>1, SubSeqFull
  <1>3. Len(a) \in Nat /\ Len(c) \in Nat /\ Len(a) > 0
    BY <1>1
  <1>4. ASSUME Len(a) <= Len(c), a = SubSeq(c, 1, Len(a))
        PROVE  c[Len(a)] = a[Len(a)] /\ (a = c <=> Len(a) = Len(c))
    <2>1. \A i \in 1..Len(a) : c[i] \in STRING
      BY <1>3, <1>4
    <2>2. \A i \in 1..Len(a) - 1 + 1 : SubSeq(c, 1, Len(a))[i] = c[1 + i - 1]
      BY <1>3, <2>1, SubSeqProperties
    <2>3. c[Len(a)] = a[Len(a)]
      BY <1>3, <1>4, <2>2
    <2>4. Len(a) = Len(c) => a = c
      BY <1>4, SubSeqFull
    <2> QED
      BY <2>3, <2>4
  <1>5. ASSUME IsPrefix(a, c), a = c \/ c[Len(a) + 1] \in Separators
        PROVE  Len(a) \in SegmentEnds(c) /\ a = SubSeq(c, 1, Len(a))
    <2>1. Len(a) <= Len(c) /\ a = SubSeq(c, 1, Len(a))
      BY <1>2, <1>5 DEF IsPrefix
    <2> QED
      BY <1>1, <1>3, <1>4, <1>5, <2>1 DEF SegmentEnds
  <1>6. ASSUME Len(a) \in SegmentEnds(c), a = SubSeq(c, 1, Len(a))
        PROVE  IsPrefix(a, c) /\ (a = c \/ c[Len(a) + 1] \in Separators)
    <2>1. Len(a) <= Len(c) /\ (Len(a) = Len(c) \/ c[Len(a) + 1] \in Separators)
      BY <1>3, <1>6 DEF SegmentEnds
    <2>2. IsPrefix(a, c)
      BY <1>2, <1>6, <2>1 DEF IsPrefix
    <2> QED
      BY <1>4, <1>6, <2>1, <2>2
  <1> QED
    BY <1>5, <1>6

\* The first assigned name of a chain is the longest configured prefix.
LEMMA WalkFindsNearest ==
    ASSUME NEW t, DOMAIN t.assigned \subseteq Names \ {Root}, NEW name \in Seq(STRING)
    PROVE  Effective(t, Ancestry(name)) = NearestLevel(t, name)
  <1> DEFINE c == CanonicalName(name)
             chain == Ancestry(name)
             found == {i \in DOMAIN chain : chain[i] \in DOMAIN t.assigned}
             governing == Governing(t, name)
  <1>1. c \in Seq(STRING) /\ (c # Root => c[Len(c)] \notin Separators) /\ Len(c) \in Nat
    BY CanonicalFacts
  <1> HIDE DEF c
  <1>2. chain = [cut \in {Len(c) - i : i \in SegmentEnds(c)} |-> SubSeq(c, 1, Len(c) - cut)]
    BY DEF Ancestry, c
  <1>3. governing = {a \in DOMAIN t.assigned : IsPrefix(a, c) /\ (a = c \/ c[Len(a) + 1] \in Separators)}
    BY DEF Governing, c
  <1>4. governing = {a \in DOMAIN t.assigned : Len(a) \in SegmentEnds(c) /\ a = SubSeq(c, 1, Len(a))}
    BY <1>1, <1>3, GoverningFacts
  <1>5. SegmentEnds(c) \subseteq 1..Len(c)
    BY DEF SegmentEnds
  <1> HIDE DEF chain, governing
  <1>6. \A a \in governing : /\ Len(a) \in 1..Len(c) /\ a = SubSeq(c, 1, Len(a))
                             /\ Len(c) - Len(a) \in found
    <2> TAKE a \in governing
    <2>1. Len(a) \in SegmentEnds(c) /\ a = SubSeq(c, 1, Len(a)) /\ a \in DOMAIN t.assigned
      BY <1>4
    <2>2. Len(a) \in 1..Len(c) /\ Len(c) - (Len(c) - Len(a)) = Len(a)
      BY <1>1, <1>5, <2>1
    <2>3. Len(c) - Len(a) \in DOMAIN chain /\ chain[Len(c) - Len(a)] = a
      BY <1>2, <2>1, <2>2
    <2> QED
      BY <2>1, <2>2, <2>3
  <1>7. \A k \in found : /\ k \in Nat /\ chain[k] \in governing
                         /\ Len(chain[k]) = Len(c) - k
    <2> TAKE k \in found
    <2>1. PICK i \in SegmentEnds(c) : k = Len(c) - i
      BY <1>2
    <2>2. i \in 1..Len(c) /\ k \in Nat /\ Len(c) - k = i
      BY <1>1, <1>5, <2>1
    <2>3. chain[k] = SubSeq(c, 1, i) /\ chain[k] \in DOMAIN t.assigned
      BY <1>2, <2>1, <2>2
    <2>4. Len(SubSeq(c, 1, i)) = i
      <3>1. \A j \in 1..i : c[j] \in STRING
        BY <1>1, <2>2
      <3> QED
        BY <2>2, <3>1, SubSeqProperties
    <2> QED
      BY <1>4, <2>2, <2>3, <2>4
  <1>8. CASE found = {}
    <2>1. governing = {}
      BY <1>6, <1>8
    <2> QED
      BY <1>8, <2>1 DEF Effective, NearestLevel, governing, chain
  <1>9. CASE found # {}
    <2> DEFINE k == Min(found)
               nearest == CHOOSE a \in governing : \A b \in governing : Len(b) <= Len(a)
    <2>1. found \in SUBSET Nat
      BY <1>7
    <2>2. k \in found /\ \A j \in found : k <= j
      BY <1>9, <2>1, MinFacts
    <2> HIDE DEF found, k
    <2>3. k \in Nat /\ chain[k] \in governing /\ Len(chain[k]) = Len(c) - k
      BY <1>7, <2>2
    <2>4. \A b \in governing : Len(b) <= Len(chain[k])
      <3> TAKE b \in governing
      <3>1. Len(b) \in 1..Len(c) /\ k <= Len(c) - Len(b)
        BY <1>6, <2>2
      <3> QED
        BY <1>1, <2>3, <3>1
    <2>5. nearest \in governing /\ \A b \in governing : Len(b) <= Len(nearest)
      BY <2>3, <2>4
    <2> HIDE DEF nearest
    <2>6. Len(nearest) = Len(chain[k])
      <3>1. Len(nearest) \in Nat /\ Len(chain[k]) \in Nat
        BY <1>6, <2>3, <2>5
      <3>2. Len(nearest) <= Len(chain[k]) /\ Len(chain[k]) <= Len(nearest)
        BY <2>3, <2>4, <2>5
      <3> QED
        BY <3>1, <3>2
    <2>7. nearest = chain[k]
      BY <1>6, <2>3, <2>5, <2>6
    <2>8. Effective(t, chain) = t.assigned[chain[k]]
      BY <1>9 DEF Effective, found, k
    <2>9. NearestLevel(t, name) = t.assigned[nearest]
      BY <2>5 DEF NearestLevel, governing, nearest
    <2> QED
      BY <2>7, <2>8, <2>9 DEF chain
  <1> QED
    BY <1>8, <1>9

-----------------------------------------------------------------------------
(* The loops of Apply.                                                     *)

\* The groups and the levels after each of the first n sorted keys.
IsGroupScan(document, f, n) ==
    f = [i \in 0..n |->
            IF i = 0 THEN groups
            ELSE IF Spelled[i] \in DOMAIN document.groups
                 THEN AddGroup(document, f[i - 1], Spelled[i])
                 ELSE f[i - 1]]

Nothing == [fanned |-> << >>, direct |-> << >>]

IsLevelScan(document, f, n) ==
    f = [i \in 0..n |->
            IF i = 0 THEN Nothing
            ELSE IF Spelled[i] \in DOMAIN document.levels
                 THEN AddLevel(document, WithGroups(document), f[i - 1], Spelled[i])
                 ELSE f[i - 1]]

\* The loops come to their ends.
LEMMA GroupScan ==
    ASSUME NEW document
    PROVE  \E f : IsGroupScan(document, f, Len(Spelled)) /\ WithGroups(document) = f[Len(Spelled)]
  <1> DEFINE N == Len(Spelled)
             Step(x, i) == IF Spelled[i] \in DOMAIN document.groups
                           THEN AddGroup(document, x, Spelled[i]) ELSE x
             Scans(f, n) == f = [i \in 0..n |-> IF i = 0 THEN groups ELSE Step(f[i - 1], i)]
             T == {n \in 0..N : ~\E f : Scans(f, n)}
  <1>1. N \in Nat
    BY SpellingsAssumption
  <1>2. WithGroups(document) = (CHOOSE f : Scans(f, N))[N]
    BY DEF WithGroups
  <1>3. \A f : Scans(f, N) => IsGroupScan(document, f, N)
    BY DEF IsGroupScan
  <1> HIDE DEF Step, N
  <1>4. T = {}
    <2> SUFFICES ASSUME T # {} PROVE FALSE
      OBVIOUS
    <2>1. T \in SUBSET Nat
      BY <1>1
    <2>2. PICK m \in T : \A k \in T : m <= k
      BY <2>1, SmallestExists
    <2>3. m \in 0..N /\ ~\E f : Scans(f, m)
      BY <2>2
    <2>4. CASE m = 0
      <3>1. Scans([i \in 0..0 |-> groups], 0)
        OBVIOUS
      <3> QED
        BY <2>3, <2>4, <3>1
    <2>5. CASE m # 0
      <3>1. m - 1 \in 0..N /\ ~(m <= m - 1) /\ m \in Nat /\ m - 1 \in Nat
        BY <1>1, <2>3, <2>5
      <3>2. m - 1 \notin T
        BY <2>2, <3>1
      <3>3. PICK f : Scans(f, m - 1)
        BY <3>1, <3>2
      <3> DEFINE g == [i \in 0..m |-> IF i = m THEN Step(f[m - 1], m) ELSE f[i]]
      <3>4. \A i \in 0..m : g[i] = IF i = 0 THEN groups ELSE Step(g[i - 1], i)
        <4> TAKE i \in 0..m
        <4>1. CASE i = m
          <5>1. g[m] = Step(f[m - 1], m) /\ m - 1 \in 0..m /\ m - 1 # m
            BY <3>1
          <5>2. g[m - 1] = f[m - 1]
            BY <5>1
          <5> QED
            BY <2>5, <4>1, <5>1, <5>2
        <4>2. CASE i # m
          <5>1. i \in 0..(m - 1) /\ (i # 0 => i - 1 \in 0..(m - 1) /\ i - 1 \in 0..m /\ i - 1 # m)
            BY <3>1, <4>2
          <5>2. f[i] = IF i = 0 THEN groups ELSE Step(f[i - 1], i)
            BY <3>3, <5>1
          <5>3. g[i] = f[i] /\ (i # 0 => g[i - 1] = f[i - 1])
            BY <4>2, <5>1
          <5> QED
            BY <5>2, <5>3
        <4> QED
          BY <4>1, <4>2
      <3>5. Scans(g, m)
        <4>1. g = [i \in 0..m |-> g[i]]
          OBVIOUS
        <4> HIDE DEF g
        <4> QED
          BY <3>4, <4>1
      <3> QED
        BY <2>3, <3>5
    <2> QED
      BY <2>4, <2>5
  <1> HIDE DEF Scans
  <1>5. \E f : Scans(f, N)
    <2>1. N \in 0..N /\ N \notin T
      BY <1>1, <1>4
    <2> QED
      BY <2>1
  <1>6. PICK f : f = CHOOSE h : Scans(h, N)
    OBVIOUS
  <1>7. IsGroupScan(document, f, N) /\ WithGroups(document) = f[N]
    BY <1>2, <1>3, <1>5, <1>6
  <1> QED
    BY <1>7 DEF N

LEMMA LevelScan ==
    ASSUME NEW document
    PROVE  \E f : IsLevelScan(document, f, Len(Spelled)) /\ Assignments(document) = f[Len(Spelled)]
  <1> DEFINE N == Len(Spelled)
             Step(x, i) == IF Spelled[i] \in DOMAIN document.levels
                           THEN AddLevel(document, WithGroups(document), x, Spelled[i]) ELSE x
             Scans(f, n) == f = [i \in 0..n |-> IF i = 0 THEN Nothing ELSE Step(f[i - 1], i)]
             T == {n \in 0..N : ~\E f : Scans(f, n)}
  <1>1. N \in Nat
    BY SpellingsAssumption
  <1>2. Assignments(document) = (CHOOSE f : Scans(f, N))[N]
    BY DEF Assignments, Nothing
  <1>3. \A f : Scans(f, N) => IsLevelScan(document, f, N)
    BY DEF IsLevelScan
  <1> HIDE DEF Step, N
  <1>4. T = {}
    <2> SUFFICES ASSUME T # {} PROVE FALSE
      OBVIOUS
    <2>1. T \in SUBSET Nat
      BY <1>1
    <2>2. PICK m \in T : \A k \in T : m <= k
      BY <2>1, SmallestExists
    <2>3. m \in 0..N /\ ~\E f : Scans(f, m)
      BY <2>2
    <2>4. CASE m = 0
      <3>1. Scans([i \in 0..0 |-> Nothing], 0)
        OBVIOUS
      <3> QED
        BY <2>3, <2>4, <3>1
    <2>5. CASE m # 0
      <3>1. m - 1 \in 0..N /\ ~(m <= m - 1) /\ m \in Nat /\ m - 1 \in Nat
        BY <1>1, <2>3, <2>5
      <3>2. m - 1 \notin T
        BY <2>2, <3>1
      <3>3. PICK f : Scans(f, m - 1)
        BY <3>1, <3>2
      <3> DEFINE g == [i \in 0..m |-> IF i = m THEN Step(f[m - 1], m) ELSE f[i]]
      <3>4. \A i \in 0..m : g[i] = IF i = 0 THEN Nothing ELSE Step(g[i - 1], i)
        <4> TAKE i \in 0..m
        <4>1. CASE i = m
          <5>1. g[m] = Step(f[m - 1], m) /\ m - 1 \in 0..m /\ m - 1 # m
            BY <3>1
          <5>2. g[m - 1] = f[m - 1]
            BY <5>1
          <5> QED
            BY <2>5, <4>1, <5>1, <5>2
        <4>2. CASE i # m
          <5>1. i \in 0..(m - 1) /\ (i # 0 => i - 1 \in 0..(m - 1) /\ i - 1 \in 0..m /\ i - 1 # m)
            BY <3>1, <4>2
          <5>2. f[i] = IF i = 0 THEN Nothing ELSE Step(f[i - 1], i)
            BY <3>3, <5>1
          <5>3. g[i] = f[i] /\ (i # 0 => g[i - 1] = f[i - 1])
            BY <4>2, <5>1
          <5> QED
            BY <5>2, <5>3
        <4> QED
          BY <4>1, <4>2
      <3>5. Scans(g, m)
        <4>1. g = [i \in 0..m |-> g[i]]
          OBVIOUS
        <4> HIDE DEF g
        <4> QED
          BY <3>4, <4>1
      <3> QED
        BY <2>3, <3>5
    <2> QED
      BY <2>4, <2>5
  <1> HIDE DEF Scans
  <1>5. \E f : Scans(f, N)
    <2>1. N \in 0..N /\ N \notin T
      BY <1>1, <1>4
    <2> QED
      BY <2>1
  <1>6. PICK f : f = CHOOSE h : Scans(h, N)
    OBVIOUS
  <1>7. IsLevelScan(document, f, N) /\ Assignments(document) = f[N]
    BY <1>2, <1>3, <1>5, <1>6
  <1> QED
    BY <1>7 DEF N

\* What a fold over the first n keys has kept: nothing is reached before an entry of S, and
\* then the latest entry decides.
Positions(S, n) == {j \in 1..n : Spelled[j] \in S}

LEMMA PositionsStep ==
    ASSUME NEW S, NEW n \in Nat, n # 0
    PROVE  /\ Spelled[n] \in S => Positions(S, n) # {} /\ Max(Positions(S, n)) = n
           /\ Spelled[n] \notin S => Positions(S, n) = Positions(S, n - 1)
  <1>1. n \in 1..n /\ n - 1 \in Nat /\ 1..n = 1..(n - 1) \cup {n} /\ n \notin 1..(n - 1)
    OBVIOUS
  <1>2. ASSUME Spelled[n] \in S
        PROVE  Positions(S, n) # {} /\ Max(Positions(S, n)) = n
    <2>1. n \in Positions(S, n)
      BY <1>1, <1>2 DEF Positions
    <2>2. Positions(S, n) \in SUBSET (0..n)
      BY DEF Positions
    <2>3. Max(Positions(S, n)) \in Positions(S, n) /\ Max(Positions(S, n)) >= n
      BY <2>1, <2>2, MaxFacts
    <2>4. Max(Positions(S, n)) \in 0..n
      BY <2>2, <2>3
    <2> QED
      BY <2>1, <2>3, <2>4
  <1>3. ASSUME Spelled[n] \notin S
        PROVE  Positions(S, n) = Positions(S, n - 1)
    BY <1>1, <1>3 DEF Positions
  <1> QED
    BY <1>2, <1>3

\* Every group Apply registers is a name other than the root's, with such members.
LEMMA WithGroupsType ==
    ASSUME TypeOK, NEW document \in Documents, Valid(document)
    PROVE  /\ DOMAIN WithGroups(document) \subseteq Names \ {Root}
           /\ \A g \in DOMAIN WithGroups(document) :
                WithGroups(document)[g] \subseteq Names \ {Root}
  <1> DEFINE Q(w) == /\ DOMAIN w \subseteq Names \ {Root}
                     /\ \A g \in DOMAIN w : w[g] \subseteq Names \ {Root}
             N == Len(Spelled)
  <1>1. PICK f : IsGroupScan(document, f, N) /\ WithGroups(document) = f[N]
    BY GroupScan
  <1>2. N \in Nat
    BY SpellingsAssumption
  <1>3. \A w, s : Q(w) /\ s \in DOMAIN document.groups => Q(AddGroup(document, w, s))
    <2> SUFFICES ASSUME NEW w, NEW s \in DOMAIN document.groups, Q(w)
                 PROVE  Q(AddGroup(document, w, s))
      OBVIOUS
    <2>1. s \in Spellings /\ document.groups[s] \subseteq Spellings
      BY CallsAssumption
    <2>2. CanonicalName(s) \in Names \ {Root}
      BY <2>1 DEF Names, Valid
    <2>3. {CanonicalName(m) : m \in document.groups[s]} \subseteq Names \ {Root}
      BY <2>1 DEF Names, Valid
    <2> DEFINE members == {CanonicalName(m) : m \in document.groups[s]}
               v == AddGroup(document, w, s)
    <2>4. v = [g \in {CanonicalName(s)} \cup DOMAIN w |->
                  IF g \in {CanonicalName(s)} THEN members ELSE w[g]]
      BY DEF AddGroup, Written
    <2> HIDE DEF members
    <2> QED
      BY <2>2, <2>3, <2>4 DEF members
  <1> DEFINE T == {n \in 0..N : ~Q(f[n])}
  <1>4. T = {}
    <2> SUFFICES ASSUME T # {} PROVE FALSE
      OBVIOUS
    <2> HIDE DEF Q
    <2>1. T \in SUBSET Nat
      BY <1>2
    <2>2. PICK m \in T : \A k \in T : m <= k
      BY <2>1, SmallestExists
    <2>3. m \in 0..N /\ ~Q(f[m])
      BY <2>2
    <2>4. f[0] = groups /\ Q(groups)
      BY <1>1, <1>2 DEF IsGroupScan, Q, TypeOK
    <2>5. m # 0
      BY <2>3, <2>4
    <2>6. m - 1 \in 0..N /\ ~(m <= m - 1)
      BY <1>2, <2>3, <2>5
    <2>7. Q(f[m - 1])
      BY <2>2, <2>6
    <2>8. f[m] = IF Spelled[m] \in DOMAIN document.groups
                 THEN AddGroup(document, f[m - 1], Spelled[m]) ELSE f[m - 1]
      BY <1>1, <2>3, <2>5 DEF IsGroupScan
    <2> QED
      BY <1>3, <2>3, <2>7, <2>8
  <1> HIDE DEF Q
  <1>5. N \in 0..N /\ N \notin T
    BY <1>2, <1>4
  <1>6. Q(WithGroups(document))
    BY <1>1, <1>5
  <1> QED
    BY <1>6 DEF Q

\* The entries of a document that give a name a level, directly or through a group.
Direct(document, n) ==
    {s \in DOMAIN document.levels :
        ~IsGroup(WithGroups(document), CanonicalName(s)) /\ CanonicalName(s) = n}

Fanned(document, n) ==
    {s \in DOMAIN document.levels :
        /\ IsGroup(WithGroups(document), CanonicalName(s))
        /\ n \in WithGroups(document)[CanonicalName(s)]}

\* The entry of a set that is spelled last among the first i keys.
LevelOf(document, S, i) == ParseLevel[document.levels[Spelled[Max(Positions(S, i))]]]

\* What the second loop has collected.
Collected(document, a, i) ==
    /\ \A n : n \in DOMAIN a.direct <=> Positions(Direct(document, n), i) # {}
    /\ \A n \in DOMAIN a.direct : a.direct[n] = LevelOf(document, Direct(document, n), i)
    /\ \A n : n \in DOMAIN a.fanned <=> Positions(Fanned(document, n), i) # {}
    /\ \A n \in DOMAIN a.fanned : a.fanned[n] = LevelOf(document, Fanned(document, n), i)

\* The key at position i is in one entry of one kind.
LEMMA KeyKinds ==
    ASSUME NEW document, NEW s \in DOMAIN document.levels, NEW n
    PROVE  /\ s \in Direct(document, n) <=> ~IsGroup(WithGroups(document), CanonicalName(s))
                                            /\ CanonicalName(s) = n
           /\ s \in Fanned(document, n) <=> IsGroup(WithGroups(document), CanonicalName(s))
                                            /\ n \in WithGroups(document)[CanonicalName(s)]
  BY DEF Direct, Fanned

\* One key more: what it says of a name replaces what was said before.
LEMMA CollectOne ==
    ASSUME NEW document, NEW fanned, NEW direct, NEW i \in Nat, i # 0,
           Spelled[i] \in DOMAIN document.levels,
           Collected(document, [fanned |-> fanned, direct |-> direct], i - 1)
    PROVE  \E f, d :
             /\ AddLevel(document, WithGroups(document),
                         [fanned |-> fanned, direct |-> direct], Spelled[i])
                = [fanned |-> f, direct |-> d]
             /\ Collected(document, [fanned |-> f, direct |-> d], i)
  <1> DEFINE s == Spelled[i]
             name == CanonicalName(s)
             level == ParseLevel[document.levels[s]]
             declared == WithGroups(document)
             a == [fanned |-> fanned, direct |-> direct]
  <1>1. a.fanned = fanned /\ a.direct = direct
    OBVIOUS
  <1>2. /\ \A n : n \in DOMAIN direct <=> Positions(Direct(document, n), i - 1) # {}
        /\ \A n \in DOMAIN direct : direct[n] = LevelOf(document, Direct(document, n), i - 1)
        /\ \A n : n \in DOMAIN fanned <=> Positions(Fanned(document, n), i - 1) # {}
        /\ \A n \in DOMAIN fanned : fanned[n] = LevelOf(document, Fanned(document, n), i - 1)
    BY <1>1 DEF Collected
  <1>3. \A S : /\ s \in S => Positions(S, i) # {} /\ LevelOf(document, S, i) = level
               /\ s \notin S => /\ Positions(S, i) = Positions(S, i - 1)
                                /\ LevelOf(document, S, i) = LevelOf(document, S, i - 1)
    BY PositionsStep DEF LevelOf
  <1>4. \A n : /\ s \in Direct(document, n) <=> ~IsGroup(declared, name) /\ name = n
               /\ s \in Fanned(document, n) <=> IsGroup(declared, name) /\ n \in declared[name]
    BY KeyKinds
  <1> HIDE DEF s, name, level, declared
  <1>5. CASE IsGroup(declared, name)
    <2> DEFINE f == Written([m \in declared[name] |-> level], fanned)
    <2>1. AddLevel(document, declared, a, s) = [fanned |-> f, direct |-> direct]
      BY <1>5 DEF AddLevel, name, level
    <2>2. /\ DOMAIN f = declared[name] \cup DOMAIN fanned
          /\ \A n \in DOMAIN f : f[n] = IF n \in declared[name] THEN level ELSE fanned[n]
      BY DEF Written
    <2> HIDE DEF f
    <2>3. \A n : n \in DOMAIN f <=> Positions(Fanned(document, n), i) # {}
      BY <1>2, <1>3, <1>4, <1>5, <2>2
    <2>4. \A n \in DOMAIN f : f[n] = LevelOf(document, Fanned(document, n), i)
      BY <1>2, <1>3, <1>4, <1>5, <2>2
    <2>5. /\ \A n : n \in DOMAIN direct <=> Positions(Direct(document, n), i) # {}
          /\ \A n \in DOMAIN direct : direct[n] = LevelOf(document, Direct(document, n), i)
      BY <1>2, <1>3, <1>4, <1>5
    <2>6. Collected(document, [fanned |-> f, direct |-> direct], i)
      BY <2>3, <2>4, <2>5 DEF Collected
    <2> QED
      BY <2>1, <2>6 DEF declared, s
  <1>6. CASE ~IsGroup(declared, name)
    <2> DEFINE d == Written([n \in {name} |-> level], direct)
    <2>1. AddLevel(document, declared, a, s) = [fanned |-> fanned, direct |-> d]
      BY <1>6 DEF AddLevel, name, level
    <2>2. /\ DOMAIN d = {name} \cup DOMAIN direct
          /\ \A n \in DOMAIN d : d[n] = IF n = name THEN level ELSE direct[n]
      BY DEF Written
    <2> HIDE DEF d
    <2>3. \A n : n \in DOMAIN d <=> Positions(Direct(document, n), i) # {}
      BY <1>2, <1>3, <1>4, <1>6, <2>2
    <2>4. \A n \in DOMAIN d : d[n] = LevelOf(document, Direct(document, n), i)
      BY <1>2, <1>3, <1>4, <1>6, <2>2
    <2>5. /\ \A n : n \in DOMAIN fanned <=> Positions(Fanned(document, n), i) # {}
          /\ \A n \in DOMAIN fanned : fanned[n] = LevelOf(document, Fanned(document, n), i)
      BY <1>2, <1>3, <1>4, <1>6
    <2>6. Collected(document, [fanned |-> fanned, direct |-> d], i)
      BY <2>3, <2>4, <2>5 DEF Collected
    <2> QED
      BY <2>1, <2>6 DEF declared, s
  <1> QED
    BY <1>5, <1>6

\* Apply collects of the document what its last entries say.
LEMMA AssignmentsFacts ==
    ASSUME NEW document
    PROVE  Collected(document, Assignments(document), Len(Spelled))
  <1> DEFINE N == Len(Spelled)
             Q(a, n) == \E f, d : /\ a = [fanned |-> f, direct |-> d]
                                  /\ Collected(document, [fanned |-> f, direct |-> d], n)
  <1>1. PICK f : IsLevelScan(document, f, N) /\ Assignments(document) = f[N]
    BY LevelScan
  <1>2. N \in Nat
    BY SpellingsAssumption
  <1> DEFINE T == {n \in 0..N : ~Q(f[n], n)}
  <1>3. Q(f[0], 0)
    <2>1. f[0] = [fanned |-> << >>, direct |-> << >>]
      BY <1>1, <1>2 DEF IsLevelScan, Nothing
    <2>2. \A S : Positions(S, 0) = {}
      BY DEF Positions
    <2>3. DOMAIN << >> = {}
      OBVIOUS
    <2>4. Collected(document, [fanned |-> << >>, direct |-> << >>], 0)
      BY <2>2, <2>3 DEF Collected
    <2> QED
      BY <2>1, <2>4
  <1>4. ASSUME NEW m \in 1..N, Q(f[m - 1], m - 1)
        PROVE  Q(f[m], m)
    <2>1. f[m] = IF Spelled[m] \in DOMAIN document.levels
                 THEN AddLevel(document, WithGroups(document), f[m - 1], Spelled[m])
                 ELSE f[m - 1]
      BY <1>1, <1>2 DEF IsLevelScan
    <2>2. PICK x, d : /\ f[m - 1] = [fanned |-> x, direct |-> d]
                      /\ Collected(document, [fanned |-> x, direct |-> d], m - 1)
      BY <1>4
    <2>3. m \in Nat /\ m # 0
      BY <1>2
    <2>4. CASE Spelled[m] \in DOMAIN document.levels
      <3>1. Collected(document, [fanned |-> x, direct |-> d], m - 1)
        BY <2>2
      <3>2. PICK y, e :
              /\ AddLevel(document, WithGroups(document), [fanned |-> x, direct |-> d], Spelled[m])
                 = [fanned |-> y, direct |-> e]
              /\ Collected(document, [fanned |-> y, direct |-> e], m)
        BY <2>3, <2>4, <3>1, CollectOne
      <3>3. f[m] = [fanned |-> y, direct |-> e]
        BY <2>1, <2>2, <2>4, <3>2
      <3> QED
        BY <3>2, <3>3
    <2>5. CASE Spelled[m] \notin DOMAIN document.levels
      <3>1. \A n : Spelled[m] \notin Direct(document, n) /\ Spelled[m] \notin Fanned(document, n)
        BY <2>5 DEF Direct, Fanned
      <3>2. \A n : /\ Positions(Direct(document, n), m) = Positions(Direct(document, n), m - 1)
                   /\ Positions(Fanned(document, n), m) = Positions(Fanned(document, n), m - 1)
        BY <2>3, <3>1, PositionsStep
      <3>3. Collected(document, [fanned |-> x, direct |-> d], m)
        BY <2>2, <3>2 DEF Collected, LevelOf
      <3> QED
        BY <2>1, <2>2, <2>5, <3>3
    <2> QED
      BY <2>4, <2>5
  <1>5. T = {}
    <2> SUFFICES ASSUME T # {} PROVE FALSE
      OBVIOUS
    <2> HIDE DEF Q
    <2>1. T \in SUBSET Nat
      BY <1>2
    <2>2. PICK m \in T : \A k \in T : m <= k
      BY <2>1, SmallestExists
    <2>3. m \in 1..N /\ m - 1 \in 0..N /\ ~(m <= m - 1) /\ ~Q(f[m], m)
      BY <1>2, <1>3, <2>2
    <2>4. Q(f[m - 1], m - 1)
      BY <2>2, <2>3
    <2> QED
      BY <1>4, <2>3, <2>4
  <1>6. Q(f[N], N)
    <2> HIDE DEF Q
    <2>1. N \in 0..N /\ N \notin T
      BY <1>2, <1>5
    <2> QED
      BY <2>1
  <1> QED
    BY <1>1, <1>6

\* The last word of some entries is a level.
LEMMA LastEntry ==
    ASSUME NEW document \in Documents, Valid(document), NEW S \in SUBSET DOMAIN document.levels
    PROVE  /\ S # {} <=> Positions(S, Len(Spelled)) # {}
           /\ S # {} => LevelOf(document, S, Len(Spelled)) \in Levels
           /\ LastLevel(document, S) = {LevelOf(document, S, Len(Spelled))}
  <1>1. Len(Spelled) \in Nat /\ DOMAIN Spelled = 1..Len(Spelled)
    BY SpellingsAssumption
  <1>2. S \subseteq Spellings
    BY CallsAssumption
  <1>3. S # {} => Positions(S, Len(Spelled)) # {}
    BY <1>1, <1>2 DEF Positions, Spellings, ToSet
  <1>4. Positions(S, Len(Spelled)) # {} => Max(Positions(S, Len(Spelled))) \in Positions(S, Len(Spelled))
    <2>1. Positions(S, Len(Spelled)) \in SUBSET (0..Len(Spelled))
      BY DEF Positions
    <2> QED
      BY <1>1, <2>1, MaxFacts
  <1>5. S # {} => LevelOf(document, S, Len(Spelled)) \in Levels
    <2> SUFFICES ASSUME S # {} PROVE LevelOf(document, S, Len(Spelled)) \in Levels
      OBVIOUS
    <2>1. Spelled[Max(Positions(S, Len(Spelled)))] \in DOMAIN document.levels
      BY <1>3, <1>4 DEF Positions
    <2> QED
      BY <2>1 DEF LevelOf, Valid, Levels
  <1>6. {i \in DOMAIN Spelled : Spelled[i] \in S} = Positions(S, Len(Spelled))
    BY <1>1 DEF Positions
  <1>7. LastLevel(document, S) = {LevelOf(document, S, Len(Spelled))}
    BY <1>6 DEF LastLevel, LevelOf
  <1>8. Positions(S, Len(Spelled)) # {} => S # {}
    BY DEF Positions
  <1> QED
    BY <1>3, <1>5, <1>7, <1>8

\* What Apply collects are levels of names.
LEMMA AssignmentsType ==
    ASSUME TypeOK, NEW document \in Documents, Valid(document), NEW n
    PROVE  /\ n \in DOMAIN Assignments(document).direct <=> Direct(document, n) # {}
           /\ Direct(document, n) # {} =>
                /\ n \in Names /\ Assignments(document).direct[n] \in Levels
                /\ LastLevel(document, Direct(document, n)) = {Assignments(document).direct[n]}
           /\ n \in DOMAIN Assignments(document).fanned <=> Fanned(document, n) # {}
           /\ Fanned(document, n) # {} =>
                /\ n \in Names /\ Assignments(document).fanned[n] \in Levels
                /\ LastLevel(document, Fanned(document, n)) = {Assignments(document).fanned[n]}
  <1>1. Collected(document, Assignments(document), Len(Spelled))
    BY AssignmentsFacts
  <1>2. Direct(document, n) \in SUBSET DOMAIN document.levels
    BY DEF Direct
  <1>3. Fanned(document, n) \in SUBSET DOMAIN document.levels
    BY DEF Fanned
  <1>4. Direct(document, n) # {} => n \in Names
    <2>1. DOMAIN document.levels \subseteq Spellings
      BY CallsAssumption
    <2> QED
      BY <2>1 DEF Direct, Names
  <1>5. Fanned(document, n) # {} => n \in Names
    BY WithGroupsType DEF Fanned, IsGroup
  <1>6. /\ n \in DOMAIN Assignments(document).direct <=> Positions(Direct(document, n), Len(Spelled)) # {}
        /\ n \in DOMAIN Assignments(document).direct =>
             Assignments(document).direct[n] = LevelOf(document, Direct(document, n), Len(Spelled))
        /\ n \in DOMAIN Assignments(document).fanned <=> Positions(Fanned(document, n), Len(Spelled)) # {}
        /\ n \in DOMAIN Assignments(document).fanned =>
             Assignments(document).fanned[n] = LevelOf(document, Fanned(document, n), Len(Spelled))
    BY <1>1 DEF Collected
  <1> QED
    BY <1>2, <1>3, <1>4, <1>5, <1>6, LastEntry

\* What Apply makes of the tree.
LEMMA OverlaidFacts ==
    ASSUME TypeOK, NEW document \in Documents, Valid(document), NEW n
    PROVE  /\ n \in DOMAIN Overlaid(document).assigned <=>
                (n # Root /\ (Direct(document, n) # {} \/ Fanned(document, n) # {}))
                \/ n \in DOMAIN tree.assigned
           /\ n \in DOMAIN Overlaid(document).assigned =>
                Overlaid(document).assigned[n] =
                    IF Direct(document, n) # {} THEN Assignments(document).direct[n]
                    ELSE IF Fanned(document, n) # {} THEN Assignments(document).fanned[n]
                    ELSE tree.assigned[n]
           /\ Overlaid(document).root =
                IF Direct(document, Root) # {} THEN Assignments(document).direct[Root]
                ELSE IF Fanned(document, Root) # {} THEN Assignments(document).fanned[Root]
                ELSE tree.root
  <1> DEFINE a == Assignments(document)
             all == Written(a.direct, a.fanned)
             below == [m \in DOMAIN all \ {Root} |-> all[m]]
             assigned == Written(below, tree.assigned)
             root == IF Root \in DOMAIN all THEN all[Root] ELSE tree.root
  <1>1. \A m : /\ m \in DOMAIN a.direct <=> Direct(document, m) # {}
               /\ m \in DOMAIN a.fanned <=> Fanned(document, m) # {}
    BY AssignmentsType
  <1> HIDE DEF a
  <1>2. /\ DOMAIN all = DOMAIN a.direct \cup DOMAIN a.fanned
        /\ \A m \in DOMAIN all : all[m] = IF m \in DOMAIN a.direct THEN a.direct[m] ELSE a.fanned[m]
    BY DEF Written
  <1> HIDE DEF all
  <1>3. DOMAIN below = DOMAIN all \ {Root} /\ \A m \in DOMAIN below : below[m] = all[m]
    OBVIOUS
  <1> HIDE DEF below
  <1>4. /\ DOMAIN assigned = DOMAIN below \cup DOMAIN tree.assigned
        /\ \A m \in DOMAIN assigned :
             assigned[m] = IF m \in DOMAIN below THEN below[m] ELSE tree.assigned[m]
    BY DEF Written
  <1>5. Root \notin DOMAIN tree.assigned
    BY DEF TypeOK
  <1> HIDE DEF assigned
  <1>6. Overlaid(document) = [root |-> root, assigned |-> assigned]
    BY DEF Overlaid, a, all, below, assigned
  <1>7. /\ n \in DOMAIN assigned <=>
             (n # Root /\ (Direct(document, n) # {} \/ Fanned(document, n) # {}))
             \/ n \in DOMAIN tree.assigned
        /\ n \in DOMAIN assigned =>
             assigned[n] = IF Direct(document, n) # {} THEN a.direct[n]
                           ELSE IF Fanned(document, n) # {} THEN a.fanned[n]
                           ELSE tree.assigned[n]
    BY <1>1, <1>2, <1>3, <1>4, <1>5
  <1>8. root = IF Direct(document, Root) # {} THEN a.direct[Root]
               ELSE IF Fanned(document, Root) # {} THEN a.fanned[Root]
               ELSE tree.root
    BY <1>1, <1>2
  <1> HIDE DEF root
  <1>9. Overlaid(document).root = root /\ Overlaid(document).assigned = assigned
    BY <1>6
  <1> QED
    BY <1>7, <1>8, <1>9 DEF a

-----------------------------------------------------------------------------
(* The invariant.                                                          *)

\* A handler carries the chain of the name it was asked for.
Chained == \A h \in handlers : h.name \in Spellings /\ h.chain = Ancestry(h.name)

LevelsInv == TypeOK /\ Chained

\* The targets of an assignment are names, and the root only for itself.
LEMMA ExpandType ==
    ASSUME TypeOK, NEW s \in Spellings
    PROVE  Expand(s) \subseteq Names
  BY DEF Expand, IsGroup, Names, TypeOK

\* The levels there are.
LEMMA LevelFacts ==
    /\ 0 \in Levels
    /\ \A t \in Tokens : ParseLevel[t] \in Levels
  <1>1. "info" \in DOMAIN ParseLevel /\ ParseLevel["info"] = 0
    BY DEF ParseLevel
  <1> QED
    BY <1>1, CallsAssumption DEF Levels

\* One level for several names keeps a tree a tree.
LEMMA AssignAllType ==
    ASSUME TypeOK, NEW S \in SUBSET Names, NEW level \in Levels
    PROVE  /\ AssignAll(tree, S, level).root \in Levels
           /\ DOMAIN AssignAll(tree, S, level).assigned \subseteq Names \ {Root}
           /\ \A n \in DOMAIN AssignAll(tree, S, level).assigned :
                AssignAll(tree, S, level).assigned[n] \in Levels
  <1> DEFINE below == [n \in S \ {Root} |-> level]
             assigned == Written(below, tree.assigned)
             t == AssignAll(tree, S, level)
  <1>1. t.root = (IF Root \in S THEN level ELSE tree.root) /\ t.assigned = assigned
    BY DEF AssignAll
  <1>2. /\ DOMAIN assigned = (S \ {Root}) \cup DOMAIN tree.assigned
        /\ \A n \in DOMAIN assigned :
             assigned[n] = IF n \in S \ {Root} THEN level ELSE tree.assigned[n]
    BY DEF Written
  <1> HIDE DEF t, assigned
  <1>3. t.root \in Levels
    BY <1>1 DEF TypeOK
  <1>4. DOMAIN t.assigned \subseteq Names \ {Root} /\ \A n \in DOMAIN t.assigned : t.assigned[n] \in Levels
    BY <1>1, <1>2 DEF TypeOK
  <1> QED
    BY <1>3, <1>4 DEF t

LEMMA ClearAllType ==
    ASSUME TypeOK, NEW S
    PROVE  /\ ClearAll(tree, S).root \in Levels
           /\ DOMAIN ClearAll(tree, S).assigned \subseteq Names \ {Root}
           /\ \A n \in DOMAIN ClearAll(tree, S).assigned : ClearAll(tree, S).assigned[n] \in Levels
  <1> DEFINE assigned == [n \in DOMAIN tree.assigned \ S |-> tree.assigned[n]]
             t == ClearAll(tree, S)
  <1>1. t.root = (IF Root \in S THEN initialRoot ELSE tree.root) /\ t.assigned = assigned
    BY DEF ClearAll
  <1>2. /\ DOMAIN assigned = DOMAIN tree.assigned \ S
        /\ \A n \in DOMAIN assigned : assigned[n] = tree.assigned[n]
    OBVIOUS
  <1> HIDE DEF t, assigned
  <1> QED
    BY <1>1, <1>2 DEF t, TypeOK

LEMMA OverlaidType ==
    ASSUME TypeOK, NEW document \in Documents, Valid(document)
    PROVE  /\ Overlaid(document).root \in Levels
           /\ DOMAIN Overlaid(document).assigned \subseteq Names \ {Root}
           /\ \A n \in DOMAIN Overlaid(document).assigned : Overlaid(document).assigned[n] \in Levels
  <1>1. Overlaid(document).root \in Levels
    BY OverlaidFacts, AssignmentsType DEF TypeOK
  <1>2. ASSUME NEW n \in DOMAIN Overlaid(document).assigned
        PROVE  n \in Names \ {Root} /\ Overlaid(document).assigned[n] \in Levels
    BY OverlaidFacts, AssignmentsType DEF TypeOK
  <1> QED
    BY <1>1, <1>2

\* Steps that leave the handlers alone.
LEMMA TreeStep ==
    ASSUME LevelsInv, UNCHANGED <<known, handlers>>,
           built' \in BOOLEAN, initialRoot' \in Levels,
           tree'.root \in Levels, DOMAIN tree'.assigned \subseteq Names \ {Root},
           \A n \in DOMAIN tree'.assigned : tree'.assigned[n] \in Levels,
           DOMAIN groups' \subseteq Names \ {Root},
           \A g \in DOMAIN groups' : groups'[g] \subseteq Names \ {Root}
    PROVE  LevelsInv'
  BY DEF LevelsInv, TypeOK, Chained

LEMMA LevelsInvariant == Spec => []LevelsInv
  <1>1. Init => LevelsInv
    <2> SUFFICES ASSUME Init PROVE LevelsInv
      OBVIOUS
    <2>1. tree.root = 0 /\ DOMAIN tree.assigned = {} /\ DOMAIN groups = {}
      BY DEF Init
    <2> QED
      BY <2>1, LevelFacts DEF Init, LevelsInv, TypeOK, Chained
  <1>2. ASSUME LevelsInv, [Next]_vars PROVE LevelsInv'
    <2>0. TypeOK /\ Chained
      BY <1>2 DEF LevelsInv
    <2>1. CASE NewManager
      BY <1>2, <2>0, <2>1, TreeStep DEF NewManager, TypeOK
    <2>2. ASSUME NEW s \in Spellings, NEW members \in Memberships, WithGroup(s, members)
          PROVE  LevelsInv'
      <3> DEFINE name == CanonicalName(s)
                 canonical == {CanonicalName(m) : m \in members} \ {Root}
                 entry == [g \in {name} |-> canonical]
      <3>1. name \in Names \ {Root} /\ canonical \subseteq Names \ {Root}
        BY <2>2, CallsAssumption DEF WithGroup, Names
      <3>2. groups' = Written(entry, groups)
        BY <2>2 DEF WithGroup
      <3> HIDE DEF name, canonical
      <3>3. /\ DOMAIN groups' = {name} \cup DOMAIN groups
            /\ \A g \in DOMAIN groups' : groups'[g] = IF g = name THEN canonical ELSE groups[g]
        BY <3>2 DEF Written
      <3> HIDE DEF entry
      <3> QED
        BY <1>2, <2>0, <2>2, <3>1, <3>3, TreeStep DEF WithGroup, TypeOK
    <2>3. ASSUME NEW s \in Spellings, NEW t \in Tokens, SetLevel(s, ParseLevel[t])
          PROVE  LevelsInv'
      <3>1. ParseLevel[t] \in Levels /\ Expand(s) \in SUBSET Names
        BY <2>0, LevelFacts, ExpandType
      <3>2. tree' = AssignAll(tree, Expand(s), ParseLevel[t])
        BY <2>3 DEF SetLevel
      <3> QED
        BY <1>2, <2>0, <2>3, <3>1, <3>2, AssignAllType, TreeStep DEF SetLevel, TypeOK
    <2>4. ASSUME NEW s \in Spellings, ResetLevel(s)
          PROVE  LevelsInv'
      BY <1>2, <2>0, <2>4, ClearAllType, TreeStep DEF ResetLevel, TypeOK
    <2>5. ASSUME NEW s \in Spellings, Handler(s)
          PROVE  LevelsInv'
      <3> DEFINE h == [name |-> s, chain |-> Ancestry(s)]
      <3>1. handlers' = handlers \cup {h} /\ h.name = s /\ h.chain = Ancestry(s)
        BY <2>5 DEF Handler
      <3>2. known' = known \cup ({CanonicalName(s)} \ {Root}) /\ UNCHANGED <<built, initialRoot, tree, groups>>
        BY <2>5 DEF Handler
      <3> HIDE DEF h
      <3>3. Chained'
        BY <2>0, <3>1 DEF Chained
      <3>4. known' = {CanonicalName(k.name) : k \in handlers'} \ {Root}
        BY <2>0, <3>1, <3>2 DEF TypeOK
      <3> QED
        BY <2>0, <3>2, <3>3, <3>4 DEF LevelsInv, TypeOK
    <2>6. ASSUME NEW d \in Documents, Apply(d)
          PROVE  LevelsInv'
      BY <1>2, <2>0, <2>6, WithGroupsType, OverlaidType, TreeStep DEF Apply, TypeOK
    <2>7. ASSUME NEW d \in Documents, ApplyRefused(d)
          PROVE  LevelsInv'
      BY <1>2, <2>0, <2>7, TreeStep DEF ApplyRefused, TypeOK
    <2>8. CASE UNCHANGED vars
      BY <1>2, <2>0, <2>8, TreeStep DEF vars, TypeOK
    <2> QED
      BY <1>2, <2>1, <2>2, <2>3, <2>4, <2>5, <2>6, <2>7, <2>8 DEF Next
  <1> QED
    BY <1>1, <1>2, PTL DEF Spec

-----------------------------------------------------------------------------
(* The theorems.                                                           *)

\* Every stored name is canonical and none is a group of the root, the root always has a
\* level, and what the manager knows are the names it was asked for.
THEOREM TypeCorrect == Spec => []TypeOK
  BY LevelsInvariant, PTL DEF LevelsInv

\* A handler handed out at any time decides by the longest configured whole-segment prefix
\* of its name in the tree as it is, although it walks a chain computed when it was created.
THEOREM HandlersFollow == Spec => []HandlersFollowTree
  <1>1. LevelsInv => HandlersFollowTree
    <2> SUFFICES ASSUME LevelsInv, NEW h \in handlers
                 PROVE  Effective(tree, h.chain) = NearestLevel(tree, h.name)
      BY DEF HandlersFollowTree
    <2>1. h.name \in Seq(STRING) /\ h.chain = Ancestry(h.name)
      BY SpellingsType DEF LevelsInv, Chained
    <2>2. DOMAIN tree.assigned \subseteq Names \ {Root}
      BY DEF LevelsInv, TypeOK
    <2> QED
      BY <2>1, <2>2, WalkFindsNearest
  <1> QED
    BY <1>1, LevelsInvariant, PTL

\* Apply gives every name the level the document assigns to it directly, or else through a
\* group, the entry spelled last deciding, and leaves all other names as they were.
THEOREM DocumentsOverlay == Spec => DocumentOverlaid
  <1>1. ASSUME LevelsInv, [Next]_vars, last' # last, last'.op = "apply", NEW n \in Names
        PROVE  LET document == last'.document
                   Shadowed(s) == IsGroup(groups', CanonicalName(s))
                   entries == DOMAIN document.levels
                   direct == {s \in entries : ~Shadowed(s) /\ CanonicalName(s) = n}
                   fanned == {s \in entries : Shadowed(s) /\ n \in groups'[CanonicalName(s)]}
               IN  Configured(tree', n) =
                     IF direct # {} THEN LastLevel(document, direct)
                     ELSE IF fanned # {} THEN LastLevel(document, fanned)
                     ELSE Configured(tree, n)
    <2>0. TypeOK
      BY <1>1 DEF LevelsInv
    <2>1. PICK d \in Documents : Apply(d)
      <3>1. \A op, d : Did(op, d) => last'.op = op
        BY DEF Did
      <3>2. ~NewManager /\ ~UNCHANGED vars
        BY <1>1 DEF NewManager, vars
      <3>3. \A s \in Spellings :
              /\ \A members \in Memberships : ~WithGroup(s, members)
              /\ \A t \in Tokens : ~SetLevel(s, ParseLevel[t])
              /\ ~ResetLevel(s) /\ ~Handler(s)
        BY <1>1, <3>1 DEF WithGroup, SetLevel, ResetLevel, Handler
      <3>4. \A d \in Documents : ~ApplyRefused(d)
        BY <1>1, <3>1 DEF ApplyRefused
      <3> QED
        BY <1>1, <3>2, <3>3, <3>4 DEF Next
    <2>2. last'.document = d /\ Valid(d) /\ groups' = WithGroups(d) /\ tree' = Overlaid(d)
      BY <2>1 DEF Apply, Did
    <2>3. Configured(tree', n) = IF Direct(d, n) # {} THEN LastLevel(d, Direct(d, n))
                                 ELSE IF Fanned(d, n) # {} THEN LastLevel(d, Fanned(d, n))
                                 ELSE Configured(tree, n)
      <3>1. CASE n = Root
        BY <2>0, <2>2, <3>1, OverlaidFacts, AssignmentsType DEF Configured
      <3>2. CASE n # Root
        BY <2>0, <2>2, <3>2, OverlaidFacts, AssignmentsType DEF Configured
      <3> QED
        BY <3>1, <3>2
    <2> QED
      BY <2>2, <2>3 DEF Direct, Fanned
  <1>2. LevelsInv /\ [Next]_vars =>
          [ last' # last /\ last'.op = "apply" =>
            LET document == last'.document
                Shadowed(s) == IsGroup(groups', CanonicalName(s))
            IN  \A n \in Names :
                  LET entries == DOMAIN document.levels
                      direct == {s \in entries : ~Shadowed(s) /\ CanonicalName(s) = n}
                      fanned == {s \in entries : Shadowed(s) /\ n \in groups'[CanonicalName(s)]}
                  IN  Configured(tree', n) =
                        IF direct # {} THEN LastLevel(document, direct)
                        ELSE IF fanned # {} THEN LastLevel(document, fanned)
                        ELSE Configured(tree, n) ]_vars
    BY <1>1
  <1> QED
    BY <1>2, LevelsInvariant, PTL DEF Spec, DocumentOverlaid
=============================================================================
