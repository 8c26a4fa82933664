------------------------ MODULE SnapshotStoreProofs ------------------------
(***************************************************************************)
(* Proofs about SnapshotStore for any number of accounts, legacy ids and   *)
(* goroutines and any limit of the history: what the merge of two          *)
(* histories keeps, type correctness, that a clearance is final, that what *)
(* was saved is kept, and that a migration is marked until it is saved.    *)
(***************************************************************************)
EXTENDS SnapshotStore, FiniteSetTheorems, FunctionTheorems, SequenceTheorems, TLAPS

-----------------------------------------------------------------------------
(* Ranks: in a finite set under a strict total order, the number of        *)
(* smaller elements numbers the elements from 0.                           *)

Below(F, R, k) == {j \in F : <<j, k>> \in R}

StrictTotal(F, R) ==
    /\ \A k \in F : <<k, k>> \notin R
    /\ \A i, j, k \in F : <<i, j>> \in R /\ <<j, k>> \in R => <<i, k>> \in R
    /\ \A j, k \in F : j # k => <<j, k>> \in R \/ <<k, j>> \in R

LEMMA RankGrows ==
    ASSUME NEW F, NEW R, IsFiniteSet(F), StrictTotal(F, R), NEW k \in F
    PROVE  /\ Cardinality(Below(F, R, k)) \in 0 .. (Cardinality(F) - 1)
           /\ \A j \in F : <<j, k>> \in R =>
                  Cardinality(Below(F, R, j)) < Cardinality(Below(F, R, k))
<1>1. \A i \in F : /\ Below(F, R, i) \subseteq F
                   /\ i \notin Below(F, R, i)
                   /\ IsFiniteSet(Below(F, R, i))
                   /\ Cardinality(Below(F, R, i)) \in Nat
  <2>1. \A i \in F : Below(F, R, i) \subseteq F /\ i \notin Below(F, R, i)
    BY DEF Below, StrictTotal
  <2> QED
    BY <2>1, FS_Subset, FS_CardinalityType
<1>2. Cardinality(Below(F, R, k)) < Cardinality(F)
  <2>1. /\ Cardinality(Below(F, R, k)) <= Cardinality(F)
        /\ Cardinality(F) = Cardinality(Below(F, R, k)) => F = Below(F, R, k)
    BY <1>1, FS_Subset
  <2>2. Cardinality(F) \in Nat
    BY FS_CardinalityType
  <2> QED
    BY <1>1, <2>1, <2>2
<1>3. ASSUME NEW j \in F, <<j, k>> \in R
      PROVE  Cardinality(Below(F, R, j)) < Cardinality(Below(F, R, k))
  <2>1. Below(F, R, j) \subseteq Below(F, R, k) /\ j \in Below(F, R, k)
    BY <1>3 DEF Below, StrictTotal
  <2>2. /\ Cardinality(Below(F, R, j)) <= Cardinality(Below(F, R, k))
        /\ Cardinality(Below(F, R, k)) = Cardinality(Below(F, R, j))
               => Below(F, R, k) = Below(F, R, j)
    BY <1>1, <2>1, FS_Subset
  <2> QED
    BY <1>1, <2>1, <2>2
<1>4. Cardinality(F) \in Nat
  BY FS_CardinalityType
<1> QED
  BY <1>1, <1>2, <1>3, <1>4

\* Every rank below the size of the set is the rank of one element.
LEMMA RankOnto ==
    ASSUME NEW F, NEW R, IsFiniteSet(F), StrictTotal(F, R),
           NEW n \in 0 .. (Cardinality(F) - 1)
    PROVE  \E k \in F : Cardinality(Below(F, R, k)) = n
<1> DEFINE T == 0 .. (Cardinality(F) - 1)
           f == [k \in F |-> Cardinality(Below(F, R, k))]
<1>1. Cardinality(F) \in Nat
  BY FS_CardinalityType
<1>2. f \in [F -> T]
  BY RankGrows
<1>3. ASSUME NEW j \in F, NEW k \in F, f[j] = f[k]
      PROVE  j = k
  <2>1. ASSUME NEW x \in F, NEW y \in F, <<x, y>> \in R
        PROVE  f[x] # f[y]
    <3>1. Cardinality(Below(F, R, x)) < Cardinality(Below(F, R, y))
      BY <2>1, RankGrows
    <3>2. Cardinality(Below(F, R, x)) \in Nat /\ Cardinality(Below(F, R, y)) \in Nat
      BY <1>2
    <3> QED
      BY <3>1, <3>2
  <2> QED
    BY <1>3, <2>1 DEF StrictTotal
<1>4. f \in Injection(F, T)
  BY <1>2, <1>3, Fun_IsInj
<1>5. IsFiniteSet(T) /\ Cardinality(T) = Cardinality(F)
  BY <1>1, FS_Interval
<1>6. f \in Surjection(F, T)
  BY <1>4, <1>5, FS_Injection
<1>7. PICK k \in F : f[k] = n
  BY <1>6 DEF Surjection
<1> QED
  BY <1>7

\* A set of places that is not empty has a first one.
LEMMA FirstOf ==
    ASSUME NEW m \in Nat, NEW F \in SUBSET (1..m), F # {}
    PROVE  \E k \in F : \A j \in F : k <= j
<1> DEFINE R == {p \in F \X F : p[1] < p[2]}
<1>1. IsFiniteSet(F)
  <2>1. IsFiniteSet(1..m)
    BY FS_Interval
  <2> QED
    BY <2>1, FS_Subset
<1>2. StrictTotal(F, R)
  BY DEF StrictTotal
<1>3. 0 \in 0 .. (Cardinality(F) - 1)
  BY <1>1, FS_EmptySet, FS_CardinalityType
<1>4. PICK k \in F : Cardinality(Below(F, R, k)) = 0
  BY <1>1, <1>2, <1>3, RankOnto
<1>5. Below(F, R, k) = {}
  <2>1. Below(F, R, k) \subseteq F
    BY DEF Below
  <2> QED
    BY <1>1, <1>4, <2>1, FS_Subset, FS_EmptySet
<1>6. ASSUME NEW j \in F PROVE k <= j
  <2>1. <<j, k>> \notin R
    BY <1>5 DEF Below
  <2>2. j \in Nat /\ k \in Nat
    OBVIOUS
  <2> QED
    BY <2>1, <2>2
<1> QED
  BY <1>6

-----------------------------------------------------------------------------
(* Cutting and merging histories *)

CutLen(n) == IF n > Limit THEN Limit ELSE n

LEMMA CutLenIs == \A n \in Nat : CutLen(n) \in Nat /\ CutLen(n) <= Limit
BY BoundsAssumption DEF CutLen

LEMMA CutFacts ==
    ASSUME NEW S, NEW s \in Seq(S)
    PROVE  /\ Cut(s) \in Seq(S)
           /\ Len(Cut(s)) = CutLen(Len(s))
           /\ \A k \in 1 .. CutLen(Len(s)) : Cut(s)[k] = s[k]
           /\ RangeOf(Cut(s)) \subseteq RangeOf(s)
<1>1. Len(s) \in Nat /\ DOMAIN s = 1 .. Len(s) /\ Limit \in Nat \ {0}
  BY LenProperties, BoundsAssumption
<1>2. CASE Len(s) > Limit
  <2>1. \A k \in 1 .. Limit : s[k] \in S
    BY <1>1, <1>2
  <2>2. /\ SubSeq(s, 1, Limit) \in Seq(S)
        /\ Len(SubSeq(s, 1, Limit)) = Limit
        /\ \A k \in 1 .. Limit : SubSeq(s, 1, Limit)[k] = s[k]
    BY <1>1, <2>1, SubSeqProperties
  <2>3. RangeOf(SubSeq(s, 1, Limit)) \subseteq RangeOf(s)
    BY <1>1, <1>2, <2>2 DEF RangeOf
  <2> QED
    BY <1>2, <2>2, <2>3 DEF Cut, CutLen
<1>3. CASE ~(Len(s) > Limit)
  BY <1>1, <1>3 DEF Cut, CutLen
<1> QED
  BY <1>2, <1>3

\* The places of s that hold a snapshot for the first time, and their order.
Firsts(s) == {k \in DOMAIN s : \A j \in 1..(k - 1) : s[j] # s[k]}
Order(s) == {p \in Firsts(s) \X Firsts(s) : Before(s, p[1], p[2])}
Rank(s, k) == Cardinality({j \in Firsts(s) : Before(s, j, k)})
Place(s, r) == CHOOSE k \in Firsts(s) : Rank(s, k) = r - 1

LEMMA FirstsFacts ==
    ASSUME NEW s \in Seq(Snapshot)
    PROVE  /\ Firsts(s) \subseteq 1 .. Len(s)
           /\ IsFiniteSet(Firsts(s))
           /\ Cardinality(Firsts(s)) \in Nat
           /\ \A j, k \in Firsts(s) : s[j] = s[k] => j = k
           /\ \A x \in RangeOf(s) : \E k \in Firsts(s) : s[k] = x
<1>1. Len(s) \in Nat /\ DOMAIN s = 1 .. Len(s)
  BY LenProperties
<1>2. Firsts(s) \subseteq 1 .. Len(s)
  BY <1>1 DEF Firsts
<1>3. IsFiniteSet(Firsts(s)) /\ Cardinality(Firsts(s)) \in Nat
  <2>1. IsFiniteSet(1 .. Len(s))
    BY <1>1, FS_Interval
  <2> QED
    BY <1>2, <2>1, FS_Subset, FS_CardinalityType
<1>4. ASSUME NEW j \in Firsts(s), NEW k \in Firsts(s), s[j] = s[k]
      PROVE  j = k
  <2>1. j \in Nat \ {0} /\ k \in Nat \ {0}
    BY <1>1, <1>2
  <2>2. ~(j < k) /\ ~(k < j)
    BY <1>4, <2>1 DEF Firsts
  <2> QED
    BY <2>1, <2>2
<1>5. ASSUME NEW x \in RangeOf(s)
      PROVE  \E k \in Firsts(s) : s[k] = x
  <2> DEFINE F == {k \in 1 .. Len(s) : s[k] = x}
  <2>1. F # {} /\ F \in SUBSET (1 .. Len(s))
    BY <1>1 DEF RangeOf
  <2>2. PICK k \in F : \A j \in F : k <= j
    BY <1>1, <2>1, FirstOf
  <2>3. \A j \in 1 .. (k - 1) : s[j] # s[k]
    BY <1>1, <2>2
  <2> QED
    BY <1>1, <2>2, <2>3 DEF Firsts
<1> QED
  BY <1>2, <1>3, <1>4, <1>5

LEMMA OrderTotal ==
    ASSUME NEW s \in Seq(Snapshot)
    PROVE  StrictTotal(Firsts(s), Order(s))
<1>1. \A k \in Firsts(s) : k \in Nat /\ s[k].at \in Nat /\ s[k].status \in Nat
  <2>1. ASSUME NEW k \in Firsts(s)
        PROVE  k \in 1 .. Len(s) /\ s[k] \in Snapshot
    BY FirstsFacts, ElementOfSeq
  <2> QED
    BY <2>1, BoundsAssumption, LenProperties DEF Snapshot
<1>2. \A j, k \in Firsts(s) : <<j, k>> \in Order(s) <=> Before(s, j, k)
  BY DEF Order
<1>3. \A k \in Firsts(s) : ~Before(s, k, k)
  BY <1>1 DEF Before
<1>4. \A i, j, k \in Firsts(s) : Before(s, i, j) /\ Before(s, j, k) => Before(s, i, k)
  BY <1>1 DEF Before
<1>5. \A j, k \in Firsts(s) : j # k => Before(s, j, k) \/ Before(s, k, j)
  BY <1>1 DEF Before
<1> QED
  BY <1>2, <1>3, <1>4, <1>5 DEF StrictTotal

LEMMA RankIsBelow ==
    ASSUME NEW s, NEW k \in Firsts(s)
    PROVE  Rank(s, k) = Cardinality(Below(Firsts(s), Order(s), k))
<1>1. {j \in Firsts(s) : Before(s, j, k)} = Below(Firsts(s), Order(s), k)
  BY DEF Below, Order
<1> QED
  BY <1>1 DEF Rank

LEMMA PlaceFacts ==
    ASSUME NEW s \in Seq(Snapshot), NEW r \in 1 .. Cardinality(Firsts(s))
    PROVE  Place(s, r) \in Firsts(s) /\ Rank(s, Place(s, r)) = r - 1
<1>1. r - 1 \in 0 .. (Cardinality(Firsts(s)) - 1)
  BY FirstsFacts
<1>2. \E k \in Firsts(s) : Rank(s, k) = r - 1
  BY <1>1, RankOnto, RankIsBelow, OrderTotal, FirstsFacts
<1> QED
  BY <1>2 DEF Place

\* The merged history is the list of the places by rank, cut at the limit.
LEMMA MergedFacts ==
    ASSUME NEW s \in Seq(Snapshot)
    PROVE  LET n == CutLen(Cardinality(Firsts(s)))
           IN  /\ Merged(s) \in Seq(Snapshot)
               /\ Len(Merged(s)) = n
               /\ \A r \in 1 .. n : Merged(s)[r] = s[Place(s, r)]
               /\ RangeOf(Merged(s)) \subseteq RangeOf(s)
<1> DEFINE c == Cardinality(Firsts(s))
           whole == [r \in 1 .. c |-> s[Place(s, r)]]
<1>1. c \in Nat /\ DOMAIN s = 1 .. Len(s)
  BY FirstsFacts, LenProperties
<1>3. Merged(s) = Cut(whole)
  BY Zenon DEF Merged, Firsts, Place, Rank
<1>4. \A r \in 1 .. c : s[Place(s, r)] \in Snapshot /\ s[Place(s, r)] \in RangeOf(s)
  <2>1. ASSUME NEW r \in 1 .. c
        PROVE  Place(s, r) \in 1 .. Len(s)
    BY PlaceFacts, FirstsFacts
  <2> QED
    BY <1>1, <2>1, ElementOfSeq DEF RangeOf
<1>5. whole \in Seq(Snapshot) /\ Len(whole) = c /\ DOMAIN whole = 1 .. c
  BY <1>1, <1>4
<1>6. RangeOf(whole) \subseteq RangeOf(s)
  BY <1>4, <1>5 DEF RangeOf
<1>7. \A r \in 1 .. CutLen(c) : r \in 1 .. c
  BY <1>1, BoundsAssumption DEF CutLen
<1> HIDE DEF c
<1>8. \A r \in 1 .. CutLen(c) : whole[r] = s[Place(s, r)]
  BY <1>7
<1> HIDE DEF whole
<1> QED
  BY <1>3, <1>5, <1>6, <1>7, <1>8, CutFacts DEF c

\* What a merge keeps, for every limit: every event once, and those it drops are not
\* newer than any that it keeps of a full history.
LEMMA MergeKeeps ==
    ASSUME NEW s \in Seq(Snapshot)
    PROVE  /\ RangeOf(Merged(s)) \subseteq RangeOf(s)
           /\ Cardinality(RangeOf(Merged(s))) = Len(Merged(s))
           /\ \A x \in RangeOf(s) \ RangeOf(Merged(s)) :
                  /\ Len(Merged(s)) = Limit
                  /\ \A y \in RangeOf(Merged(s)) : y.at >= x.at
<1> DEFINE c == Cardinality(Firsts(s))
           n == CutLen(c)
           m == Merged(s)
<1>1. /\ m \in Seq(Snapshot) /\ Len(m) = n
      /\ \A r \in 1 .. n : m[r] = s[Place(s, r)]
      /\ RangeOf(m) \subseteq RangeOf(s)
  BY MergedFacts
<1>2. /\ c \in Nat /\ n \in Nat /\ \A r \in 1 .. n : r \in 1 .. c
      /\ n # Limit => n = c
  BY FirstsFacts, BoundsAssumption DEF CutLen
<1>3. DOMAIN m = 1 .. n
  BY <1>1, LenProperties
<1>4. \A r \in 1 .. n : Place(s, r) \in Firsts(s) /\ Rank(s, Place(s, r)) = r - 1
  BY <1>2, PlaceFacts
<1> HIDE DEF c, n, m
<1>5. ASSUME NEW q \in 1 .. n, NEW r \in 1 .. n, m[q] = m[r]
      PROVE  q = r
  <2>1. Place(s, q) = Place(s, r)
    <3>1. \A j, k \in Firsts(s) : s[j] = s[k] => j = k
      BY FirstsFacts
    <3>2. s[Place(s, q)] = s[Place(s, r)]
      BY <1>1, <1>5
    <3> QED
      BY <1>4, <3>1, <3>2
  <2>2. q - 1 = r - 1
    BY <1>4, <2>1
  <2> QED
    BY <2>2
<1>6. Cardinality(RangeOf(m)) = n
  <2>1. m \in [1 .. n -> RangeOf(m)]
    BY <1>1, <1>3, LenProperties DEF RangeOf
  <2>2. m \in Surjection(1 .. n, RangeOf(m))
    BY <1>3, <2>1, Fun_IsSurj DEF RangeOf
  <2>3. m \in Injection(1 .. n, RangeOf(m))
    BY <1>5, <2>1, Fun_IsInj
  <2>4. IsFiniteSet(1 .. n) /\ Cardinality(1 .. n) = n
    BY <1>2, FS_Interval
  <2> QED
    BY <2>2, <2>3, <2>4, FS_Surjection
<1>7. ASSUME NEW x \in RangeOf(s) \ RangeOf(m)
      PROVE  n = Limit /\ \A y \in RangeOf(m) : y.at >= x.at
  <2>1. PICK k \in Firsts(s) : s[k] = x
    BY FirstsFacts
  <2>2. Rank(s, k) \in 0 .. (c - 1)
    BY RankIsBelow, RankGrows, OrderTotal, FirstsFacts DEF c
  <2>3. ~(Rank(s, k) < n)
    <3>1. SUFFICES ASSUME Rank(s, k) < n PROVE FALSE
      OBVIOUS
    <3>2. PICK r \in 1 .. n : r = Rank(s, k) + 1
      BY <1>2, <2>2, <3>1
    <3>3. Place(s, r) = k
      <4>1. Place(s, r) \in Firsts(s) /\ Rank(s, Place(s, r)) = Rank(s, k)
        BY <1>4, <2>2, <3>2
      <4>2. ASSUME NEW i \in Firsts(s), NEW j \in Firsts(s), <<i, j>> \in Order(s)
            PROVE  Rank(s, i) # Rank(s, j)
        <5>1. Rank(s, i) < Rank(s, j)
          BY <4>2, RankIsBelow, RankGrows, OrderTotal, FirstsFacts
        <5>2. Rank(s, i) \in Int /\ Rank(s, j) \in Int
          BY RankIsBelow, RankGrows, OrderTotal, FirstsFacts
        <5> QED
          BY <5>1, <5>2
      <4> QED
        BY <4>1, <4>2, OrderTotal DEF StrictTotal
    <3>4. m[r] = x
      BY <1>1, <2>1, <3>3
    <3> QED
      BY <1>3, <3>4 DEF RangeOf
  <2>4. n = Limit
    BY <1>2, <2>2, <2>3
  <2>5. ASSUME NEW y \in RangeOf(m)
        PROVE  y.at >= x.at
    <3>1. PICK r \in 1 .. n : m[r] = y
      BY <1>3 DEF RangeOf
    <3>2. Place(s, r) \in Firsts(s) /\ Rank(s, Place(s, r)) < Rank(s, k) /\ s[Place(s, r)] = y
      BY <1>1, <1>2, <1>4, <2>2, <2>3, <3>1
    <3>3. <<Place(s, r), k>> \in Order(s)
      <4>1. \/ <<Place(s, r), k>> \in Order(s)
            \/ <<k, Place(s, r)>> \in Order(s)
            \/ k = Place(s, r)
        BY <3>2, OrderTotal DEF StrictTotal
      <4>2. ASSUME <<k, Place(s, r)>> \in Order(s)
            PROVE  Rank(s, k) < Rank(s, Place(s, r))
        BY <3>2, <4>2, RankIsBelow, RankGrows, OrderTotal, FirstsFacts
      <4>3. Rank(s, k) \in Int /\ Rank(s, Place(s, r)) \in Int
        BY <1>4, <2>2, <3>1
      <4> QED
        BY <3>2, <4>1, <4>2, <4>3
    <3>4. Before(s, Place(s, r), k)
      BY <3>3 DEF Order
    <3>5. x \in Snapshot /\ y \in Snapshot
      <4>1. \A k1 \in Firsts(s) : s[k1] \in Snapshot
        BY FirstsFacts, ElementOfSeq
      <4> QED
        BY <2>1, <3>2, <4>1
    <3> QED
      BY <2>1, <3>2, <3>4, <3>5, BoundsAssumption DEF Before, Snapshot
  <2> QED
    BY <2>4, <2>5
<1> QED
  BY <1>1, <1>6, <1>7 DEF m

-----------------------------------------------------------------------------
(* What the memory and the file hold *)

LEMMA HeldIs ==
    ASSUME NEW c, NEW n
    PROVE  n \in Held(c) <=> \E i \in Ids : \E x \in SnapsOf(c, i) : x.n = n
BY DEF Held, Names

LEMMA RangeTypes ==
    /\ \A s \in Seq(Snapshot) : RangeOf(s) \subseteq Snapshot
    /\ \A s, t \in Seq(Snapshot) : RangeOf(s \o t) = RangeOf(s) \cup RangeOf(t)
    /\ RangeOf(<<>>) = {}
    /\ \A x : RangeOf(<<x>>) = {x}
<1>1. ASSUME NEW s \in Seq(Snapshot)
      PROVE  RangeOf(s) \subseteq Snapshot
  BY LenProperties DEF RangeOf
<1>2. ASSUME NEW s \in Seq(Snapshot), NEW t \in Seq(Snapshot)
      PROVE  RangeOf(s \o t) = RangeOf(s) \cup RangeOf(t)
  <2>1. /\ Len(s) \in Nat /\ Len(t) \in Nat
        /\ DOMAIN s = 1 .. Len(s) /\ DOMAIN t = 1 .. Len(t)
        /\ DOMAIN (s \o t) = 1 .. (Len(s) + Len(t))
        /\ \A i \in 1 .. (Len(s) + Len(t)) :
               (s \o t)[i] = IF i <= Len(s) THEN s[i] ELSE t[i - Len(s)]
    BY LenProperties, ConcatProperties
  <2>2. ASSUME NEW x \in RangeOf(s \o t)
        PROVE  x \in RangeOf(s) \cup RangeOf(t)
    BY <2>1 DEF RangeOf
  <2>3. ASSUME NEW x \in RangeOf(s)
        PROVE  x \in RangeOf(s \o t)
    BY <2>1 DEF RangeOf
  <2>4. ASSUME NEW x \in RangeOf(t)
        PROVE  x \in RangeOf(s \o t)
    <3>1. PICK k \in 1 .. Len(t) : x = t[k]
      BY <2>1 DEF RangeOf
    <3>2. /\ Len(s) + k \in 1 .. (Len(s) + Len(t))
          /\ (s \o t)[Len(s) + k] = t[k]
      BY <2>1
    <3> QED
      BY <2>1, <3>1, <3>2 DEF RangeOf
  <2> QED
    BY <2>2, <2>3, <2>4
<1>3. RangeOf(<<>>) = {}
  BY DEF RangeOf
<1>4. ASSUME NEW x PROVE RangeOf(<<x>>) = {x}
  BY DEF RangeOf
<1> QED
  BY <1>1, <1>2, <1>3, <1>4

LEMMA HeldType ==
    ASSUME NEW c \in Contents
    PROVE  /\ \A a : Recorded(c, a) \subseteq Held(c)
           /\ Held(c) \subseteq 1 .. MaxSnaps
<1>1. \A i \in Ids : RangeOf(c.history[i]) \subseteq Snapshot /\ SnapsOf(c, i) \subseteq Snapshot
  BY RangeTypes DEF Contents, SnapsOf
<1>2. \A x \in Snapshot : x.n \in 1 .. MaxSnaps
  BY DEF Snapshot
<1>3. \A a : Recorded(c, a) \subseteq Held(c)
  BY DEF Recorded, Held, SnapsOf, Names
<1> QED
  BY <1>1, <1>2, <1>3, HeldIs

LEMMA EmptyFacts == Empty \in Contents /\ Held(Empty) = {} /\ \A i \in Ids : Len(Empty.history[i]) = 0
<1>1. Empty \in Contents /\ \A i \in Ids : Empty.history[i] = <<>> /\ Empty.entries[i] = NoSnap
  BY EmptySeq DEF Empty, Contents
<1>2. \A i \in Ids : SnapsOf(Empty, i) = {}
  BY <1>1, RangeTypes DEF SnapsOf
<1> QED
  BY <1>1, <1>2, HeldIs

\* Contents with every history within the limit.
Within(c) == \A i \in Ids : Len(c.history[i]) <= Limit

LEMMA PutFacts ==
    ASSUME NEW c \in Contents, NEW i \in Ids, NEW x \in Snapshot, Within(c)
    PROVE  LET d == [entries |-> [c.entries EXCEPT ![i] = x],
                     history |-> [c.history EXCEPT ![i] = Cut(<<x>> \o @)]]
           IN  d \in Contents /\ Within(d) /\ Held(d) \subseteq Held(c) \cup {x.n}
<1> DEFINE h == <<x>> \o c.history[i]
           d == [entries |-> [c.entries EXCEPT ![i] = x],
                 history |-> [c.history EXCEPT ![i] = Cut(h)]]
<1>1. /\ c.entries \in [Ids -> Snapshot \cup {NoSnap}]
      /\ c.history \in [Ids -> Seq(Snapshot)]
  BY DEF Contents
<1>2. h \in Seq(Snapshot) /\ RangeOf(h) = {x} \cup RangeOf(c.history[i])
  <2>1. <<x>> \in Seq(Snapshot) /\ c.history[i] \in Seq(Snapshot)
    BY <1>1
  <2> QED
    BY <2>1, ConcatProperties, RangeTypes
<1>3. /\ Cut(h) \in Seq(Snapshot) /\ Len(Cut(h)) <= Limit
      /\ RangeOf(Cut(h)) \subseteq {x} \cup RangeOf(c.history[i])
  <2>1. Len(h) \in Nat
    BY <1>2, LenProperties
  <2>2. /\ Cut(h) \in Seq(Snapshot) /\ Len(Cut(h)) = CutLen(Len(h))
        /\ RangeOf(Cut(h)) \subseteq RangeOf(h)
    BY <1>2, CutFacts
  <2> QED
    BY <1>2, <2>1, <2>2, CutLenIs
<1> HIDE DEF h
<1>4. d \in Contents
  BY <1>1, <1>3 DEF Contents
<1>5. Within(d)
  BY <1>1, <1>3 DEF Within
<1>6. \A j \in Ids : SnapsOf(d, j) \subseteq SnapsOf(c, j) \cup {x}
  BY <1>1, <1>3 DEF SnapsOf
<1>7. Held(d) \subseteq Held(c) \cup {x.n}
  BY <1>6, HeldIs
<1> QED
  BY <1>4, <1>5, <1>7 DEF h

LEMMA MigratedFacts ==
    ASSUME NEW c \in Contents, NEW old \in Legacy, Within(c)
    PROVE  LET d == Migrated(c, old)
               new == StableOf[old]
           IN  /\ d \in Contents /\ Within(d) /\ Held(d) \subseteq Held(c)
               /\ SnapsOf(d, old) = {}
               /\ d.history[new] = Merged(c.history[new] \o c.history[old])
               /\ \A e \in {c.entries[old], c.entries[new]} \ {NoSnap} :
                      d.entries[new].at >= e.at
<1> DEFINE d == Migrated(c, old)
           new == StableOf[old]
           was == c.entries[old]
           now == c.entries[new]
           h == c.history[new] \o c.history[old]
           m == Merged(h)
<1>1. /\ c.entries \in [Ids -> Snapshot \cup {NoSnap}]
      /\ c.history \in [Ids -> Seq(Snapshot)]
      /\ new \in Ids /\ old \in Ids /\ new # old
  BY SetsAssumption DEF Contents, Ids
<1>2. h \in Seq(Snapshot) /\ RangeOf(h) = RangeOf(c.history[new]) \cup RangeOf(c.history[old])
  <2>1. c.history[new] \in Seq(Snapshot) /\ c.history[old] \in Seq(Snapshot)
    BY <1>1
  <2> QED
    BY <2>1, ConcatProperties, RangeTypes
<1>3. m \in Seq(Snapshot) /\ Len(m) <= Limit /\ RangeOf(m) \subseteq RangeOf(h)
  <2>1. /\ m \in Seq(Snapshot) /\ Len(m) = CutLen(Cardinality(Firsts(h)))
        /\ RangeOf(m) \subseteq RangeOf(h)
    BY <1>2, MergedFacts
  <2>2. Cardinality(Firsts(h)) \in Nat
    BY <1>2, FirstsFacts
  <2> QED
    BY <2>1, <2>2, CutLenIs
<1>4. PICK e \in {was, now} :
         /\ d = [entries |-> [c.entries EXCEPT ![new] = e, ![old] = NoSnap],
                 history |-> [c.history EXCEPT ![new] = m, ![old] = <<>>]]
         /\ \A x \in {was, now} \ {NoSnap} : e.at >= x.at
  <2>1. \A x \in {was, now} \ {NoSnap} : x.at \in Int
    BY <1>1, BoundsAssumption DEF Snapshot
  <2>2. CASE was # NoSnap /\ (now = NoSnap \/ was.at > now.at)
    <3>1. d = [entries |-> [c.entries EXCEPT ![new] = was, ![old] = NoSnap],
               history |-> [c.history EXCEPT ![new] = m, ![old] = <<>>]]
      BY <1>1, <2>2 DEF Migrated
    <3> QED
      BY <2>1, <2>2, <3>1
  <2>3. CASE ~(was # NoSnap /\ (now = NoSnap \/ was.at > now.at))
    <3>1. d = [entries |-> [c.entries EXCEPT ![new] = now, ![old] = NoSnap],
               history |-> [c.history EXCEPT ![new] = m, ![old] = <<>>]]
      BY <1>1, <2>3 DEF Migrated
    <3> QED
      BY <2>1, <2>3, <3>1
  <2> QED
    BY <2>2, <2>3
<1> HIDE DEF d, m, h
<1>5. d \in Contents
  BY <1>1, <1>3, <1>4, EmptySeq DEF Contents
<1>6. Within(d)
  <2>1. \A i \in Ids : d.history[i] \in {c.history[i], m, <<>>}
    BY <1>1, <1>4
  <2>2. Len(<<>>) <= Limit
    BY EmptySeq, BoundsAssumption
  <2> QED
    BY <1>3, <2>1, <2>2 DEF Within
<1>7. /\ d.history[old] = <<>> /\ d.entries[old] = NoSnap
      /\ d.history[new] = m /\ d.entries[new] = e
  BY <1>1, <1>4
<1>8. SnapsOf(d, old) = {}
  BY <1>7, RangeTypes DEF SnapsOf
<1>9. SnapsOf(d, new) \subseteq SnapsOf(c, new) \cup SnapsOf(c, old)
  BY <1>2, <1>3, <1>4, <1>7 DEF SnapsOf
<1>10. \A i \in Ids \ {old, new} : SnapsOf(d, i) = SnapsOf(c, i)
  BY <1>1, <1>4 DEF SnapsOf
<1>11. Held(d) \subseteq Held(c)
  <2>1. \A i \in Ids : \A x \in SnapsOf(d, i) : \E j \in Ids : x \in SnapsOf(c, j)
    BY <1>1, <1>8, <1>9, <1>10
  <2> QED
    BY <2>1, HeldIs
<1>12. \A x \in {was, now} \ {NoSnap} : d.entries[new].at >= x.at
  BY <1>4, <1>7
<1>13. d.history[new] = Merged(c.history[new] \o c.history[old])
  BY <1>7 DEF m, h
<1> QED
  BY <1>5, <1>6, <1>8, <1>11, <1>12, <1>13 DEF d

LEMMA DecodedFacts ==
    ASSUME NEW f \in File
    PROVE  /\ Decoded(f) \in Contents /\ Within(Decoded(f))
           /\ Held(Decoded(f)) \subseteq Held(f.data)
<1> DEFINE d == Decoded(f)
<1>1. /\ f.data.entries \in [Ids -> Snapshot \cup {NoSnap}]
      /\ f.data.history \in [Ids -> Seq(Snapshot)]
  BY DEF File, Contents
<1>2. ASSUME NEW i \in Ids
      PROVE  /\ d.history[i] \in Seq(Snapshot) /\ Len(d.history[i]) <= Limit
             /\ RangeOf(d.history[i]) \subseteq SnapsOf(f.data, i)
  <2>1. CASE ~f.legacyFormat
    <3>1. d.history[i] = Cut(f.data.history[i])
      BY <2>1 DEF Decoded
    <3>2. f.data.history[i] \in Seq(Snapshot) /\ Len(f.data.history[i]) \in Nat
      BY <1>1, LenProperties
    <3> QED
      BY <3>1, <3>2, CutFacts, BoundsAssumption DEF CutLen, SnapsOf
  <2>2. CASE f.legacyFormat /\ f.data.entries[i] = NoSnap
    <3>1. d.history[i] = <<>>
      BY <2>2 DEF Decoded
    <3> QED
      BY <3>1, EmptySeq, RangeTypes, BoundsAssumption
  <2>3. CASE f.legacyFormat /\ f.data.entries[i] # NoSnap
    <3>1. d.history[i] = <<f.data.entries[i]>> /\ f.data.entries[i] \in Snapshot
      BY <1>1, <2>3 DEF Decoded
    <3> QED
      BY <2>3, <3>1, RangeTypes, BoundsAssumption DEF SnapsOf
  <2> QED
    BY <2>1, <2>2, <2>3
<1>3. /\ d.entries = f.data.entries
      /\ d = [entries |-> d.entries, history |-> [i \in Ids |-> d.history[i]]]
  BY DEF Decoded
<1> HIDE DEF d
<1>4. d \in Contents /\ Within(d)
  BY <1>1, <1>2, <1>3 DEF Contents, Within
<1>5. \A i \in Ids : SnapsOf(d, i) \subseteq SnapsOf(f.data, i)
  BY <1>2, <1>3 DEF SnapsOf
<1>6. Held(d) \subseteq Held(f.data)
  BY <1>5, HeldIs
<1> QED
  BY <1>4, <1>6 DEF d

\* Taking away entries, or all that is kept of some ids, adds nothing.
LEMMA LessFacts ==
    ASSUME NEW c \in Contents, Within(c), NEW d,
           d = [entries |-> [i \in Ids |-> d.entries[i]],
                history |-> [i \in Ids |-> d.history[i]]],
           \A i \in Ids : d.entries[i] \in {c.entries[i], NoSnap},
           \A i \in Ids : d.history[i] \in {c.history[i], <<>>}
    PROVE  d \in Contents /\ Within(d) /\ Held(d) \subseteq Held(c)
<1>1. /\ c.entries \in [Ids -> Snapshot \cup {NoSnap}]
      /\ c.history \in [Ids -> Seq(Snapshot)]
  BY DEF Contents
<1>2. ASSUME NEW i \in Ids
      PROVE  /\ d.entries[i] \in Snapshot \cup {NoSnap}
             /\ d.history[i] \in Seq(Snapshot) /\ Len(d.history[i]) <= Limit
             /\ SnapsOf(d, i) \subseteq SnapsOf(c, i)
  <2>1. <<>> \in Seq(Snapshot) /\ Len(<<>>) <= Limit /\ RangeOf(<<>>) = {}
    BY EmptySeq, RangeTypes, BoundsAssumption
  <2>2. CASE d.history[i] = c.history[i]
    BY <1>1, <2>2 DEF Within, SnapsOf
  <2>3. CASE d.history[i] = <<>>
    BY <1>1, <2>1, <2>3 DEF SnapsOf
  <2> QED
    BY <2>2, <2>3
<1>3. d \in Contents /\ Within(d)
  BY <1>2 DEF Contents, Within
<1>4. Held(d) \subseteq Held(c)
  BY <1>2, HeldIs
<1> QED
  BY <1>3, <1>4

-----------------------------------------------------------------------------
(* Type correctness *)

Proc == [pc : {"idle", "migrated", "save", "write"}, data : Contents,
         rev : 0 .. (Wrap - 1), ids : SUBSET (1 .. MaxSnaps)]

LEMMA RevType ==
    /\ 0 \in 0 .. (Wrap - 1)
    /\ \A n \in Nat : (n + 1) % Wrap \in 0 .. (Wrap - 1)
BY BoundsAssumption

LEMMA IdleType == Idle \in Proc /\ Idle.pc = "idle" /\ Idle.ids = {}
BY EmptyFacts, RevType DEF Idle, Proc

LEMMA LostType ==
    ASSUME NEW c \in Contents, NEW d
    PROVE  Lost(c, d) \subseteq 1 .. MaxSnaps
BY HeldType DEF Lost

LEMMA StoredType ==
    ASSUME NEW f \in File \cup {NoFile}
    PROVE  StoredNames(f) \subseteq 1 .. MaxSnaps
<1>1. f # NoFile => f.data \in Contents
  BY DEF File
<1> QED
  BY <1>1, HeldType DEF StoredNames

LEMMA InitTypes == Init => TypeOK
<1> SUFFICES ASSUME Init PROVE TypeOK
  OBVIOUS
<1>1. file \in File \cup {NoFile}
  BY FileAssumption DEF Init
<1>2. made \in 0 .. MaxSnaps
  BY <1>1, StoredType, BoundsAssumption DEF Init
<1>3. mem \in Contents /\ \A i \in Ids : Len(mem.history[i]) <= Limit
  BY EmptyFacts, BoundsAssumption DEF Init
<1>4. proc \in [Procs -> Proc]
  BY IdleType DEF Init
<1>5. migration \in [rev : 0 .. (Wrap - 1), dirty : BOOLEAN, err : BOOLEAN]
  BY RevType DEF Init, NoMigration
<1> QED
  BY <1>1, <1>2, <1>3, <1>4, <1>5 DEF Init, TypeOK, Proc

\* What a put leaves: one more snapshot, named next.
LEMMA PutStep ==
    ASSUME TypeOK, NEW i \in Accounts, Put(i)
    PROVE  /\ mem' \in Contents /\ Within(mem') /\ made' \in 0 .. MaxSnaps
           /\ made' = made + 1 /\ Held(mem') \subseteq Held(mem) \cup {made + 1}
<1>1. PICK at \in 1 .. (made + 1) :
         LET snap == [n |-> made + 1, at |-> at, status |-> IF at > made THEN 2 ELSE 1]
         IN mem' = [entries |-> [mem.entries EXCEPT ![i] = snap],
                    history |-> [mem.history EXCEPT ![i] = Cut(<<snap>> \o @)]]
  BY DEF Put
<1> DEFINE snap == [n |-> made + 1, at |-> at, status |-> IF at > made THEN 2 ELSE 1]
<1>2. made \in 0 .. MaxSnaps /\ made < MaxSnaps /\ made' = made + 1
  BY DEF Put, TypeOK
<1>3. snap \in Snapshot /\ snap.n = made + 1
  BY <1>2, BoundsAssumption DEF Snapshot
<1> HIDE DEF snap
<1>4. i \in Ids /\ mem \in Contents /\ Within(mem)
  BY DEF Ids, TypeOK, Within
<1>5. mem' = [entries |-> [mem.entries EXCEPT ![i] = snap],
              history |-> [mem.history EXCEPT ![i] = Cut(<<snap>> \o @)]]
  BY <1>1 DEF snap
<1>6. mem' \in Contents /\ Within(mem') /\ Held(mem') \subseteq Held(mem) \cup {snap.n}
  BY <1>3, <1>4, <1>5, PutFacts
<1> QED
  BY <1>2, <1>3, <1>6, BoundsAssumption

\* Leaving the report, a clearance and a migration add nothing.
LEMMA PruneStep ==
    ASSUME TypeOK, NEW out \in SUBSET Ids, Prune(out)
    PROVE  mem' \in Contents /\ Within(mem') /\ Held(mem') \subseteq Held(mem)
<1>1. mem \in Contents /\ Within(mem)
  BY DEF TypeOK, Within
<1>2. /\ mem' = [entries |-> [i \in Ids |-> mem'.entries[i]],
                 history |-> [i \in Ids |-> mem'.history[i]]]
      /\ \A i \in Ids : mem'.entries[i] \in {mem.entries[i], NoSnap}
      /\ \A i \in Ids : mem'.history[i] = mem.history[i]
  BY <1>1 DEF Prune, Contents
<1> QED
  BY <1>1, <1>2, LessFacts

LEMMA DeleteStep ==
    ASSUME TypeOK, NEW p \in Procs, NEW i \in Accounts, Delete(p, i)
    PROVE  mem' \in Contents /\ Within(mem') /\ Held(mem') \subseteq Held(mem)
<1>1. mem \in Contents /\ Within(mem)
  BY DEF TypeOK, Within
<1>2. /\ mem' = [entries |-> [j \in Ids |-> mem'.entries[j]],
                 history |-> [j \in Ids |-> mem'.history[j]]]
      /\ \A j \in Ids : mem'.entries[j] \in {mem.entries[j], NoSnap}
      /\ \A j \in Ids : mem'.history[j] \in {mem.history[j], <<>>}
  BY <1>1 DEF Delete, Contents
<1> QED
  BY <1>1, <1>2, LessFacts

LEMMA LoadStep ==
    ASSUME TypeOK, Load
    PROVE  /\ mem' \in Contents /\ Within(mem')
           /\ Held(mem') \subseteq Held(mem) \cup StoredNames(file)
<1>1. mem \in Contents /\ Within(mem) /\ file \in File \cup {NoFile}
  BY DEF TypeOK, Within
<1>2. CASE file = NoFile \/ file.damaged
  BY <1>1, <1>2 DEF Load
<1>3. CASE ~(file = NoFile \/ file.damaged)
  BY <1>1, <1>3, DecodedFacts DEF Load, StoredNames
<1> QED
  BY <1>2, <1>3

LEMMA NextTypes == TypeOK /\ [Next]_vars => TypeOK'
<1> SUFFICES ASSUME TypeOK, [Next]_vars PROVE TypeOK'
  OBVIOUS
<1> USE DEF Within
<1>0. /\ mem \in Contents /\ proc \in [Procs -> Proc]
      /\ \A p \in Procs : proc[p] \in Proc
  BY DEF TypeOK, Proc
<1>1. ASSUME NEW i \in Accounts, Put(i) PROVE TypeOK'
  BY <1>0, <1>1, PutStep, LostType DEF Put, TypeOK
<1>2. ASSUME NEW out \in SUBSET Ids, Prune(out) PROVE TypeOK'
  BY <1>2, PruneStep DEF Prune, TypeOK
<1>3. ASSUME NEW p \in Procs, NEW old \in Legacy, Migrate(p, old) PROVE TypeOK'
  <2>1. mem' \in Contents /\ Within(mem')
    BY <1>0, <1>3, MigratedFacts DEF Migrate, TypeOK
  <2>2. migration' \in [rev : 0 .. (Wrap - 1), dirty : BOOLEAN, err : BOOLEAN]
    <3>1. (migration.rev + 1) % Wrap \in 0 .. (Wrap - 1)
      BY RevType DEF TypeOK
    <3> QED
      BY <1>3, <3>1 DEF Migrate, Mark, TypeOK
  <2>3. proc' \in [Procs -> Proc]
    BY <1>0, <1>3 DEF Migrate, Proc
  <2>4. gone' \in SUBSET (1 .. MaxSnaps)
    BY <1>0, <1>3, LostType DEF Migrate, TypeOK
  <2> QED
    BY <1>3, <2>1, <2>2, <2>3, <2>4 DEF Migrate, TypeOK, Proc
<1>4. ASSUME NEW p \in Procs, SaveIfPending(p) \/ AskSave(p) PROVE TypeOK'
  <2>1. proc' \in [Procs -> Proc]
    BY <1>0, <1>4 DEF SaveIfPending, AskSave, Proc
  <2> QED
    BY <1>4, <2>1 DEF SaveIfPending, AskSave, TypeOK, Proc
<1>5. ASSUME NEW p \in Procs, NEW i \in Accounts, Delete(p, i) PROVE TypeOK'
  <2>1. Held(mem) \ Held(mem') \in SUBSET (1 .. MaxSnaps)
    BY <1>0, HeldType
  <2>2. proc' \in [Procs -> Proc]
    BY <1>0, <1>5, <2>1 DEF Delete, Proc
  <2>3. gone' \in SUBSET (1 .. MaxSnaps)
    BY <1>0, <1>5, LostType DEF Delete, TypeOK
  <2> QED
    BY <1>5, <2>2, <2>3, DeleteStep DEF Delete, TypeOK, Proc
<1>6. ASSUME NEW p \in Procs, Copy(p) PROVE TypeOK'
  <2> DEFINE copy == [proc[p] EXCEPT !.pc = "write", !.data = mem, !.rev = migration.rev]
  <2>1. migration.rev \in 0 .. (Wrap - 1)
    BY DEF TypeOK
  <2>2. copy \in Proc
    BY <1>0, <2>1 DEF Proc
  <2>3. proc' = [proc EXCEPT ![p] = copy]
    BY <1>0, <1>6 DEF Copy
  <2>4. proc' \in [Procs -> Proc]
    BY <1>0, <2>2, <2>3
  <2> QED
    BY <1>6, <2>4 DEF Copy, TypeOK, Proc
<1>7. ASSUME NEW p \in Procs, Refuse(p) PROVE TypeOK'
  <2>1. proc' \in [Procs -> Proc]
    BY <1>0, <1>7, IdleType DEF Refuse
  <2> QED
    BY <1>7, <2>1 DEF Refuse, TypeOK, Proc
<1>8. ASSUME NEW p \in Procs, Write(p) \/ Fail(p) PROVE TypeOK'
  <2>1. proc' \in [Procs -> Proc]
    BY <1>0, <1>8, IdleType DEF Write, Fail
  <2>2. file' \in File \cup {NoFile}
    <3>1. proc[p].data \in Contents
      BY <1>0 DEF Proc
    <3>2. [legacyFormat |-> FALSE, damaged |-> FALSE, data |-> proc[p].data] \in File
      BY <3>1 DEF File
    <3> QED
      BY <1>8, <3>2 DEF Write, Fail, TypeOK
  <2>3. migration' \in [rev : 0 .. (Wrap - 1), dirty : BOOLEAN, err : BOOLEAN]
    BY <1>8 DEF Write, Fail, SavedMigration, TypeOK
  <2>4. cleared' \in SUBSET (1 .. MaxSnaps) /\ saveMu' \in Procs \cup {Nobody}
    BY <1>0, <1>8 DEF Write, Fail, TypeOK, Proc
  <2>5. UNCHANGED <<up, mem, made, loadErr, gone>>
    BY <1>8 DEF Write, Fail
  <2> QED
    BY <2>1, <2>2, <2>3, <2>4, <2>5 DEF TypeOK, Proc
<1>9. CASE Load
  <2>1. proc' \in [Procs -> Proc]
    BY <1>0, <1>9 DEF Load, Proc
  <2> QED
    BY <1>9, <2>1, LoadStep DEF Load, TypeOK, Proc
<1>10. CASE Crash
  <2>1. proc' \in [Procs -> Proc]
    BY <1>10, IdleType DEF Crash
  <2>2. migration' \in [rev : 0 .. (Wrap - 1), dirty : BOOLEAN, err : BOOLEAN]
    BY <1>10, RevType DEF Crash, NoMigration
  <2>3. mem' \in Contents /\ Within(mem')
    BY <1>10, EmptyFacts, BoundsAssumption DEF Crash
  <2> QED
    BY <1>10, <2>1, <2>2, <2>3 DEF Crash, TypeOK, Proc
<1>11. CASE Damage
  BY <1>11 DEF Damage, TypeOK, File
<1>12. CASE UNCHANGED vars
  BY <1>12 DEF vars, TypeOK
<1> QED
  BY <1>1, <1>2, <1>3, <1>4, <1>5, <1>6, <1>7, <1>8, <1>9, <1>10, <1>11, <1>12
  DEF Next, MigrateAny, DeleteAny, SaveStep, Procs

\* Memory and file hold snapshots, and no history is longer than the limit.
THEOREM SnapshotTypes == Spec => []TypeOK
BY InitTypes, NextTypes, PTL DEF Spec

-----------------------------------------------------------------------------
(* A clearance is final. The inductive invariant: one write at a time; no  *)
(* name is used before it is made; and what is cleared, or removed by a    *)
(* clearance that is still to be saved, is neither in memory nor in the    *)
(* copy that is being written.                                             *)

OneWriter == \A p \in Procs : proc[p].pc = "write" => saveMu = p

Known ==
    /\ Held(mem) \cup StoredNames(file) \cup cleared \subseteq 1 .. made
    /\ \A p \in Procs : proc[p].ids \subseteq 1 .. made
    /\ \A p \in Procs : proc[p].pc = "write" => Held(proc[p].data) \subseteq 1 .. made

Removed ==
    /\ \A p \in Procs : proc[p].ids \cap Held(mem) = {}
    /\ \A p \in Procs : proc[p].pc = "write" =>
           (cleared \cup proc[p].ids) \cap Held(proc[p].data) = {}

ClearInv == OneWriter /\ Known /\ Removed /\ ClearanceHolds

LEMMA InitClear == Init => ClearInv
<1> SUFFICES ASSUME Init PROVE ClearInv
  OBVIOUS
<1>1. \A p \in Procs : proc[p].pc = "idle" /\ proc[p].ids = {}
  BY IdleType DEF Init
<1>2. Held(mem) = {} /\ cleared = {}
  BY EmptyFacts DEF Init
<1>3. StoredNames(file) \subseteq 1 .. made
  <2>1. file \in File \cup {NoFile}
    BY FileAssumption DEF Init
  <2>2. StoredNames(file) \subseteq 1 .. MaxSnaps /\ made \in StoredNames(file) \cup {0}
    BY <2>1, StoredType DEF Init
  <2>3. \A n \in StoredNames(file) : n <= made /\ n \in Nat \ {0}
    BY <2>2, BoundsAssumption DEF Init
  <2> QED
    BY <2>2, <2>3, BoundsAssumption
<1> QED
  BY <1>1, <1>2, <1>3 DEF ClearInv, OneWriter, Known, Removed, ClearanceHolds

\* A step that leaves what was made, cleared and copied, and adds nothing to
\* memory or to what is being cleared.
LEMMA ClearLess ==
    ASSUME ClearInv, Held(mem') \subseteq Held(mem),
           StoredNames(file') \subseteq StoredNames(file),
           UNCHANGED <<made, cleared>>,
           \A p \in Procs :
               /\ proc'[p].ids \subseteq proc[p].ids
               /\ proc'[p].pc = "write" =>
                     /\ proc[p].pc = "write" /\ proc'[p].data = proc[p].data
                     /\ saveMu' = saveMu
    PROVE  ClearInv'
BY DEF ClearInv, OneWriter, Known, Removed, ClearanceHolds

LEMMA StoredSame ==
    ASSUME UNCHANGED file PROVE StoredNames(file') = StoredNames(file)
OBVIOUS

LEMMA ClearPut ==
    ASSUME TypeOK, ClearInv, NEW i \in Accounts, Put(i)
    PROVE  ClearInv'
<1>1. /\ made \in Nat /\ made' = made + 1 /\ made + 1 \notin 1 .. made
      /\ 1 .. made \subseteq 1 .. made' /\ made + 1 \in 1 .. made'
      /\ Held(mem') \subseteq Held(mem) \cup {made + 1}
  BY PutStep, BoundsAssumption DEF TypeOK
<1>2. UNCHANGED <<proc, file, saveMu, cleared>>
  BY DEF Put
<1>3. Known'
  BY <1>1, <1>2, StoredSame DEF ClearInv, Known
<1>4. made + 1 \notin cleared /\ \A p \in Procs : made + 1 \notin proc[p].ids
  BY <1>1 DEF ClearInv, Known
<1>5. Removed' /\ ClearanceHolds'
  BY <1>1, <1>2, <1>4, StoredSame DEF ClearInv, Removed, ClearanceHolds
<1>6. OneWriter'
  BY <1>2 DEF ClearInv, OneWriter
<1> QED
  BY <1>3, <1>5, <1>6 DEF ClearInv

LEMMA ClearDelete ==
    ASSUME TypeOK, ClearInv, NEW p \in Procs, NEW i \in Accounts, Delete(p, i)
    PROVE  ClearInv'
<1>1. /\ Held(mem') \subseteq Held(mem)
      /\ UNCHANGED <<made, file, saveMu, cleared>>
  BY DeleteStep DEF Delete
<1>2. proc' = [proc EXCEPT ![p] = [proc[p] EXCEPT !.pc = "save",
                                                  !.ids = Held(mem) \ Held(mem')]]
  BY DEF Delete, TypeOK
<1>3. /\ proc'[p].pc = "save" /\ proc'[p].ids = Held(mem) \ Held(mem')
      /\ \A q \in Procs : q # p => proc'[q] = proc[q]
  BY <1>2 DEF TypeOK
<1>4. Known'
  BY <1>1, <1>3, StoredSame DEF ClearInv, Known
<1>5. Removed' /\ ClearanceHolds'
  BY <1>1, <1>3, StoredSame DEF ClearInv, Removed, ClearanceHolds
<1>6. OneWriter'
  BY <1>1, <1>3 DEF ClearInv, OneWriter
<1> QED
  BY <1>4, <1>5, <1>6 DEF ClearInv

LEMMA ClearCopy ==
    ASSUME TypeOK, ClearInv, NEW p \in Procs, Copy(p)
    PROVE  ClearInv'
<1>1. /\ UNCHANGED <<mem, made, file, cleared>>
      /\ saveMu = Nobody /\ saveMu' = p
  BY DEF Copy
<1>2. proc' = [proc EXCEPT ![p] = [proc[p] EXCEPT !.pc = "write", !.data = mem,
                                                  !.rev = migration.rev]]
  BY DEF Copy, TypeOK
<1>3. proc[p] \in Proc
  BY DEF TypeOK, Proc
<1>4. /\ proc'[p].pc = "write" /\ proc'[p].data = mem /\ proc'[p].ids = proc[p].ids
      /\ \A q \in Procs : q # p => proc'[q] = proc[q]
  BY <1>2, <1>3 DEF TypeOK, Proc
<1>5. \A q \in Procs : q # p => proc[q].pc # "write"
  BY <1>1, SetsAssumption DEF ClearInv, OneWriter
<1>6. OneWriter'
  BY <1>1, <1>4, <1>5 DEF OneWriter
<1>7. Known'
  BY <1>1, <1>4, <1>5, StoredSame DEF ClearInv, Known
<1>8. Removed' /\ ClearanceHolds'
  BY <1>1, <1>4, <1>5, StoredSame DEF ClearInv, Removed, ClearanceHolds
<1> QED
  BY <1>6, <1>7, <1>8 DEF ClearInv

\* A write that takes effect, whatever the caller is told, puts the copy in the file.
LEMMA ClearWrite ==
    ASSUME TypeOK, ClearInv, NEW p \in Procs, Write(p) \/ Fail(p)
    PROVE  ClearInv'
<1>1. /\ UNCHANGED <<mem, made>> /\ proc' = [proc EXCEPT ![p] = Idle]
      /\ proc[p].pc = "write"
      /\ cleared \subseteq cleared' /\ cleared' \subseteq cleared \cup proc[p].ids
  BY DEF Write, Fail
<1>2. \/ file' = file /\ cleared' = cleared
      \/ StoredNames(file') = Held(proc[p].data)
  <2> DEFINE copy == [legacyFormat |-> FALSE, damaged |-> FALSE, data |-> proc[p].data]
  <2>1. copy \in File /\ copy.data = proc[p].data
    BY DEF File, TypeOK
  <2>2. (file' = file /\ cleared' = cleared) \/ file' = copy
    BY DEF Write, Fail
  <2> HIDE DEF copy
  <2>3. StoredNames(copy) = Held(proc[p].data)
    BY <2>1, FileAssumption DEF StoredNames
  <2> QED
    BY <2>2, <2>3
<1>3. /\ proc'[p].pc = "idle" /\ proc'[p].ids = {}
      /\ \A q \in Procs : q # p => proc'[q] = proc[q] /\ proc[q].pc # "write"
  BY <1>1, IdleType DEF TypeOK, ClearInv, OneWriter
<1>4. OneWriter'
  BY <1>3 DEF OneWriter
<1>5. Known'
  BY <1>1, <1>2, <1>3, StoredSame DEF ClearInv, Known
<1>6. Removed' /\ ClearanceHolds'
  BY <1>1, <1>2, <1>3, StoredSame DEF ClearInv, Removed, ClearanceHolds
<1> QED
  BY <1>4, <1>5, <1>6 DEF ClearInv

\* A load takes what the file holds, and no clearance is pending any more.
LEMMA ClearLoad ==
    ASSUME TypeOK, ClearInv, Load
    PROVE  ClearInv'
<1>1. /\ UNCHANGED <<made, file, saveMu, cleared>> /\ saveMu = Nobody
      /\ Held(mem') \subseteq Held(mem) \cup StoredNames(file)
  BY LoadStep DEF Load
<1>2. \A p \in Procs : proc[p] \in Proc /\ proc'[p] = [proc[p] EXCEPT !.ids = {}]
  BY DEF Load, TypeOK, Proc
<1>3. \A p \in Procs : proc[p].pc # "write" /\ proc'[p].pc # "write" /\ proc'[p].ids = {}
  BY <1>1, <1>2, SetsAssumption DEF ClearInv, OneWriter, Proc
<1> QED
  BY <1>1, <1>3, StoredSame DEF ClearInv, OneWriter, Known, Removed, ClearanceHolds

LEMMA NextClear == TypeOK /\ ClearInv /\ [Next]_vars => ClearInv'
<1> SUFFICES ASSUME TypeOK, ClearInv, [Next]_vars PROVE ClearInv'
  OBVIOUS
<1>0. \A p \in Procs : proc[p] \in Proc
  BY DEF TypeOK, Proc
<1>1. ASSUME NEW p \in Procs, NEW old \in Legacy, Migrate(p, old) PROVE ClearInv'
  <2>1. Held(mem') \subseteq Held(mem)
    BY <1>1, MigratedFacts DEF Migrate, TypeOK, Within
  <2>2. UNCHANGED <<made, cleared, file, saveMu>>
    BY <1>1 DEF Migrate
  <2>3. \A q \in Procs : /\ proc'[q].ids = proc[q].ids
                         /\ proc'[q].pc = "write" => proc'[q] = proc[q]
    BY <1>0, <1>1 DEF Migrate, TypeOK, Proc
  <2> QED
    BY <2>1, <2>2, <2>3, StoredSame, ClearLess
<1>2. ASSUME NEW p \in Procs, SaveIfPending(p) \/ AskSave(p) PROVE ClearInv'
  <2>1. UNCHANGED <<mem, made, cleared, file, saveMu>>
    BY <1>2 DEF SaveIfPending, AskSave
  <2>2. \A q \in Procs : /\ proc'[q].ids = proc[q].ids
                         /\ proc'[q].pc = "write" => proc'[q] = proc[q]
    BY <1>0, <1>2 DEF SaveIfPending, AskSave, TypeOK, Proc
  <2> QED
    BY <2>1, <2>2, StoredSame, ClearLess
<1>3. ASSUME NEW p \in Procs, Refuse(p) PROVE ClearInv'
  <2>1. UNCHANGED <<mem, made, cleared, file, saveMu>> /\ proc' = [proc EXCEPT ![p] = Idle]
    BY <1>3 DEF Refuse
  <2>2. \A q \in Procs : /\ proc'[q].ids \subseteq proc[q].ids
                         /\ proc'[q].pc = "write" => proc'[q] = proc[q]
    BY <2>1, IdleType DEF TypeOK
  <2> QED
    BY <2>1, <2>2, StoredSame, ClearLess
<1>4. ASSUME NEW out \in SUBSET Ids, Prune(out) PROVE ClearInv'
  <2>1. UNCHANGED <<made, cleared, file, saveMu, proc>> /\ Held(mem') \subseteq Held(mem)
    BY <1>4, PruneStep DEF Prune
  <2> QED
    BY <2>1, StoredSame, ClearLess
<1>5. CASE Crash
  <2>1. UNCHANGED <<made, cleared, file>> /\ Held(mem') = {}
    BY <1>5, EmptyFacts DEF Crash
  <2>2. \A q \in Procs : proc'[q].ids = {} /\ proc'[q].pc = "idle"
    BY <1>5, IdleType DEF Crash
  <2> QED
    BY <2>1, <2>2, StoredSame, ClearLess
<1>6. CASE Damage
  <2>1. UNCHANGED <<made, cleared, mem, saveMu, proc>>
    BY <1>6 DEF Damage
  <2>2. StoredNames(file') = StoredNames(file)
    <3>1. file \in File /\ file' = [file EXCEPT !.damaged = ~@]
      BY <1>6 DEF Damage, TypeOK
    <3>2. file' \in File /\ file'.data = file.data
      BY <3>1 DEF File
    <3> QED
      BY <3>1, <3>2, FileAssumption DEF StoredNames
  <2> QED
    BY <2>1, <2>2, ClearLess
<1>7. CASE UNCHANGED vars
  BY <1>7, StoredSame, ClearLess DEF vars
<1> QED
  BY <1>1, <1>2, <1>3, <1>4, <1>5, <1>6, <1>7, ClearPut, ClearDelete, ClearCopy, ClearWrite,
     ClearLoad
  DEF Next, MigrateAny, DeleteAny, SaveStep, Procs

\* A clearance that was answered with success and that no reload overlapped is
\* final, whatever saves, migrations, crashes and starts overlap it.
THEOREM ClearanceCorrect == Spec => []ClearanceHolds
<1>1. ClearInv => ClearanceHolds
  BY DEF ClearInv
<1> QED
  BY <1>1, InitTypes, InitClear, NextTypes, NextClear, PTL DEF Spec

-----------------------------------------------------------------------------
(* What was saved is kept. The inductive invariant: while a save may come, *)
(* the memory holds what the file holds; a copy that is being written      *)
(* holds what the file holds, and the memory what the copy holds, always   *)
(* but for what a clearance or a full history removed.                     *)

CopyKept(p) ==
    /\ Within(proc[p].data) /\ ~loadErr
    /\ Lost(proc[p].data, mem) \subseteq gone
    /\ file # NoFile => Lost(Decoded(file), proc[p].data) \subseteq gone

KeptInv ==
    /\ \A p \in Procs : proc[p].pc # "idle" => up
    /\ up /\ ~loadErr /\ file # NoFile => Lost(Decoded(file), mem) \subseteq gone
    /\ \A p \in Procs : proc[p].pc = "write" => CopyKept(p)

LEMMA LostFacts ==
    /\ \A b, c, d : Lost(b, d) \subseteq Lost(b, c) \cup Lost(c, d)
    /\ \A b, c : (\A i \in Ids : b.history[i] = c.history[i]) =>
           Lost(b, c) = {} /\ \A d : Lost(d, c) = Lost(d, b) /\ Lost(c, d) = Lost(b, d)
<1>1. \A b, c, d : Lost(b, d) \subseteq Lost(b, c) \cup Lost(c, d)
  BY DEF Lost
<1>2. ASSUME NEW b, NEW c, \A i \in Ids : b.history[i] = c.history[i]
      PROVE  Lost(b, c) = {} /\ \A d : Lost(d, c) = Lost(d, b) /\ Lost(c, d) = Lost(b, d)
  <2>1. \A a : Recorded(b, a) = Recorded(c, a)
    BY <1>2 DEF Recorded
  <2> QED
    BY <2>1 DEF Lost
<1> QED
  BY <1>1, <1>2

\* A file that was written decodes to the copy.
LEMMA DecodedCopy ==
    ASSUME NEW c \in Contents, Within(c)
    PROVE  \A i \in Ids : Decoded([legacyFormat |-> FALSE, damaged |-> FALSE,
                                   data |-> c]).history[i] = c.history[i]
<1>1. \A i \in Ids : Cut(c.history[i]) = c.history[i]
  <2>1. \A i \in Ids : Len(c.history[i]) \in Nat /\ Len(c.history[i]) <= Limit
    BY LenProperties DEF Within, Contents
  <2> QED
    BY <2>1, BoundsAssumption DEF Cut
<1> QED
  BY <1>1 DEF Decoded

LEMMA InitKept == Init => KeptInv
BY IdleType DEF Init, KeptInv

\* Steps that leave the file alone, say what the memory loses, and start no write.
LEMMA KeptInMemory ==
    ASSUME KeptInv, gone \cup Lost(mem, mem') \subseteq gone',
           UNCHANGED <<up, loadErr, file>>,
           \A p \in Procs :
               /\ proc'[p].pc # "idle" => up
               /\ proc'[p].pc = "write" => proc[p].pc = "write" /\ proc'[p].data = proc[p].data
    PROVE  KeptInv'
<1>1. \A c : Lost(c, mem) \subseteq gone => Lost(c, mem') \subseteq gone'
  <2>1. \A c : Lost(c, mem') \subseteq Lost(c, mem) \cup Lost(mem, mem')
    BY LostFacts
  <2> QED
    BY <2>1
<1>2. \A p \in Procs : proc'[p].pc = "write" => CopyKept(p)'
  <2> SUFFICES ASSUME NEW p \in Procs, proc'[p].pc = "write" PROVE CopyKept(p)'
    OBVIOUS
  <2>1. CopyKept(p) /\ proc'[p].data = proc[p].data
    BY DEF KeptInv
  <2> QED
    BY <1>1, <2>1 DEF CopyKept
<1>3. (up /\ ~loadErr /\ file # NoFile => Lost(Decoded(file), mem) \subseteq gone)'
  BY <1>1 DEF KeptInv
<1> QED
  BY <1>2, <1>3 DEF KeptInv

LEMMA KeptCopy ==
    ASSUME TypeOK, KeptInv, ClearInv, NEW p \in Procs, Copy(p)
    PROVE  KeptInv'
<1>1. /\ UNCHANGED <<up, mem, loadErr, file, gone>> /\ ~loadErr /\ up
      /\ saveMu = Nobody
      /\ proc'[p].pc = "write" /\ proc'[p].data = mem
      /\ \A q \in Procs : q # p => proc'[q] = proc[q]
  BY DEF Copy, KeptInv, TypeOK
<1>2. \A q \in Procs : proc[q].pc # "write"
  BY <1>1, SetsAssumption DEF ClearInv, OneWriter
<1>3. Lost(mem, mem) = {} /\ Within(mem)
  BY LostFacts DEF TypeOK, Within
<1>4. CopyKept(p)'
  BY <1>1, <1>3 DEF CopyKept, KeptInv, Within
<1> QED
  BY <1>1, <1>2, <1>4 DEF KeptInv

\* What a write puts in the file, if anything, is its copy.
LEMMA WrittenCopy ==
    ASSUME TypeOK, KeptInv, NEW p \in Procs, Write(p) \/ Fail(p)
    PROVE  /\ UNCHANGED <<up, mem, loadErr, gone>> /\ CopyKept(p)
           /\ proc' = [proc EXCEPT ![p] = Idle]
           /\ \/ file' = file /\ Fail(p)
              \/ \A i \in Ids : Decoded(file').history[i] = proc[p].data.history[i]
<1>1. proc[p].pc = "write" /\ CopyKept(p) /\ proc[p].data \in Contents
  BY DEF Write, Fail, KeptInv, TypeOK
<1>2. \/ file' = file /\ Fail(p)
      \/ file' = [legacyFormat |-> FALSE, damaged |-> FALSE, data |-> proc[p].data]
  BY DEF Write, Fail
<1>3. \/ file' = file /\ Fail(p)
      \/ \A i \in Ids : Decoded(file').history[i] = proc[p].data.history[i]
  BY <1>1, <1>2, DecodedCopy DEF CopyKept
<1> QED
  BY <1>1, <1>3 DEF Write, Fail

LEMMA KeptWrite ==
    ASSUME TypeOK, KeptInv, ClearInv, NEW p \in Procs, Write(p) \/ Fail(p)
    PROVE  KeptInv'
<1>1. /\ UNCHANGED <<up, mem, loadErr, gone>> /\ CopyKept(p)
      /\ proc' = [proc EXCEPT ![p] = Idle]
      /\ \/ file' = file
         \/ \A i \in Ids : Decoded(file').history[i] = proc[p].data.history[i]
  BY WrittenCopy
<1>2. \A q \in Procs : proc'[q].pc # "write" /\ (proc'[q].pc # "idle" => up)
  <2>1. proc[p].pc = "write"
    BY DEF Write, Fail
  <2> QED
    BY <1>1, <2>1, IdleType DEF TypeOK, ClearInv, OneWriter, KeptInv
<1>3. (up /\ ~loadErr /\ file # NoFile => Lost(Decoded(file), mem) \subseteq gone)'
  <2>1. CASE file' = file
    BY <1>1, <2>1 DEF KeptInv
  <2>2. CASE \A i \in Ids : Decoded(file').history[i] = proc[p].data.history[i]
    <3>1. Lost(Decoded(file'), mem) = Lost(proc[p].data, mem)
      BY <2>2, LostFacts
    <3> QED
      BY <1>1, <3>1 DEF CopyKept
  <2> QED
    BY <1>1, <2>1, <2>2
<1> QED
  BY <1>1, <1>2, <1>3 DEF KeptInv

LEMMA KeptLoad ==
    ASSUME TypeOK, KeptInv, ClearInv, Load
    PROVE  KeptInv'
<1>1. /\ saveMu = Nobody /\ up' = TRUE /\ UNCHANGED <<file, gone>>
      /\ file # NoFile /\ ~loadErr' => mem' = Decoded(file)
      /\ \A p \in Procs : proc'[p].pc = proc[p].pc
  BY DEF Load, TypeOK
<1>2. \A p \in Procs : proc'[p].pc # "write"
  BY <1>1, SetsAssumption DEF ClearInv, OneWriter
<1>3. Lost(Decoded(file), Decoded(file)) = {}
  BY LostFacts
<1> QED
  BY <1>1, <1>2, <1>3 DEF KeptInv

\* Damage makes a file unreadable and leaves what an operator may put right.
LEMMA DamagedSame ==
    ASSUME TypeOK, Damage
    PROVE  /\ file' # NoFile /\ \A i \in Ids : Decoded(file').history[i] = Decoded(file).history[i]
<1>1. file \in File /\ file' = [file EXCEPT !.damaged = ~@]
  BY DEF Damage, TypeOK
<1>2. /\ file' \in File /\ file'.data = file.data
      /\ file'.legacyFormat = file.legacyFormat
  BY <1>1 DEF File
<1> QED
  BY <1>2, FileAssumption DEF Decoded

LEMMA KeptDamage ==
    ASSUME TypeOK, KeptInv, ClearInv, Damage
    PROVE  KeptInv'
<1>1. saveMu = Nobody /\ file # NoFile /\ UNCHANGED <<up, mem, loadErr, gone, proc>>
  BY DEF Damage
<1>2. \A p \in Procs : proc[p].pc # "write"
  BY <1>1, SetsAssumption DEF ClearInv, OneWriter
<1>3. Lost(Decoded(file'), mem) = Lost(Decoded(file), mem)
  BY DamagedSame, LostFacts
<1> QED
  BY <1>1, <1>2, <1>3 DEF KeptInv

LEMMA NextKept == TypeOK /\ ClearInv /\ KeptInv /\ [Next]_vars => KeptInv'
<1> SUFFICES ASSUME TypeOK, ClearInv, KeptInv, [Next]_vars PROVE KeptInv'
  OBVIOUS
<1>0. /\ proc \in [Procs -> Proc] /\ \A p \in Procs : proc[p].pc # "idle" => up
      /\ Lost(mem, mem) = {}
  BY LostFacts DEF TypeOK, Proc, KeptInv
<1>1. ASSUME NEW i \in Accounts, Put(i) PROVE KeptInv'
  <2>1. UNCHANGED <<up, loadErr, file, proc>> /\ gone' = gone \cup Lost(mem, mem')
    BY <1>1 DEF Put
  <2> QED
    BY <1>0, <2>1, KeptInMemory
<1>2. ASSUME NEW out \in SUBSET Ids, Prune(out) PROVE KeptInv'
  <2>1. UNCHANGED <<up, loadErr, file, proc, gone>> /\ mem'.history = mem.history
    BY <1>2 DEF Prune, TypeOK, Contents
  <2>2. Lost(mem, mem') = {}
    BY <2>1, LostFacts
  <2> QED
    BY <1>0, <2>1, <2>2, KeptInMemory
<1>3. ASSUME NEW p \in Procs, NEW old \in Legacy, Migrate(p, old) PROVE KeptInv'
  <2>1. UNCHANGED <<up, loadErr, file>> /\ up /\ gone \cup Lost(mem, mem') \subseteq gone'
    BY <1>0, <1>3 DEF Migrate
  <2>2. \A q \in Procs : /\ proc'[q].data = proc[q].data
                         /\ proc'[q].pc = "write" => proc[q].pc = "write"
    BY <1>0, <1>3 DEF Migrate, Proc
  <2> QED
    BY <2>1, <2>2, KeptInMemory
<1>4. ASSUME NEW p \in Procs, SaveIfPending(p) \/ AskSave(p) \/ Refuse(p) PROVE KeptInv'
  <2>1. UNCHANGED <<up, mem, loadErr, file, gone>> /\ up
    BY <1>0, <1>4 DEF SaveIfPending, AskSave, Refuse
  <2>2. \A q \in Procs : proc'[q].pc = "write" => proc'[q] = proc[q]
    BY <1>0, <1>4, IdleType DEF SaveIfPending, AskSave, Refuse, Proc
  <2> QED
    BY <1>0, <2>1, <2>2, KeptInMemory
<1>5. ASSUME NEW p \in Procs, NEW i \in Accounts, Delete(p, i) PROVE KeptInv'
  <2>1. UNCHANGED <<up, loadErr, file>> /\ up /\ gone' = gone \cup Lost(mem, mem')
    BY <1>5 DEF Delete
  <2>2. \A q \in Procs : /\ proc'[q].data = proc[q].data
                         /\ proc'[q].pc = "write" => proc[q].pc = "write"
    BY <1>0, <1>5 DEF Delete, Proc
  <2> QED
    BY <2>1, <2>2, KeptInMemory
<1>6. CASE Crash
  BY <1>6, IdleType DEF Crash, KeptInv
<1>7. CASE UNCHANGED vars
  <2>1. UNCHANGED <<up, mem, loadErr, file, gone, proc>>
    BY <1>7 DEF vars
  <2> QED
    BY <1>0, <2>1, KeptInMemory
<1> QED
  BY <1>1, <1>2, <1>3, <1>4, <1>5, <1>6, <1>7, KeptCopy, KeptWrite, KeptLoad, KeptDamage
  DEF Next, MigrateAny, DeleteAny, SaveStep, Procs

\* What the file holds stays in it, through crashes, reloads, failed writes and times
\* when it cannot be read, but for what a clearance or a full history removed.
THEOREM KeptCorrect == Spec => SavedIsKept
<1> DEFINE Kept == file # NoFile => Lost(Decoded(file), Decoded(file')) \subseteq gone
<1>1. ASSUME TypeOK, KeptInv, NEW p \in Procs, Write(p) \/ Fail(p), file' # file
      PROVE  Kept
  <2>1. /\ CopyKept(p)
        /\ \A i \in Ids : Decoded(file').history[i] = proc[p].data.history[i]
    BY <1>1, WrittenCopy
  <2>2. Lost(Decoded(file), Decoded(file')) = Lost(Decoded(file), proc[p].data)
    BY <2>1, LostFacts
  <2> QED
    BY <2>1, <2>2 DEF CopyKept
<1>2. ASSUME TypeOK, Damage
      PROVE  Kept
  <2>1. Lost(Decoded(file), Decoded(file')) = {}
    BY <1>2, DamagedSame, LostFacts
  <2> QED
    BY <2>1
<1>3. TypeOK /\ KeptInv /\ [Next]_vars => [Kept]_file
  <2> SUFFICES ASSUME TypeOK, KeptInv, [Next]_vars, file' # file PROVE Kept
    OBVIOUS
  <2>1. Damage \/ \E p \in Procs : Write(p) \/ Fail(p)
    BY DEF Next, vars, Put, Prune, MigrateAny, Migrate, SaveIfPending, AskSave, DeleteAny, Delete,
           SaveStep, Copy, Refuse, Load, Crash
  <2> QED
    BY <1>1, <1>2, <2>1
<1> QED
  BY <1>3, InitTypes, NextTypes, InitClear, NextClear, InitKept, NextKept, PTL
  DEF Spec, SavedIsKept

-----------------------------------------------------------------------------
(* Migrations are marked until they are saved. The inductive invariant: a  *)
(* copy that is being written has what memory has, but for a set of legacy *)
(* ids that were migrated since; migrationRevision went on by as many.     *)

Since(p, S) ==
    /\ migration.rev = (proc[p].rev + Cardinality(S)) % Wrap
    /\ S # {} => migration.dirty
    /\ \A old \in Legacy \ S : mem.history[old] = proc[p].data.history[old]
    /\ \A old \in S : SnapsOf(mem, old) = {}

MarkedInv ==
    /\ MigrationMarked
    /\ \A p \in Procs : proc[p].pc = "write" => \E S \in SUBSET Legacy : Since(p, S)

\* What a number below twice the modulus is reduced to.
Reduced(n) == IF n < Wrap THEN n ELSE n - Wrap
LEMMA Modulo ==
    ASSUME NEW n \in 0 .. (2 * Wrap - 1)
    PROVE  n % Wrap = Reduced(n)
<1>1. CASE n < Wrap
  <2>1. n \div Wrap = 0
    BY <1>1, BoundsAssumption, SMT
  <2> QED
    BY <1>1, <2>1, BoundsAssumption, SMT DEF Reduced
<1>2. CASE ~(n < Wrap)
  <2>1. n \div Wrap = 1
    BY <1>2, BoundsAssumption, SMT
  <2> QED
    BY <1>2, <2>1, BoundsAssumption, SMT DEF Reduced
<1> QED
  BY <1>1, <1>2

LEMMA CountedOn ==
    ASSUME NEW r \in 0 .. (Wrap - 1), NEW k \in 0 .. (Wrap - 1)
    PROVE  /\ (r + k) % Wrap = r => k = 0
           /\ k + 1 < Wrap => (((r + k) % Wrap) + 1) % Wrap = (r + (k + 1)) % Wrap
<1>1. /\ r + k \in 0 .. (2 * Wrap - 1)
      /\ Reduced(r + k) + 1 \in 0 .. (2 * Wrap - 1)
      /\ k + 1 < Wrap => r + (k + 1) \in 0 .. (2 * Wrap - 1)
  BY BoundsAssumption DEF Reduced
<1>2. /\ (r + k) % Wrap = Reduced(r + k)
      /\ (Reduced(r + k) + 1) % Wrap = Reduced(Reduced(r + k) + 1)
      /\ k + 1 < Wrap => (r + (k + 1)) % Wrap = Reduced(r + (k + 1))
  BY <1>1, Modulo
<1>3. /\ Reduced(r + k) = r => k = 0
      /\ k + 1 < Wrap => Reduced(Reduced(r + k) + 1) = Reduced(r + (k + 1))
  BY BoundsAssumption DEF Reduced
<1> QED
  BY <1>2, <1>3

LEMMA LegacyFacts ==
    /\ \A old \in Legacy : old \in Ids /\ old \notin Accounts /\ StableOf[old] \in Accounts
    /\ \A S \in SUBSET Legacy :
           /\ IsFiniteSet(S) /\ Cardinality(S) \in 0 .. (Wrap - 1) /\ (Cardinality(S) = 0 => S = {})
           /\ \A old \in Legacy \ S : Cardinality(S \cup {old}) = Cardinality(S) + 1
    /\ Cardinality({}) = 0
<1>1. \A old \in Legacy : old \in Ids /\ old \notin Accounts /\ StableOf[old] \in Accounts
  BY SetsAssumption DEF Ids
<1>2. ASSUME NEW S \in SUBSET Legacy
      PROVE  IsFiniteSet(S) /\ Cardinality(S) \in 0 .. (Wrap - 1) /\ (Cardinality(S) = 0 => S = {})
  <2>1. IsFiniteSet(S) /\ Cardinality(S) <= Cardinality(Legacy)
    BY WrapAssumption, FS_Subset
  <2>2. Cardinality(S) \in Nat /\ Cardinality(Legacy) \in Nat
    BY <2>1, WrapAssumption, FS_CardinalityType
  <2>3. Cardinality(S) = 0 => S = {}
    BY <2>1, FS_EmptySet
  <2> QED
    BY <2>1, <2>2, <2>3, BoundsAssumption, WrapAssumption
<1>3. ASSUME NEW S \in SUBSET Legacy, NEW old \in Legacy \ S
      PROVE  Cardinality(S \cup {old}) = Cardinality(S) + 1
  BY <1>2, FS_AddElement
<1> QED
  BY <1>1, <1>2, <1>3, FS_EmptySet

\* Steps that leave the mark, the file and the legacy ids alone and start no write.
LEMMA MarkedQuiet ==
    ASSUME MarkedInv, UNCHANGED <<up, loadErr, migration, file>>,
           \A old \in Legacy : /\ mem'.history[old] = mem.history[old]
                               /\ SnapsOf(mem', old) \subseteq SnapsOf(mem, old),
           \A p \in Procs : proc'[p].pc = "write" =>
               proc[p].pc = "write" /\ proc'[p].data = proc[p].data /\ proc'[p].rev = proc[p].rev
    PROVE  MarkedInv'
<1>1. MigrationMarked'
  BY DEF MarkedInv, MigrationMarked, Decoded, Cut
<1>2. ASSUME NEW p \in Procs, proc'[p].pc = "write"
      PROVE  \E S \in SUBSET Legacy : Since(p, S)'
  <2>1. PICK S \in SUBSET Legacy : Since(p, S)
    BY <1>2 DEF MarkedInv
  <2>2. Since(p, S)'
    BY <1>2, <2>1 DEF Since, SnapsOf
  <2> QED
    BY <2>2
<1> QED
  BY <1>1, <1>2 DEF MarkedInv

\* A migration empties a legacy id that no earlier one emptied since the copy.
LEMMA MarkedMigrate ==
    ASSUME TypeOK, MarkedInv, NEW p \in Procs, NEW old \in Legacy, Migrate(p, old)
    PROVE  MarkedInv'
<1>1. /\ UNCHANGED <<up, loadErr, file>> /\ proc' = [proc EXCEPT ![p].pc = "migrated"]
      /\ proc \in [Procs -> Proc] /\ mem \in Contents /\ Within(mem)
  BY DEF Migrate, TypeOK, Proc, Within
<1>2. \A q \in Procs : proc'[q].pc = "write" => proc'[q] = proc[q] /\ proc[q].pc = "write"
  BY <1>1 DEF Proc
<1>3. CASE SnapsOf(mem, old) = {}
  <2>1. UNCHANGED <<mem, migration>>
    BY <1>3 DEF Migrate
  <2> QED
    BY <1>1, <1>2, <2>1, MarkedQuiet
<1>4. CASE SnapsOf(mem, old) # {}
  <2>1. mem' = Migrated(mem, old) /\ migration' = Mark
    BY <1>4 DEF Migrate
  <2>2. SnapsOf(mem', old) = {}
    BY <1>1, <2>1, MigratedFacts
  <2>3. \A o \in Legacy \ {old} : /\ mem'.history[o] = mem.history[o]
                                 /\ mem'.entries[o] = mem.entries[o]
    BY <1>1, <2>1, LegacyFacts DEF Migrated, Contents
  <2>4. /\ migration'.rev = (migration.rev + 1) % Wrap
        /\ migration'.dirty = TRUE /\ migration'.err = migration.err
    BY <2>1 DEF Mark, TypeOK
  <2>5. MigrationMarked'
    BY <2>4 DEF MigrationMarked
  <2>6. ASSUME NEW q \in Procs, proc'[q].pc = "write"
        PROVE  \E S \in SUBSET Legacy : Since(q, S)'
    <3>1. PICK S \in SUBSET Legacy : Since(q, S)
      BY <1>2, <2>6 DEF MarkedInv
    <3>2. old \notin S /\ S \cup {old} \in SUBSET Legacy
      BY <1>4, <3>1 DEF Since
    <3>3. /\ proc[q].rev \in 0 .. (Wrap - 1) /\ Cardinality(S) \in 0 .. (Wrap - 1)
          /\ Cardinality(S \cup {old}) = Cardinality(S) + 1 /\ Cardinality(S) + 1 < Wrap
      BY <1>1, <3>2, LegacyFacts, BoundsAssumption DEF Proc
    <3>4. migration'.rev = (proc[q].rev + Cardinality(S \cup {old})) % Wrap
      BY <2>4, <3>1, <3>3, CountedOn DEF Since
    <3>5. \A o \in S \cup {old} : SnapsOf(mem', o) = {}
      <4>1. \A o \in S : SnapsOf(mem, o) = {} /\ o \in Legacy \ {old}
        BY <3>1, <3>2 DEF Since
      <4> QED
        BY <2>2, <2>3, <4>1 DEF SnapsOf
    <3>6. \A o \in Legacy \ (S \cup {old}) : mem'.history[o] = proc[q].data.history[o]
      BY <2>3, <3>1 DEF Since
    <3>7. Since(q, S \cup {old})'
      BY <1>2, <2>4, <2>6, <3>4, <3>5, <3>6 DEF Since
    <3> QED
      BY <3>2, <3>7
  <2> QED
    BY <2>5, <2>6 DEF MarkedInv
<1> QED
  BY <1>3, <1>4

LEMMA MarkedCopy ==
    ASSUME TypeOK, ClearInv, MarkedInv, NEW p \in Procs, Copy(p)
    PROVE  MarkedInv'
<1>1. /\ UNCHANGED <<up, mem, loadErr, file, migration>> /\ saveMu = Nobody
      /\ proc'[p].data = mem /\ proc'[p].rev = migration.rev
      /\ \A q \in Procs \ {p} : proc'[q] = proc[q]
  BY DEF Copy, TypeOK
<1>2. \A q \in Procs : proc[q].pc # "write"
  BY <1>1, SetsAssumption DEF ClearInv, OneWriter
<1>3. MigrationMarked'
  BY <1>1 DEF MarkedInv, MigrationMarked, Decoded, Cut
<1>4. migration.rev \in 0 .. (Wrap - 1)
  BY DEF TypeOK
<1>5. (migration.rev + 0) % Wrap = migration.rev
  <2>1. ASSUME NEW n \in 0 .. (Wrap - 1) PROVE (n + 0) % Wrap = n
    <3>1. n + 0 = n /\ n \in 0 .. (2 * Wrap - 1) /\ Reduced(n) = n
      BY BoundsAssumption DEF Reduced
    <3> QED
      BY <3>1, Modulo
  <2> QED
    BY <1>4, <2>1
<1>6. Since(p, {})'
  BY <1>1, <1>5, LegacyFacts DEF Since
<1> QED
  BY <1>1, <1>2, <1>3, <1>6 DEF MarkedInv

\* The mark is cleared only by a save after whose copy nothing was migrated.
LEMMA MarkedWrite ==
    ASSUME TypeOK, KeptInv, ClearInv, MarkedInv, NEW p \in Procs, Write(p) \/ Fail(p)
    PROVE  MarkedInv'
<1>1. /\ UNCHANGED <<up, mem, loadErr>> /\ proc' = [proc EXCEPT ![p] = Idle]
      /\ \/ file' = file /\ Fail(p)
         \/ \A i \in Ids : Decoded(file').history[i] = proc[p].data.history[i]
      /\ proc[p].pc = "write" /\ proc \in [Procs -> Proc]
  BY WrittenCopy DEF Write, Fail, TypeOK, Proc
<1>2. \A q \in Procs : proc'[q].pc # "write"
  BY <1>1, IdleType DEF ClearInv, OneWriter
<1>3. PICK S \in SUBSET Legacy : Since(p, S)
  BY <1>1 DEF MarkedInv
<1>4. migration.rev = proc[p].rev => S = {}
  <2>1. proc[p].rev \in 0 .. (Wrap - 1) /\ Cardinality(S) \in 0 .. (Wrap - 1)
    BY <1>1, LegacyFacts DEF Proc
  <2>2. migration.rev = proc[p].rev => Cardinality(S) = 0
    BY <1>3, <2>1, CountedOn DEF Since
  <2> QED
    BY <2>2, LegacyFacts
<1>5. \/ S = {} \/ migration'.dirty
  <2>1. S # {} => migration.dirty /\ migration.rev # proc[p].rev
    BY <1>3, <1>4 DEF Since
  <2>2. Write(p) => migration' = migration \/ migration.rev = proc[p].rev
    BY DEF Write, SavedMigration
  <2>3. Fail(p) => migration'.dirty = migration.dirty
    BY DEF Fail, TypeOK
  <2> QED
    BY <2>1, <2>2, <2>3
<1>6. migration'.err => migration'.dirty
  BY DEF Write, Fail, SavedMigration, TypeOK, MarkedInv, MigrationMarked
<1>7. (up /\ file # NoFile /\ ~loadErr /\ ~migration.dirty =>
           \A old \in Legacy : Decoded(file).history[old] # <<>> => mem.history[old] # <<>>)'
  <2> SUFFICES ASSUME up, file' # NoFile, ~loadErr, ~migration'.dirty, NEW old \in Legacy,
                      Decoded(file').history[old] # <<>>
               PROVE  mem.history[old] # <<>>
    BY <1>1
  <2>1. CASE file' = file /\ Fail(p)
    <3>1. ~migration.dirty
      BY <2>1 DEF Fail, TypeOK
    <3> QED
      BY <2>1, <3>1 DEF MarkedInv, MigrationMarked
  <2>2. CASE \A i \in Ids : Decoded(file').history[i] = proc[p].data.history[i]
    <3>1. mem.history[old] = proc[p].data.history[old]
      BY <1>3, <1>5 DEF Since
    <3> QED
      BY <2>2, <3>1, LegacyFacts
  <2> QED
    BY <1>1, <2>1, <2>2
<1> QED
  BY <1>2, <1>6, <1>7 DEF MarkedInv, MigrationMarked

LEMMA MarkedLoad ==
    ASSUME TypeOK, ClearInv, MarkedInv, Load
    PROVE  MarkedInv'
<1>1. /\ saveMu = Nobody /\ UNCHANGED <<file, migration>>
      /\ file # NoFile /\ ~loadErr' => mem' = Decoded(file)
      /\ \A p \in Procs : proc'[p].pc = proc[p].pc
  BY DEF Load, TypeOK
<1>2. \A p \in Procs : proc'[p].pc # "write"
  BY <1>1, SetsAssumption DEF ClearInv, OneWriter
<1>3. MigrationMarked'
  BY <1>1 DEF MarkedInv, MigrationMarked, Decoded, Cut
<1> QED
  BY <1>2, <1>3 DEF MarkedInv

LEMMA MarkedDamage ==
    ASSUME TypeOK, ClearInv, MarkedInv, Damage
    PROVE  MarkedInv'
<1>1. /\ saveMu = Nobody /\ file # NoFile /\ UNCHANGED <<up, mem, loadErr, migration, proc>>
      /\ \A old \in Legacy : Decoded(file').history[old] = Decoded(file).history[old]
  BY DamagedSame, LegacyFacts DEF Damage
<1>2. \A p \in Procs : proc'[p].pc # "write"
  BY <1>1, SetsAssumption DEF ClearInv, OneWriter
<1>3. MigrationMarked'
  BY <1>1 DEF MarkedInv, MigrationMarked
<1> QED
  BY <1>2, <1>3 DEF MarkedInv

LEMMA InitMarked == Init => MarkedInv
BY IdleType DEF Init, MarkedInv, MigrationMarked, NoMigration

LEMMA NextMarked == TypeOK /\ ClearInv /\ KeptInv /\ MarkedInv /\ [Next]_vars => MarkedInv'
<1> SUFFICES ASSUME TypeOK, ClearInv, KeptInv, MarkedInv, [Next]_vars PROVE MarkedInv'
  OBVIOUS
<1>0. proc \in [Procs -> Proc] /\ mem \in Contents
  BY DEF TypeOK, Proc
<1>1. ASSUME NEW i \in Accounts, Put(i) PROVE MarkedInv'
  <2>1. UNCHANGED <<up, loadErr, migration, file, proc>>
    BY <1>1 DEF Put
  <2>2. \A old \in Legacy : /\ mem'.history[old] = mem.history[old]
                            /\ mem'.entries[old] = mem.entries[old]
    BY <1>0, <1>1, LegacyFacts DEF Put, Contents
  <2>3. \A old \in Legacy : SnapsOf(mem', old) = SnapsOf(mem, old)
    BY <2>2 DEF SnapsOf
  <2> QED
    BY <2>1, <2>2, <2>3, MarkedQuiet
<1>2. ASSUME NEW out \in SUBSET Ids, Prune(out) PROVE MarkedInv'
  <2>1. UNCHANGED <<up, loadErr, migration, file, proc>>
    BY <1>2 DEF Prune
  <2>2. \A old \in Legacy : /\ mem'.history[old] = mem.history[old]
                            /\ mem'.entries[old] \in {mem.entries[old], NoSnap}
    BY <1>0, <1>2, LegacyFacts DEF Prune, Contents
  <2>3. \A old \in Legacy : SnapsOf(mem', old) \subseteq SnapsOf(mem, old)
    BY <2>2 DEF SnapsOf
  <2> QED
    BY <2>1, <2>2, <2>3, MarkedQuiet
<1>3. ASSUME NEW p \in Procs, SaveIfPending(p) \/ AskSave(p) \/ Refuse(p) PROVE MarkedInv'
  <2>1. UNCHANGED <<up, mem, loadErr, migration, file>>
    BY <1>3 DEF SaveIfPending, AskSave, Refuse
  <2>2. \A q \in Procs : proc'[q].pc = "write" => proc'[q] = proc[q]
    BY <1>0, <1>3, IdleType DEF SaveIfPending, AskSave, Refuse, Proc
  <2> QED
    BY <2>1, <2>2, MarkedQuiet
<1>4. ASSUME NEW p \in Procs, NEW i \in Accounts, Delete(p, i) PROVE MarkedInv'
  <2>1. UNCHANGED <<up, loadErr, migration, file>>
    BY <1>4 DEF Delete
  <2>2. \A old \in Legacy : /\ mem'.history[old] = mem.history[old]
                            /\ mem'.entries[old] = mem.entries[old]
    BY <1>0, <1>4, LegacyFacts DEF Delete, Contents
  <2>3. \A old \in Legacy : SnapsOf(mem', old) = SnapsOf(mem, old)
    BY <2>2 DEF SnapsOf
  <2>4. \A q \in Procs : proc'[q].pc = "write" => proc'[q] = proc[q]
    BY <1>0, <1>4 DEF Delete, Proc
  <2> QED
    BY <2>1, <2>2, <2>3, <2>4, MarkedQuiet
<1>5. CASE Crash
  BY <1>5, IdleType DEF Crash, MarkedInv, MigrationMarked, NoMigration
<1>6. CASE UNCHANGED vars
  <2>1. UNCHANGED <<up, mem, loadErr, migration, file, proc>>
    BY <1>6 DEF vars
  <2> QED
    BY <2>1, MarkedQuiet
<1> QED
  BY <1>1, <1>2, <1>3, <1>4, <1>5, <1>6, MarkedMigrate, MarkedCopy, MarkedWrite, MarkedLoad, MarkedDamage
  DEF Next, MigrateAny, DeleteAny, SaveStep, Procs

\* While the file still lists a legacy id that memory has moved, the migration is marked
\* as unsaved: savedMigration never takes an overlapping save for one that holds it.
THEOREM MarkedCorrect == Spec => []MigrationMarked
<1>1. MarkedInv => MigrationMarked
  BY DEF MarkedInv
<1> QED
  BY <1>1, InitTypes, NextTypes, InitClear, NextClear, InitKept, NextKept, InitMarked, NextMarked, PTL
  DEF Spec

-----------------------------------------------------------------------------
(* Migrations *)

\* A migration empties the legacy id it moves and touches no account but the one it moves
\* it to: that keeps every event of both histories, once, and drops only events that are
\* not newer than those of a full history; the active snapshot is the newer one.
THEOREM MigrationCorrect == Spec => MigrationKeepsNewest
<1> DEFINE Kept(old) ==
           LET new == StableOf[old]
               before == RangeOf(mem.history[old]) \cup RangeOf(mem.history[new])
               after == RangeOf(mem'.history[new])
           IN /\ SnapsOf(mem, old) # {} /\ SnapsOf(mem', old) = {}
              /\ \A i \in Ids \ {old, new} : /\ mem'.history[i] = mem.history[i]
                                            /\ mem'.entries[i] = mem.entries[i]
              /\ after \subseteq before
              /\ Cardinality(after) = Len(mem'.history[new])
              /\ \A lost \in before \ after :
                   Cardinality(after) = Limit /\ \A snap \in after : snap.at >= lost.at
              /\ \A e \in {mem.entries[old], mem.entries[new]} \ {NoSnap} :
                   mem'.entries[new].at >= e.at
           Fine == migration'.rev # migration.rev /\ up' => \E old \in Legacy : Kept(old)
<1>1. ASSUME TypeOK, NEW p \in Procs, NEW old \in Legacy, Migrate(p, old),
             migration'.rev # migration.rev
      PROVE  Kept(old)
  <2> DEFINE new == StableOf[old]
             h == mem.history[new] \o mem.history[old]
  <2>1. /\ mem \in Contents /\ Within(mem) /\ mem' = Migrated(mem, old)
        /\ SnapsOf(mem, old) # {}
    BY <1>1 DEF Migrate, TypeOK, Within
  <2>2. /\ SnapsOf(mem', old) = {} /\ mem'.history[new] = Merged(h)
        /\ \A e \in {mem.entries[old], mem.entries[new]} \ {NoSnap} :
               mem'.entries[new].at >= e.at
    BY <2>1, MigratedFacts
  <2>3. mem.history[new] \in Seq(Snapshot) /\ mem.history[old] \in Seq(Snapshot)
    BY <2>1, SetsAssumption DEF Contents, Ids
  <2>4. /\ h \in Seq(Snapshot)
        /\ RangeOf(h) = RangeOf(mem.history[old]) \cup RangeOf(mem.history[new])
    BY <2>3, ConcatProperties, RangeTypes
  <2>5. /\ RangeOf(Merged(h)) \subseteq RangeOf(h)
        /\ Cardinality(RangeOf(Merged(h))) = Len(Merged(h))
        /\ \A x \in RangeOf(h) \ RangeOf(Merged(h)) :
               /\ Len(Merged(h)) = Limit
               /\ \A y \in RangeOf(Merged(h)) : y.at >= x.at
    BY <2>4, MergeKeeps
  <2>6. \A i \in Ids \ {old, new} : mem'.history[i] = mem.history[i] /\ mem'.entries[i] = mem.entries[i]
    BY <2>1 DEF Migrated, Contents
  <2> HIDE DEF h
  <2> QED
    BY <2>1, <2>2, <2>4, <2>5, <2>6
<1>2. ASSUME TypeOK, NEW p \in Procs,
             SaveIfPending(p) \/ AskSave(p) \/ DeleteAny(p) \/ SaveStep(p)
      PROVE  migration'.rev = migration.rev
  BY <1>2
  DEF SaveIfPending, AskSave, DeleteAny, Delete, SaveStep, Copy, Refuse, Write, Fail,
      SavedMigration, TypeOK
<1>3. ASSUME TypeOK, [Next]_vars
      PROVE  Fine
  <2>1. CASE \E i \in Accounts : Put(i)
    BY <2>1 DEF Put
  <2>2. CASE \E out \in SUBSET Ids \ {{}} : Prune(out)
    BY <2>2 DEF Prune
  <2>3. CASE \E p \in Finders : MigrateAny(p)
    BY <1>1, <1>3, <2>3 DEF MigrateAny, Procs
  <2>4. CASE Load \/ Crash \/ Damage \/ UNCHANGED vars
    BY <2>4 DEF Load, Crash, Damage, vars
  <2> QED
    BY <1>2, <1>3, <2>1, <2>2, <2>3, <2>4 DEF Next, Procs
<1>4. TypeOK /\ [Next]_vars => [Fine]_vars
  BY <1>3
<1> QED
  BY <1>4, SnapshotTypes, PTL DEF Spec, MigrationKeepsNewest
=============================================================================
