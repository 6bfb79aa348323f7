--------------------------- MODULE PlaylistProofs ---------------------------
(***************************************************************************)
(* The list that playlist_resume() makes of the control file is the list   *)
(* in memory, for every playlist file, every size, every number of         *)
(* commands and every random number; and what is added, moved, deleted,    *)
(* shuffled or stepped over plays and shows what it is meant to.           *)
(*                                                                         *)
(* The recursive functions of Playlist (the shuffle, the merge and the     *)
(* sort, the loop of playlist_resume(), the deletes of playlist_next())    *)
(* are reasoned about by induction stated with sets: lemma Induction.      *)
(***************************************************************************)
EXTENDS Playlist, SequenceTheorems, WellFoundedInduction, TLAPS

-----------------------------------------------------------------------------
\* Induction.  The library's theorems take the predicate as a parameter; with a set
\* in its place they can be cited.

\* A set of numbers that is not empty has a least one.
LEMMA Least ==
  ASSUME NEW T \in SUBSET Nat, T # {}
  PROVE  \E x \in T : \A y \in T : x <= y
<1> DEFINE R == OpToRel(<, Nat)
<1>1. \E x \in T : \A y \in T : ~ (<<y, x>> \in R)
  <2>1. IsWellFoundedOn(R, Nat)
    BY NatLessThanWellFounded
  <2> HIDE DEF R
  <2> QED BY <2>1, WFMin
<1>2. \A x, y \in Nat : <<y, x>> \in R <=> y < x
  BY DEF OpToRel
<1> HIDE DEF R
<1>3. PICK x \in T : \A y \in T : ~ (<<y, x>> \in R)
  BY <1>1
<1>4. ASSUME NEW y \in T PROVE x <= y
  <2>1. x \in Nat /\ y \in Nat
    OBVIOUS
  <2>2. ~ (y < x)
    BY <2>1, <1>2, <1>3
  <2> QED BY <2>1, <2>2
<1> QED BY <1>4

\* A set with 0 in it, and with each number its successor, has all numbers in it.
LEMMA Induction ==
  ASSUME NEW T, 0 \in T, \A n \in Nat : n \in T => n + 1 \in T
  PROVE  Nat \subseteq T
<1> DEFINE B == {n \in Nat : n \notin T}
<1> SUFFICES ASSUME B # {} PROVE FALSE
  OBVIOUS
<1>1. PICK x \in B : \A y \in B : x <= y
  <2>1. B \in SUBSET Nat
    OBVIOUS
  <2> HIDE DEF B
  <2> QED BY <2>1, Least
<1>2. x # 0
  OBVIOUS
<1>3. x - 1 \in Nat /\ x - 1 \notin B
  BY <1>1, <1>2
<1> QED BY <1>3

-----------------------------------------------------------------------------
\* Sequences.

\* A function on 1 .. n is a sequence.
LEMMA FunSeq ==
  ASSUME NEW S, NEW n \in Nat, NEW f \in [1 .. n -> S]
  PROVE  f \in Seq(S) /\ Len(f) = n
<1>1. f \in Seq(S)
  BY SeqDef
<1>2. DOMAIN f = 1 .. Len(f) /\ Len(f) \in Nat
  BY <1>1, LenProperties
<1> QED BY <1>1, <1>2

\* The entries of a sequence, by place.
LEMMA ToSetOf ==
  ASSUME NEW S, NEW s \in Seq(S)
  PROVE  ToSet(s) = {s[i] : i \in 1 .. Len(s)} /\ ToSet(s) \subseteq S /\ s \in Seq(ToSet(s))
<1>1. DOMAIN s = 1 .. Len(s) /\ Len(s) \in Nat /\ s \in [1 .. Len(s) -> S]
  BY LenProperties
<1>2. ToSet(s) = {s[i] : i \in 1 .. Len(s)}
  BY <1>1 DEF ToSet
<1>3. s \in [1 .. Len(s) -> ToSet(s)]
  BY <1>1, <1>2
<1>4. s \in Seq(ToSet(s))
  BY <1>1, <1>3, FunSeq
<1> QED BY <1>1, <1>2, <1>4

\* u has the entries of v, as many, in some order.
Same(u, v) == Len(u) = Len(v) /\ ToSet(u) = ToSet(v)

-----------------------------------------------------------------------------
\* The shuffle.

\* A swap keeps the entries.
LEMMA SwapSame ==
  ASSUME NEW S, NEW s \in Seq(S), NEW i \in 1 .. Len(s), NEW j \in 1 .. Len(s)
  PROVE  Swap(s, i, j) \in Seq(S) /\ Same(Swap(s, i, j), s)
<1> DEFINE w == Swap(s, i, j)
<1>1. Len(s) \in Nat /\ s \in [1 .. Len(s) -> S]
  BY LenProperties
<1>2. w \in [1 .. Len(s) -> S]
  BY <1>1 DEF Swap
<1>3. w \in Seq(S) /\ Len(w) = Len(s)
  BY <1>1, <1>2, FunSeq
<1>4. \A k \in 1 .. Len(s) : w[k] = IF k = j THEN s[i] ELSE IF k = i THEN s[j] ELSE s[k]
  BY <1>1 DEF Swap
<1> HIDE DEF w
<1>5. ToSet(w) = {w[k] : k \in 1 .. Len(s)} /\ ToSet(s) = {s[k] : k \in 1 .. Len(s)}
  BY <1>3, ToSetOf
<1>6. ToSet(w) = ToSet(s)
  <2>1. \A k \in 1 .. Len(s) : w[k] \in {s[l] : l \in 1 .. Len(s)}
    BY <1>4
  <2>2. ASSUME NEW k \in 1 .. Len(s) PROVE s[k] \in {w[l] : l \in 1 .. Len(s)}
    <3>1. CASE k = i BY <3>1, <1>4
    <3>2. CASE k = j BY <3>2, <1>4
    <3>3. CASE k # i /\ k # j BY <3>3, <1>4
    <3> QED BY <3>1, <3>2, <3>3
  <2> QED BY <2>1, <2>2, <1>5
<1> QED BY <1>3, <1>6 DEF Same, w

Mixing(s, seed) ==
  CHOOSE mix : mix = [j \in 0 .. Len(s) |->
     IF j = 0 THEN s
     ELSE LET k == (Len(s) - j) + 1 IN Swap(mix[j - 1], k, (Rand[seed][k] % k) + 1)]

\* The shuffle goes place by place.
LEMMA MixingDef ==
  ASSUME NEW S, NEW s \in Seq(S), NEW seed
  PROVE  /\ Mixed(s, seed) = Mixing(s, seed)[Len(s)]
         /\ Mixing(s, seed)[0] = s
         /\ \A j \in 1 .. Len(s) : LET k == (Len(s) - j) + 1 IN
              Mixing(s, seed)[j] = Swap(Mixing(s, seed)[j - 1], k, (Rand[seed][k] % k) + 1)
<1> DEFINE N == Len(s)
           Step(v, j) == LET k == (Len(s) - j) + 1 IN Swap(v, k, (Rand[seed][k] % k) + 1)
           Is(g, n) == g = [j \in 0 .. n |-> IF j = 0 THEN s ELSE Step(g[j - 1], j)]
           T == {n \in Nat : \E g : Is(g, n)}
<1>N. N \in Nat
  BY LenProperties
<1>D. Mixing(s, seed) = CHOOSE g : Is(g, N)
  BY DEF Mixing
<1>S. /\ Mixed(s, seed) = Mixing(s, seed)[Len(s)]
      /\ \A v, j : Step(v, j) = LET k == (Len(s) - j) + 1 IN Swap(v, k, (Rand[seed][k] % k) + 1)
  BY DEF Mixed, Mixing
<1> HIDE DEF N, Step
<1>1. 0 \in T
  <2>1. Is([k \in 0 .. 0 |-> s], 0)
    OBVIOUS
  <2> QED BY <2>1
<1>2. ASSUME NEW n \in Nat, n \in T PROVE n + 1 \in T
  <2>1. PICK g : Is(g, n)
    BY <1>2
  <2> DEFINE h == [j \in 0 .. n + 1 |-> IF j = n + 1 THEN Step(g[n], n + 1) ELSE g[j]]
  <2>2. Is(h, n + 1)
    <3>1. ASSUME NEW j \in 0 .. n + 1 PROVE h[j] = IF j = 0 THEN s ELSE Step(h[j - 1], j)
      <4>1. CASE j = n + 1
        <5>1. h[n] = g[n]
          OBVIOUS
        <5> QED BY <4>1, <5>1
      <4>2. CASE j # n + 1 /\ j # 0
        <5>1. h[j] = g[j] /\ h[j - 1] = g[j - 1]
          BY <4>2
        <5>2. g[j] = Step(g[j - 1], j)
          BY <2>1, <4>2
        <5> QED BY <5>1, <5>2, <4>2
      <4>3. CASE j = 0
        <5>1. g[0] = s
          BY <2>1
        <5> QED BY <4>3, <5>1
      <4> QED BY <4>1, <4>2, <4>3
    <3> QED BY <3>1
  <2> HIDE DEF h, Is
  <2>3. \E f : Is(f, n + 1)
    BY <2>2
  <2> QED BY <2>3
<1>3. \E g : Is(g, N)
  <2>1. Nat \subseteq T
    <3> HIDE DEF T
    <3> QED BY <1>1, <1>2, Induction
  <2> QED BY <2>1, <1>N
<1>4. Is(Mixing(s, seed), N)
  <2> HIDE DEF Is
  <2> QED BY <1>3, <1>D
<1>5. Mixing(s, seed)[0] = s /\ \A j \in 1 .. N : Mixing(s, seed)[j] = Step(Mixing(s, seed)[j - 1], j)
  BY <1>4, <1>N
<1> QED BY <1>5, <1>S DEF N

\* randomise_playlist_unlocked() keeps the entries: none is lost, none comes twice from nowhere.
LEMMA MixedSame ==
  ASSUME NEW S, NEW s \in Seq(S), NEW seed \in Seeds, Len(s) <= MaxSize
  PROVE  Mixed(s, seed) \in Seq(S) /\ Same(Mixed(s, seed), s)
<1> DEFINE m == Mixing(s, seed)
           T == {j \in Nat : j <= Len(s) => m[j] \in Seq(S) /\ Same(m[j], s)}
<1>1. 0 \in T
  BY MixingDef DEF Same
<1>2. ASSUME NEW j \in Nat, j \in T PROVE j + 1 \in T
  <2> SUFFICES ASSUME j + 1 <= Len(s) PROVE m[j + 1] \in Seq(S) /\ Same(m[j + 1], s)
    OBVIOUS
  <2> DEFINE k == Len(s) - j
             r == (Rand[seed][k] % k) + 1
  <2>0. Len(s) \in Nat
    BY LenProperties
  <2>1. m[j] \in Seq(S) /\ Same(m[j], s)
    BY <1>2, <2>0
  <2>2. m[j + 1] = Swap(m[j], k, r)
    <3>1. j + 1 \in 1 .. Len(s) /\ (j + 1) - 1 = j /\ (Len(s) - (j + 1)) + 1 = k
      BY <2>0
    <3> QED BY <3>1, MixingDef
  <2>3. k \in 1 .. Len(s) /\ k \in 1 .. MaxSize
    BY <2>0, PlaylistAssumption
  <2>4. r \in 1 .. k
    <3>1. Rand[seed][k] \in Nat
      BY <2>3, PlaylistAssumption
    <3> HIDE DEF k
    <3>2. Rand[seed][k] % k \in 0 .. k - 1
      BY <2>3, <3>1
    <3> QED BY <2>3, <3>2
  <2>5. Swap(m[j], k, r) \in Seq(S) /\ Same(Swap(m[j], k, r), m[j])
    <3>1. k \in 1 .. Len(m[j]) /\ r \in 1 .. Len(m[j])
      BY <2>0, <2>1, <2>3, <2>4 DEF Same
    <3> HIDE DEF k, r, m
    <3> QED BY <2>1, <3>1, SwapSame
  <2> QED BY <2>1, <2>2, <2>5 DEF Same
<1>3. Len(s) \in T
  <2>1. Nat \subseteq T
    <3> HIDE DEF T
    <3> QED BY <1>1, <1>2, Induction
  <2> QED BY <2>1, LenProperties
<1> QED BY <1>3, MixingDef

-----------------------------------------------------------------------------
\* The merge sort.

\* The merge takes entry by entry.
LEMMA TakenDef ==
  ASSUME NEW S, NEW s \in Seq(S), NEW t \in Seq(S)
  PROVE  /\ Taken(s, t)[0] = 0
         /\ \A k \in 1 .. Len(s) + Len(t) :
              LET i == Taken(s, t)[k - 1]
                  j == (k - 1) - i
              IN  Taken(s, t)[k] =
                    IF i < Len(s) /\ (j < Len(t) => ~Behind(s[i + 1], t[j + 1])) THEN i + 1 ELSE i
<1> DEFINE N == Len(s) + Len(t)
           Step(i, k) == LET j == (k - 1) - i IN
             IF i < Len(s) /\ (j < Len(t) => ~Behind(s[i + 1], t[j + 1])) THEN i + 1 ELSE i
           Is(g, n) == g = [k \in 0 .. n |-> IF k = 0 THEN 0 ELSE Step(g[k - 1], k)]
           T == {n \in Nat : \E g : Is(g, n)}
<1>N. N \in Nat
  BY LenProperties
<1>D. Taken(s, t) = CHOOSE g : Is(g, N)
  BY DEF Taken
<1>S. \A i, k : Step(i, k) = LET j == (k - 1) - i IN
        IF i < Len(s) /\ (j < Len(t) => ~Behind(s[i + 1], t[j + 1])) THEN i + 1 ELSE i
  OBVIOUS
<1> HIDE DEF N, Step
<1>1. 0 \in T
  <2>1. Is([k \in 0 .. 0 |-> 0], 0)
    OBVIOUS
  <2> QED BY <2>1
<1>2. ASSUME NEW n \in Nat, n \in T PROVE n + 1 \in T
  <2>1. PICK g : Is(g, n)
    BY <1>2
  <2> DEFINE h == [k \in 0 .. n + 1 |-> IF k = n + 1 THEN Step(g[n], n + 1) ELSE g[k]]
  <2>2. Is(h, n + 1)
    <3>1. ASSUME NEW k \in 0 .. n + 1 PROVE h[k] = IF k = 0 THEN 0 ELSE Step(h[k - 1], k)
      <4>1. CASE k = n + 1
        <5>1. h[n] = g[n]
          OBVIOUS
        <5> QED BY <4>1, <5>1
      <4>2. CASE k # n + 1 /\ k # 0
        <5>1. h[k] = g[k] /\ h[k - 1] = g[k - 1]
          BY <4>2
        <5>2. g[k] = Step(g[k - 1], k)
          BY <2>1, <4>2
        <5> QED BY <5>1, <5>2, <4>2
      <4>3. CASE k = 0
        <5>1. g[0] = 0
          BY <2>1
        <5> QED BY <4>3, <5>1
      <4> QED BY <4>1, <4>2, <4>3
    <3> QED BY <3>1
  <2> HIDE DEF h, Is
  <2>3. \E f : Is(f, n + 1)
    BY <2>2
  <2> QED BY <2>3
<1>3. \E g : Is(g, N)
  <2>1. Nat \subseteq T
    <3> HIDE DEF T
    <3> QED BY <1>1, <1>2, Induction
  <2> QED BY <2>1, <1>N
<1>4. Is(Taken(s, t), N)
  <2> HIDE DEF Is
  <2> QED BY <1>3, <1>D
<1>5. Taken(s, t)[0] = 0 /\ \A k \in 1 .. N : Taken(s, t)[k] = Step(Taken(s, t)[k - 1], k)
  BY <1>4, <1>N
<1> QED BY <1>5, <1>S DEF N

\* Of the first k entries of a merge none is taken that is not there.
LEMMA TakenRange ==
  ASSUME NEW S, NEW s \in Seq(S), NEW t \in Seq(S), NEW k \in 0 .. Len(s) + Len(t)
  PROVE  Taken(s, t)[k] \in 0 .. Len(s) /\ k - Taken(s, t)[k] \in 0 .. Len(t)
<1> DEFINE F == Taken(s, t)
           In(n) == F[n] \in 0 .. Len(s) /\ n - F[n] \in 0 .. Len(t)
           T == {n \in Nat : n <= Len(s) + Len(t) => In(n)}
<1>0. Len(s) \in Nat /\ Len(t) \in Nat
  BY LenProperties
<1>1. 0 \in T
  BY <1>0, TakenDef
<1>2. ASSUME NEW n \in Nat, n \in T PROVE n + 1 \in T
  <2> SUFFICES ASSUME n + 1 <= Len(s) + Len(t) PROVE In(n + 1)
    OBVIOUS
  <2>1. In(n)
    BY <1>0, <1>2
  <2>2. n + 1 \in 1 .. Len(s) + Len(t) /\ (n + 1) - 1 = n
    BY <1>0
  <2>3. \/ F[n + 1] = F[n] + 1 /\ F[n] < Len(s)
        \/ F[n + 1] = F[n] /\ (F[n] < Len(s) => n - F[n] < Len(t))
    BY <2>2, TakenDef
  <2> HIDE DEF F
  <2> QED BY <2>1, <2>3, <1>0, SMTT(40)
<1>3. k \in T
  <2>1. Nat \subseteq T
    <3> HIDE DEF T
    <3> QED BY <1>1, <1>2, Induction
  <2> QED BY <2>1, <1>0
<1> QED BY <1>0, <1>3

\* Each step takes an entry of one of the two, the next one.
LEMMA TakenStep ==
  ASSUME NEW S, NEW s \in Seq(S), NEW t \in Seq(S), NEW k \in 1 .. Len(s) + Len(t)
  PROVE  /\ Taken(s, t)[k] \in Int /\ Taken(s, t)[k - 1] \in Int
         /\ Taken(s, t)[k] = Taken(s, t)[k - 1] + 1 \/ Taken(s, t)[k] = Taken(s, t)[k - 1]
<1>0. Len(s) \in Nat /\ Len(t) \in Nat
  BY LenProperties
<1>1. Taken(s, t)[k] \in Int /\ Taken(s, t)[k - 1] \in Int
  BY <1>0, TakenRange
<1> QED BY <1>1, TakenDef

\* No entry of either is left out.
LEMMA TakenAll ==
  ASSUME NEW S, NEW s \in Seq(S), NEW t \in Seq(S)
  PROVE  LET F == Taken(s, t) IN
         /\ \A a \in 1 .. Len(s) : \E k \in 1 .. Len(s) + Len(t) : F[k] = a /\ F[k - 1] = a - 1
         /\ \A b \in 1 .. Len(t) : \E k \in 1 .. Len(s) + Len(t) : k - F[k] = b /\ F[k] = F[k - 1]
<1> DEFINE F == Taken(s, t)
           N == Len(s) + Len(t)
<1>0. Len(s) \in Nat /\ Len(t) \in Nat /\ N \in Nat
  BY LenProperties
<1>1. \A k \in 0 .. N : F[k] \in 0 .. Len(s) /\ k - F[k] \in 0 .. Len(t)
  BY TakenRange
<1>2. \A k \in 1 .. N : F[k] = F[k - 1] + 1 \/ F[k] = F[k - 1]
  BY TakenStep
<1> HIDE DEF F, N
<1>3. F[0] = 0 /\ F[N] = Len(s)
  BY <1>0, <1>1 DEF N
<1>4. ASSUME NEW a \in 1 .. Len(s) PROVE \E k \in 1 .. N : F[k] = a /\ F[k - 1] = a - 1
  <2> DEFINE T == {k \in 0 .. N : F[k] >= a}
  <2>1. N \in T
    BY <1>0, <1>3
  <2>2. PICK k \in T : \A l \in T : k <= l
    <3>1. T \in SUBSET Nat /\ T # {}
      BY <2>1
    <3> HIDE DEF T
    <3> QED BY <3>1, Least
  <2>3. k \in 1 .. N
    BY <1>0, <1>3
  <2>4. k - 1 \in 0 .. N /\ k - 1 \notin T
    BY <1>0, <2>2, <2>3
  <2>5. F[k] \in Int /\ F[k - 1] \in Int /\ F[k] >= a /\ F[k - 1] < a
    BY <1>0, <1>1, <2>3, <2>4
  <2> HIDE DEF T
  <2>6. F[k] = a /\ F[k - 1] = a - 1
    <3>1. F[k] = F[k - 1] + 1 \/ F[k] = F[k - 1]
      BY <1>2, <2>3
    <3> QED BY <2>5, <3>1
  <2> QED BY <2>3, <2>6
<1>5. ASSUME NEW b \in 1 .. Len(t) PROVE \E k \in 1 .. N : k - F[k] = b /\ F[k] = F[k - 1]
  <2> DEFINE T == {k \in 0 .. N : k - F[k] >= b}
  <2>1. N \in T
    BY <1>0, <1>3 DEF N
  <2>2. PICK k \in T : \A l \in T : k <= l
    <3>1. T \in SUBSET Nat /\ T # {}
      BY <2>1
    <3> HIDE DEF T
    <3> QED BY <3>1, Least
  <2>3. k \in 1 .. N
    BY <1>0, <1>3
  <2>4. k - 1 \in 0 .. N /\ k - 1 \notin T
    BY <1>0, <2>2, <2>3
  <2>5. F[k] \in Int /\ F[k - 1] \in Int /\ k - F[k] >= b /\ (k - 1) - F[k - 1] < b
    BY <1>0, <1>1, <2>3, <2>4
  <2> HIDE DEF T
  <2>6. k - F[k] = b /\ F[k] = F[k - 1]
    <3>1. F[k] = F[k - 1] + 1 \/ F[k] = F[k - 1]
      BY <1>2, <2>3
    <3>2. k \in Int /\ b \in Int
      BY <1>0, <2>3
    <3> QED BY <2>5, <3>1, <3>2, SMTT(40)
  <2> QED BY <2>3, <2>6
<1> QED BY <1>4, <1>5 DEF F, N

\* A merge keeps the entries of both sides.
LEMMA MergeSame ==
  ASSUME NEW S, NEW s \in Seq(S), NEW t \in Seq(S)
  PROVE  /\ Merge(s, t) \in Seq(S) /\ Len(Merge(s, t)) = Len(s) + Len(t)
         /\ ToSet(Merge(s, t)) = ToSet(s) \cup ToSet(t)
<1> DEFINE F == Taken(s, t)
           N == Len(s) + Len(t)
           w == Merge(s, t)
<1>0. Len(s) \in Nat /\ Len(t) \in Nat /\ N \in Nat
  BY LenProperties
<1>1. \A k \in 1 .. N : w[k] = IF F[k] > F[k - 1] THEN s[F[k]] ELSE t[k - F[k]]
  BY DEF Merge
<1>2. \A k \in 0 .. N : F[k] \in 0 .. Len(s) /\ k - F[k] \in 0 .. Len(t)
  BY TakenRange
<1>3. \A k \in 1 .. N : F[k] = F[k - 1] + 1 \/ F[k] = F[k - 1]
  BY TakenStep
<1>4. /\ \A a \in 1 .. Len(s) : \E k \in 1 .. N : F[k] = a /\ F[k - 1] = a - 1
      /\ \A b \in 1 .. Len(t) : \E k \in 1 .. N : k - F[k] = b /\ F[k] = F[k - 1]
  BY TakenAll
<1>5. DOMAIN w = 1 .. N /\ w = [k \in 1 .. N |-> w[k]]
  BY DEF Merge
<1>6. ToSet(s) = {s[i] : i \in 1 .. Len(s)} /\ ToSet(t) = {t[i] : i \in 1 .. Len(t)}
  BY ToSetOf
<1>7. ToSet(w) = {w[k] : k \in 1 .. N}
  BY <1>5 DEF ToSet
<1> HIDE DEF F, N, w
<1>8. ASSUME NEW k \in 1 .. N PROVE w[k] \in ToSet(s) \cup ToSet(t)
  <2>0. k \in 0 .. N /\ k - 1 \in 0 .. N
    BY <1>0
  <2>1. F[k] \in 0 .. Len(s) /\ k - F[k] \in 0 .. Len(t) /\ F[k - 1] \in 0 .. Len(s) /\ (k - 1) - F[k - 1] \in 0 .. Len(t)
    BY <1>2, <2>0
  <2>2. CASE F[k] = F[k - 1] + 1
    <3>1. F[k] \in 1 .. Len(s) /\ F[k] > F[k - 1]
      BY <1>0, <2>1, <2>2
    <3> QED BY <1>1, <1>6, <3>1
  <2>3. CASE F[k] = F[k - 1]
    <3>1. k - F[k] \in 1 .. Len(t) /\ ~ (F[k] > F[k - 1])
      BY <1>0, <2>1, <2>3
    <3> QED BY <1>1, <1>6, <3>1
  <2> QED BY <1>3, <2>2, <2>3
<1>9. ASSUME NEW a \in 1 .. Len(s) PROVE s[a] \in ToSet(w)
  <2>1. PICK k \in 1 .. N : F[k] = a /\ F[k - 1] = a - 1
    BY <1>4
  <2>2. F[k] > F[k - 1]
    BY <2>1
  <2> QED BY <1>1, <1>7, <2>1, <2>2
<1>10. ASSUME NEW b \in 1 .. Len(t) PROVE t[b] \in ToSet(w)
  <2>1. PICK k \in 1 .. N : k - F[k] = b /\ F[k] = F[k - 1]
    BY <1>4
  <2>2. ~ (F[k] > F[k - 1])
    <3>1. F[k] \in Int
      BY <1>0, <1>2
    <3> QED BY <2>1, <3>1
  <2> QED BY <1>1, <1>7, <2>1, <2>2
<1>11. ToSet(w) = ToSet(s) \cup ToSet(t)
  BY <1>6, <1>7, <1>8, <1>9, <1>10
<1>12. ToSet(s) \subseteq S /\ ToSet(t) \subseteq S
  BY ToSetOf
<1>13. w \in [1 .. N -> S]
  BY <1>5, <1>8, <1>12
<1>14. w \in Seq(S) /\ Len(w) = N
  BY <1>0, <1>13, FunSeq
<1> QED BY <1>11, <1>14 DEF w, N

Parts(s) ==
  CHOOSE part : part = [n \in 0 .. Len(s) |->
    [lo \in Nat |-> IF n < 2 THEN SubSeq(s, lo, (lo + n) - 1)
                    ELSE Merge(part[n \div 2][lo], part[n - (n \div 2)][lo + (n \div 2)])]]

\* Both halves are shorter than the whole.
LEMMA HalfOf ==
  ASSUME NEW n \in Nat, n >= 2
  PROVE  n \div 2 \in 1 .. n - 1 /\ n - (n \div 2) \in 1 .. n - 1
OBVIOUS

\* The merge sort goes by the length of the part.
LEMMA PartsDef ==
  ASSUME NEW S, NEW s \in Seq(S)
  PROVE  /\ Sorted(s) = Parts(s)[Len(s)][1]
         /\ \A n \in 0 .. Len(s), lo \in Nat :
              Parts(s)[n][lo] =
                IF n < 2 THEN SubSeq(s, lo, (lo + n) - 1)
                ELSE Merge(Parts(s)[n \div 2][lo], Parts(s)[n - (n \div 2)][lo + (n \div 2)])
<1> DEFINE N == Len(s)
           Step(u, v, n) ==
             [lo \in Nat |-> IF n < 2 THEN SubSeq(s, lo, (lo + n) - 1) ELSE Merge(u[lo], v[lo + (n \div 2)])]
           Is(g, m) == g = [n \in 0 .. m |-> Step(g[n \div 2], g[n - (n \div 2)], n)]
           T == {m \in Nat : \E g : Is(g, m)}
<1>N. N \in Nat
  BY LenProperties
<1>D. Parts(s) = CHOOSE g : Is(g, N)
  BY DEF Parts
<1>S. Sorted(s) = Parts(s)[Len(s)][1]
  BY DEF Sorted, Parts
<1>L. \A u, v, u2, v2, n : n < 2 => Step(u, v, n) = Step(u2, v2, n)
  OBVIOUS
<1> HIDE DEF N, Step
<1>1. 0 \in T
  <2> DEFINE g == [k \in 0 .. 0 |-> Step(0, 0, 0)]
  <2>1. Is(g, 0)
    <3>1. \A n \in 0 .. 0 : g[n] = Step(g[n \div 2], g[n - (n \div 2)], n)
      BY <1>L
    <3> QED BY <3>1
  <2> HIDE DEF g, Is
  <2>2. \E f : Is(f, 0)
    BY <2>1
  <2> QED BY <2>2
<1>2. ASSUME NEW m \in Nat, m \in T PROVE m + 1 \in T
  <2>1. PICK g : Is(g, m)
    BY <1>2
  <2> DEFINE h == [n \in 0 .. m + 1 |-> IF n = m + 1 THEN Step(g[n \div 2], g[n - (n \div 2)], n) ELSE g[n]]
  <2>2. Is(h, m + 1)
    <3>1. ASSUME NEW n \in 0 .. m + 1 PROVE h[n] = Step(h[n \div 2], h[n - (n \div 2)], n)
      <4>1. h[n] = Step(g[n \div 2], g[n - (n \div 2)], n)
        <5>1. CASE n = m + 1
          BY <5>1
        <5>2. CASE n # m + 1
          BY <2>1, <5>2
        <5> QED BY <5>1, <5>2
      <4>2. CASE n < 2
        BY <4>1, <4>2, <1>L
      <4>3. CASE n >= 2
        <5>1. n \div 2 \in 0 .. m /\ n - (n \div 2) \in 0 .. m
          BY <4>3, HalfOf
        <5>2. h[n \div 2] = g[n \div 2] /\ h[n - (n \div 2)] = g[n - (n \div 2)]
          BY <5>1
        <5> HIDE DEF h
        <5> QED BY <4>1, <5>2
      <4> QED BY <4>2, <4>3
    <3> QED BY <3>1
  <2> HIDE DEF h, Is
  <2>3. \E f : Is(f, m + 1)
    BY <2>2
  <2> QED BY <2>3
<1>3. \E g : Is(g, N)
  <2>1. Nat \subseteq T
    <3> HIDE DEF T
    <3> QED BY <1>1, <1>2, Induction
  <2> QED BY <2>1, <1>N
<1>4. Is(Parts(s), N)
  <2> HIDE DEF Is
  <2> QED BY <1>3, <1>D
<1>5. \A n \in 0 .. N : Parts(s)[n] = Step(Parts(s)[n \div 2], Parts(s)[n - (n \div 2)], n)
  BY <1>4, <1>N
<1>6. ASSUME NEW n \in 0 .. N, NEW lo \in Nat
      PROVE  Parts(s)[n][lo] =
               IF n < 2 THEN SubSeq(s, lo, (lo + n) - 1)
               ELSE Merge(Parts(s)[n \div 2][lo], Parts(s)[n - (n \div 2)][lo + (n \div 2)])
  <2> DEFINE u == Parts(s)[n \div 2]
             v == Parts(s)[n - (n \div 2)]
  <2>1. Parts(s)[n] = Step(u, v, n)
    BY <1>5
  <2> HIDE DEF u, v
  <2>2. Step(u, v, n)[lo] =
          IF n < 2 THEN SubSeq(s, lo, (lo + n) - 1) ELSE Merge(u[lo], v[lo + (n \div 2)])
    BY DEF Step
  <2> QED BY <2>1, <2>2 DEF u, v
<1> QED BY <1>6, <1>S DEF N

\* qsort() keeps the entries, whatever the comparison says.
LEMMA SortedSame ==
  ASSUME NEW S, NEW s \in Seq(S)
  PROVE  Sorted(s) \in Seq(S) /\ Same(Sorted(s), s)
<1> DEFINE P == Parts(s)
           Good(n, lo) == /\ P[n][lo] \in Seq(S) /\ Len(P[n][lo]) = n
                          /\ ToSet(P[n][lo]) = {s[i] : i \in lo .. (lo + n) - 1}
           All(n) == \A lo \in Nat : 1 <= lo /\ (lo + n) - 1 <= Len(s) => Good(n, lo)
           T == {m \in Nat : \A n \in 0 .. m : n <= Len(s) => All(n)}
<1>0. Len(s) \in Nat /\ \A i \in 1 .. Len(s) : s[i] \in S
  BY LenProperties, ElementOfSeq
<1>1. ASSUME NEW n \in Nat, n <= Len(s), n < 2 PROVE All(n)
  <2> SUFFICES ASSUME NEW lo \in Nat, 1 <= lo, (lo + n) - 1 <= Len(s) PROVE Good(n, lo)
    OBVIOUS
  <2> DEFINE u == SubSeq(s, lo, (lo + n) - 1)
  <2>1. P[n][lo] = u
    <3>1. n \in 0 .. Len(s)
      BY <1>0, <1>1
    <3> QED BY <1>1, <3>1, PartsDef
  <2>2. \A i \in lo .. (lo + n) - 1 : s[i] \in S
    BY <1>0
  <2>3. /\ u \in Seq(S)
        /\ Len(u) = IF lo <= (lo + n) - 1 THEN (((lo + n) - 1) - lo) + 1 ELSE 0
        /\ \A i \in 1 .. (((lo + n) - 1) - lo) + 1 : u[i] = s[(lo + i) - 1]
    BY <2>2, SubSeqProperties
  <2>4. Len(u) = n /\ \A i \in 1 .. n : u[i] = s[(lo + i) - 1]
    BY <2>3
  <2> HIDE DEF u
  <2>5. ToSet(u) = {u[i] : i \in 1 .. n}
    <3>1. u \in Seq(S)
      BY <2>3
    <3>2. ToSet(u) = {u[i] : i \in 1 .. Len(u)}
      BY <3>1, ToSetOf
    <3> QED BY <3>2, <2>4
  <2>6. ToSet(u) = {s[i] : i \in lo .. (lo + n) - 1}
    <3>1. ASSUME NEW i \in 1 .. n PROVE u[i] \in {s[l] : l \in lo .. (lo + n) - 1}
      <4>1. (lo + i) - 1 \in lo .. (lo + n) - 1
        OBVIOUS
      <4>2. u[i] = s[(lo + i) - 1]
        BY <2>4
      <4> QED BY <4>1, <4>2
    <3>2. ASSUME NEW i \in lo .. (lo + n) - 1 PROVE s[i] \in {u[l] : l \in 1 .. n}
      <4>1. (i - lo) + 1 \in 1 .. n /\ (lo + ((i - lo) + 1)) - 1 = i
        OBVIOUS
      <4>2. u[(i - lo) + 1] = s[i]
        BY <2>4, <4>1
      <4> QED BY <4>1, <4>2
    <3> QED BY <2>5, <3>1, <3>2
  <2> QED BY <2>1, <2>3, <2>4, <2>6
<1>2. ASSUME NEW n \in Nat, n <= Len(s), n >= 2, \A m \in 0 .. n - 1 : All(m) PROVE All(n)
  <2> SUFFICES ASSUME NEW lo \in Nat, 1 <= lo, (lo + n) - 1 <= Len(s) PROVE Good(n, lo)
    OBVIOUS
  <2> DEFINE a == n \div 2
             b == n - a
  <2>1. a \in 1 .. n - 1 /\ b \in 1 .. n - 1
    BY <1>2, HalfOf
  <2>2. P[n][lo] = Merge(P[a][lo], P[b][lo + a])
    <3>1. n \in 0 .. Len(s) /\ ~ (n < 2)
      BY <1>0, <1>2
    <3> QED BY <3>1, PartsDef
  <2>3. n = a + b
    BY <2>1
  <2>4. Good(a, lo) /\ Good(b, lo + a)
    <3> HIDE DEF a, b, Good
    <3>1. All(a) /\ All(b)
      BY <1>2, <1>0, <2>1
    <3>2. lo \in Nat /\ 1 <= lo /\ (lo + a) - 1 <= Len(s)
      BY <1>0, <2>1, <2>3
    <3>3. lo + a \in Nat /\ 1 <= lo + a /\ ((lo + a) + b) - 1 <= Len(s)
      BY <1>0, <2>1, <2>3
    <3> QED BY <3>1, <3>2, <3>3
  <2> DEFINE u == P[a][lo]
             v == P[b][lo + a]
  <2>5. /\ u \in Seq(S) /\ Len(u) = a /\ ToSet(u) = {s[i] : i \in lo .. (lo + a) - 1}
        /\ v \in Seq(S) /\ Len(v) = b /\ ToSet(v) = {s[i] : i \in lo + a .. ((lo + a) + b) - 1}
        /\ P[n][lo] = Merge(u, v)
    BY <2>2, <2>4
  <2> HIDE DEF u, v
  <2>6. /\ P[n][lo] \in Seq(S) /\ Len(P[n][lo]) = a + b
        /\ ToSet(P[n][lo]) = ToSet(u) \cup ToSet(v)
    <3>1. u \in Seq(S) /\ v \in Seq(S)
      BY <2>5
    <3> HIDE DEF P, Good, All, T, a, b
    <3>2. /\ Merge(u, v) \in Seq(S) /\ Len(Merge(u, v)) = Len(u) + Len(v)
          /\ ToSet(Merge(u, v)) = ToSet(u) \cup ToSet(v)
      BY <3>1, MergeSame
    <3> QED BY <2>5, <3>2
  <2> HIDE DEF P, a, b
  <2>7. {s[i] : i \in lo .. (lo + n) - 1}
          = {s[i] : i \in lo .. (lo + a) - 1} \cup {s[i] : i \in lo + a .. ((lo + a) + b) - 1}
    BY <2>1, <2>3
  <2> QED BY <2>3, <2>5, <2>6, <2>7
<1> HIDE DEF All
<1>3. 0 \in T
  BY <1>1
<1>4. ASSUME NEW m \in Nat, m \in T PROVE m + 1 \in T
  <2> SUFFICES ASSUME m + 1 <= Len(s) PROVE All(m + 1)
    BY <1>4
  <2>1. CASE m + 1 < 2
    BY <1>1, <2>1
  <2>2. CASE m + 1 >= 2
    <3>1. \A n \in 0 .. (m + 1) - 1 : All(n)
      BY <1>0, <1>4
    <3> QED BY <1>2, <2>2, <3>1
  <2> QED BY <2>1, <2>2
<1>5. All(Len(s))
  <2>1. Nat \subseteq T
    <3> HIDE DEF T
    <3> QED BY <1>3, <1>4, Induction
  <2> QED BY <2>1, <1>0
<1>6. Good(Len(s), 1)
  <2> HIDE DEF Good
  <2> QED BY <1>5, <1>0 DEF All
<1>7. ToSet(s) = {s[i] : i \in 1 .. Len(s)}
  BY ToSetOf
<1> HIDE DEF P
<1>8. P[Len(s)][1] \in Seq(S) /\ Len(P[Len(s)][1]) = Len(s) /\ ToSet(P[Len(s)][1]) = ToSet(s)
  BY <1>6, <1>7, <1>0
<1> QED BY <1>8, PartsDef DEF Same, P

-----------------------------------------------------------------------------
\* Types.

Names == ToSet(Files) \cup Track

Entry == [kind : {"list", "insert"}, queued : BOOLEAN, seek : Nat, track : Names]

Command ==
  [op : {"A", "Q"}, pos : Int, last : Int, track : Names]
  \cup [op : {"D"}, pos : Nat] \cup [op : {"S"}, seed : Seeds, first : Nat]
  \cup [op : {"U"}, first : {0}] \cup [op : {"R"}]

\* The entries that name a track when the first k commands of c have been written.
Named(c, k, listed) ==
  {e \in Entry :
     IF e.kind = "list" THEN listed /\ \E i \in DOMAIN Files : e = ListEntry(i)
     ELSE e.seek \in 1 .. k /\ c[e.seek].op = (IF e.queued THEN "Q" ELSE "A")
          /\ c[e.seek].track = e.track}

Lists(E) == [idx : Seq(E), index : Int, first : Int, last : Int, started : BOOLEAN]

InRange(p) ==
  Amount(p) <= MaxSize /\ p.first \in 0 .. Amount(p) /\ p.last \in -1 .. Amount(p)

\* What the loop of playlist_resume() has after k commands, when all is well.
Whole(c, k, listed, s) ==
  /\ s \in [pl : Lists(Named(c, k, listed)), sorted : BOOLEAN, line : Nat]
  /\ s.line = k /\ s.pl.started /\ InRange(s.pl)

\* Whatever part of the control file a crash leaves, the resume gets a whole list.
Sound(c, listed) == \A k \in 0 .. Len(c) : Whole(c, k, listed, After(c, listed)[k])

-----------------------------------------------------------------------------
\* The resume.

\* The loop of playlist_resume() goes command by command.
LEMMA AfterDef ==
  ASSUME NEW S, NEW c \in Seq(S), NEW listed
  PROVE  /\ Replay(c, listed) = After(c, listed)[Len(c)]
         /\ After(c, listed)[0] = Begin(listed)
         /\ \A k \in 1 .. Len(c) : After(c, listed)[k] = Redo(After(c, listed)[k - 1], c[k])
<1> DEFINE N == Len(c)
           F == Begin(listed)
           Step(v, k) == Redo(v, c[k])
           Is(g, n) == g = [k \in 0 .. n |-> IF k = 0 THEN F ELSE Step(g[k - 1], k)]
           T == {n \in Nat : \E g : Is(g, n)}
<1>N. N \in Nat
  BY LenProperties
<1>D. After(c, listed) = CHOOSE g : Is(g, N)
  BY DEF After
<1>S. Replay(c, listed) = After(c, listed)[Len(c)]
  BY DEF Replay
<1>U. \A v, k : Step(v, k) = Redo(v, c[k])
  OBVIOUS
<1> HIDE DEF N, Step, F
<1>1. 0 \in T
  <2>1. Is([k \in 0 .. 0 |-> F], 0)
    OBVIOUS
  <2> QED BY <2>1
<1>2. ASSUME NEW n \in Nat, n \in T PROVE n + 1 \in T
  <2>1. PICK g : Is(g, n)
    BY <1>2
  <2> DEFINE h == [k \in 0 .. n + 1 |-> IF k = n + 1 THEN Step(g[n], n + 1) ELSE g[k]]
  <2>2. Is(h, n + 1)
    <3>1. ASSUME NEW k \in 0 .. n + 1 PROVE h[k] = IF k = 0 THEN F ELSE Step(h[k - 1], k)
      <4>1. CASE k = n + 1
        <5>1. h[n] = g[n]
          OBVIOUS
        <5> QED BY <4>1, <5>1
      <4>2. CASE k # n + 1 /\ k # 0
        <5>1. h[k] = g[k] /\ h[k - 1] = g[k - 1]
          BY <4>2
        <5>2. g[k] = Step(g[k - 1], k)
          BY <2>1, <4>2
        <5> QED BY <5>1, <5>2, <4>2
      <4>3. CASE k = 0
        <5>1. g[0] = F
          BY <2>1
        <5> QED BY <4>3, <5>1
      <4> QED BY <4>1, <4>2, <4>3
    <3> QED BY <3>1
  <2> HIDE DEF h, Is
  <2>3. \E f : Is(f, n + 1)
    BY <2>2
  <2> QED BY <2>3
<1>3. \E g : Is(g, N)
  <2>1. Nat \subseteq T
    <3> HIDE DEF T
    <3> QED BY <1>1, <1>2, Induction
  <2> QED BY <2>1, <1>N
<1>4. Is(After(c, listed), N)
  <2> HIDE DEF Is
  <2> QED BY <1>3, <1>D
<1>5. After(c, listed)[0] = F /\ \A k \in 1 .. N : After(c, listed)[k] = Step(After(c, listed)[k - 1], k)
  BY <1>4, <1>N
<1> QED BY <1>5, <1>S, <1>U DEF N, F

\* The same commands give the same list.
LEMMA AfterPrefix ==
  ASSUME NEW S, NEW c \in Seq(S), NEW d \in Seq(S), NEW listed, NEW m \in Nat,
         m <= Len(c), m <= Len(d), \A i \in 1 .. m : c[i] = d[i]
  PROVE  \A k \in 0 .. m : After(c, listed)[k] = After(d, listed)[k]
<1> DEFINE A == After(c, listed)
           B == After(d, listed)
           T == {k \in Nat : k <= m => A[k] = B[k]}
<1>0. Len(c) \in Nat /\ Len(d) \in Nat
  BY LenProperties
<1>1. 0 \in T
  BY AfterDef
<1>2. ASSUME NEW k \in Nat, k \in T PROVE k + 1 \in T
  <2> SUFFICES ASSUME k + 1 <= m PROVE A[k + 1] = B[k + 1]
    OBVIOUS
  <2>1. A[k] = B[k]
    BY <1>2
  <2>2. k + 1 \in 1 .. Len(c) /\ k + 1 \in 1 .. Len(d) /\ (k + 1) - 1 = k /\ c[k + 1] = d[k + 1]
    BY <1>0
  <2>3. A[k + 1] = Redo(A[k], c[k + 1]) /\ B[k + 1] = Redo(B[k], d[k + 1])
    BY <2>2, AfterDef
  <2> QED BY <2>1, <2>2, <2>3
<1> QED
  <2>1. Nat \subseteq T
    <3> HIDE DEF T
    <3> QED BY <1>1, <1>2, Induction
  <2> QED BY <2>1

\* Carrying out one command more.
LEMMA ReplayAppend ==
  ASSUME NEW S, NEW c \in Seq(S), NEW x \in S, NEW listed
  PROVE  /\ Replay(Append(c, x), listed) = Redo(Replay(c, listed), x)
         /\ After(Append(c, x), listed)[Len(c) + 1] = Redo(Replay(c, listed), x)
         /\ \A k \in 0 .. Len(c) : After(Append(c, x), listed)[k] = After(c, listed)[k]
<1> DEFINE d == Append(c, x)
<1>1. /\ d \in Seq(S) /\ Len(d) = Len(c) + 1 /\ Len(c) \in Nat
      /\ \A i \in 1 .. Len(c) : d[i] = c[i]
      /\ d[Len(c) + 1] = x
  BY AppendProperties, LenProperties
<1> HIDE DEF d
<1>2. \A k \in 0 .. Len(c) : After(d, listed)[k] = After(c, listed)[k]
  BY <1>1, AfterPrefix
<1>3. After(d, listed)[Len(c) + 1] = Redo(After(d, listed)[Len(c)], x)
  <2>1. Len(c) + 1 \in 1 .. Len(d) /\ (Len(c) + 1) - 1 = Len(c)
    BY <1>1
  <2> QED BY <1>1, <2>1, AfterDef
<1>4. Replay(d, listed) = After(d, listed)[Len(c) + 1] /\ Replay(c, listed) = After(c, listed)[Len(c)]
  BY <1>1, AfterDef
<1> QED BY <1>1, <1>2, <1>3, <1>4 DEF d

\* Only the commands read so far matter.
LEMMA WholeSame ==
  ASSUME NEW c \in Seq(Command), NEW d \in Seq(Command), NEW k \in Nat,
         \A i \in 1 .. k : c[i] = d[i], NEW listed, NEW s
  PROVE  Whole(c, k, listed, s) <=> Whole(d, k, listed, s)
<1>1. Named(c, k, listed) = Named(d, k, listed)
  BY DEF Named
<1> QED BY <1>1 DEF Whole

\* A control file stays sound when one more command can be carried out.
LEMMA SoundAppend ==
  ASSUME NEW c \in Seq(Command), NEW x \in Command, NEW listed, Sound(c, listed),
         Whole(Append(c, x), Len(c) + 1, listed, Redo(Replay(c, listed), x))
  PROVE  Sound(Append(c, x), listed)
<1> DEFINE d == Append(c, x)
<1>1. /\ d \in Seq(Command) /\ Len(d) = Len(c) + 1 /\ Len(c) \in Nat
      /\ \A i \in 1 .. Len(c) : d[i] = c[i]
  BY AppendProperties, LenProperties
<1>2. /\ After(d, listed)[Len(c) + 1] = Redo(Replay(c, listed), x)
      /\ \A k \in 0 .. Len(c) : After(d, listed)[k] = After(c, listed)[k]
  BY ReplayAppend
<1> HIDE DEF d
<1>3. ASSUME NEW k \in 0 .. Len(d) PROVE Whole(d, k, listed, After(d, listed)[k])
  <2>1. CASE k = Len(c) + 1
    BY <1>2, <2>1 DEF d
  <2>2. CASE k \in 0 .. Len(c)
    <3>1. Whole(c, k, listed, After(c, listed)[k])
      BY <2>2 DEF Sound
    <3>2. k \in Nat /\ \A i \in 1 .. k : d[i] = c[i]
      BY <1>1, <2>2
    <3>3. Whole(d, k, listed, After(c, listed)[k])
      BY <1>1, <3>1, <3>2, WholeSame
    <3> QED BY <1>2, <2>2, <3>3
  <2> QED BY <1>1, <2>1, <2>2
<1> QED BY <1>3 DEF Sound, d

\* What a crash leaves of a sound control file is sound.
LEMMA SoundPrefix ==
  ASSUME NEW c \in Seq(Command), NEW listed, Sound(c, listed), NEW m \in 0 .. Len(c)
  PROVE  SubSeq(c, 1, m) \in Seq(Command) /\ Len(SubSeq(c, 1, m)) = m /\ Sound(SubSeq(c, 1, m), listed)
<1> DEFINE d == SubSeq(c, 1, m)
<1>0. Len(c) \in Nat /\ \A i \in 1 .. Len(c) : c[i] \in Command
  BY LenProperties, ElementOfSeq
<1>1. d \in Seq(Command) /\ Len(d) = m /\ \A i \in 1 .. m : d[i] = c[i]
  <2>1. \A i \in 1 .. m : c[i] \in Command
    BY <1>0
  <2>2. /\ d \in Seq(Command) /\ Len(d) = IF 1 <= m THEN (m - 1) + 1 ELSE 0
        /\ \A i \in 1 .. (m - 1) + 1 : d[i] = c[(1 + i) - 1]
    BY <2>1, SubSeqProperties
  <2> HIDE DEF d
  <2> QED BY <2>2
<1> HIDE DEF d
<1>2. \A k \in 0 .. m : After(d, listed)[k] = After(c, listed)[k]
  BY <1>0, <1>1, AfterPrefix
<1>3. ASSUME NEW k \in 0 .. m PROVE Whole(d, k, listed, After(d, listed)[k])
  <2>1. Whole(c, k, listed, After(c, listed)[k])
    BY <1>0 DEF Sound
  <2>2. k \in Nat /\ \A i \in 1 .. k : d[i] = c[i]
    BY <1>1
  <2>3. Whole(d, k, listed, After(c, listed)[k])
    BY <1>1, <2>1, <2>2, WholeSame
  <2> QED BY <1>2, <2>3
<1>4. Sound(d, listed)
  BY <1>1, <1>3 DEF Sound
<1> QED BY <1>1, <1>4 DEF d

-----------------------------------------------------------------------------
\* Putting in and taking out.

\* RemoveAt, place by place.
LEMMA RemoveAtProps ==
  ASSUME NEW S, NEW s \in Seq(S), NEW i \in 1 .. Len(s)
  PROVE  /\ RemoveAt(s, i) \in Seq(S) /\ Len(RemoveAt(s, i)) = Len(s) - 1
         /\ \A k \in 1 .. Len(s) - 1 : RemoveAt(s, i)[k] = IF k < i THEN s[k] ELSE s[k + 1]
<1> DEFINE u == SubSeq(s, 1, i - 1)
           v == SubSeq(s, i + 1, Len(s))
<1>0. Len(s) \in Nat /\ \A k \in 1 .. Len(s) : s[k] \in S
  BY LenProperties, ElementOfSeq
<1>1. u \in Seq(S) /\ Len(u) = i - 1 /\ \A k \in 1 .. i - 1 : u[k] = s[k]
  <2>1. \A k \in 1 .. i - 1 : s[k] \in S
    BY <1>0
  <2>2. /\ u \in Seq(S) /\ Len(u) = IF 1 <= i - 1 THEN ((i - 1) - 1) + 1 ELSE 0
        /\ \A k \in 1 .. ((i - 1) - 1) + 1 : u[k] = s[(1 + k) - 1]
    BY <1>0, <2>1, SubSeqProperties
  <2> HIDE DEF u
  <2> QED BY <1>0, <2>2
<1>2. v \in Seq(S) /\ Len(v) = Len(s) - i /\ \A k \in 1 .. Len(s) - i : v[k] = s[i + k]
  <2>1. \A k \in i + 1 .. Len(s) : s[k] \in S
    BY <1>0
  <2>2. /\ v \in Seq(S) /\ Len(v) = IF i + 1 <= Len(s) THEN (Len(s) - (i + 1)) + 1 ELSE 0
        /\ \A k \in 1 .. (Len(s) - (i + 1)) + 1 : v[k] = s[((i + 1) + k) - 1]
    BY <1>0, <2>1, SubSeqProperties
  <2> HIDE DEF v
  <2> QED BY <1>0, <2>2
<1>3. RemoveAt(s, i) = u \o v
  BY DEF RemoveAt
<1> HIDE DEF u, v
<1>4. /\ u \o v \in Seq(S) /\ Len(u \o v) = Len(u) + Len(v)
      /\ \A k \in 1 .. Len(u) + Len(v) : (u \o v)[k] = IF k <= Len(u) THEN u[k] ELSE v[k - Len(u)]
  BY <1>1, <1>2, ConcatProperties
<1>5. Len(u) + Len(v) = Len(s) - 1
  BY <1>0, <1>1, <1>2
<1>6. ASSUME NEW k \in 1 .. Len(s) - 1 PROVE (u \o v)[k] = IF k < i THEN s[k] ELSE s[k + 1]
  <2>1. (u \o v)[k] = IF k <= Len(u) THEN u[k] ELSE v[k - Len(u)]
    BY <1>4, <1>5
  <2>2. CASE k < i
    BY <1>0, <1>1, <2>1, <2>2
  <2>3. CASE k >= i
    <3>1. k - Len(u) \in 1 .. Len(s) - i /\ i + (k - Len(u)) = k + 1 /\ ~ (k <= Len(u))
      BY <1>0, <1>1, <2>3
    <3>2. v[k - Len(u)] = s[k + 1]
      BY <1>2, <3>1
    <3> QED BY <2>1, <2>3, <3>1, <3>2
  <2>4. k < i \/ k >= i
    BY <1>0
  <2> QED BY <2>2, <2>3, <2>4
<1> QED BY <1>3, <1>4, <1>5, <1>6

\* What InsertAt makes of a sequence.
Put(S, s, i, e) ==
  /\ InsertAt(s, i, e) \in Seq(S) /\ Len(InsertAt(s, i, e)) = Len(s) + 1
  /\ \A k \in 1 .. Len(s) + 1 :
       InsertAt(s, i, e)[k] = IF k < i THEN s[k] ELSE IF k = i THEN e ELSE s[k - 1]

\* InsertAt puts an element where it is told.
LEMMA InsertAtPuts ==
  ASSUME NEW S, NEW s \in Seq(S), NEW i \in 1 .. Len(s) + 1, NEW e \in S
  PROVE  Put(S, s, i, e)
<1> DEFINE u == SubSeq(s, 1, i - 1)
           m == <<e>>
           v == SubSeq(s, i, Len(s))
<1>0. Len(s) \in Nat /\ \A k \in 1 .. Len(s) : s[k] \in S
  BY LenProperties, ElementOfSeq
<1>1. u \in Seq(S) /\ Len(u) = i - 1 /\ \A k \in 1 .. i - 1 : u[k] = s[k]
  <2>1. \A k \in 1 .. i - 1 : s[k] \in S
    BY <1>0
  <2>2. /\ u \in Seq(S) /\ Len(u) = IF 1 <= i - 1 THEN ((i - 1) - 1) + 1 ELSE 0
        /\ \A k \in 1 .. ((i - 1) - 1) + 1 : u[k] = s[(1 + k) - 1]
    BY <1>0, <2>1, SubSeqProperties
  <2> HIDE DEF u
  <2> QED BY <1>0, <2>2
<1>2. v \in Seq(S) /\ Len(v) = (Len(s) - i) + 1 /\ \A k \in 1 .. (Len(s) - i) + 1 : v[k] = s[(i + k) - 1]
  <2>1. \A k \in i .. Len(s) : s[k] \in S
    BY <1>0
  <2>2. /\ v \in Seq(S) /\ Len(v) = IF i <= Len(s) THEN (Len(s) - i) + 1 ELSE 0
        /\ \A k \in 1 .. (Len(s) - i) + 1 : v[k] = s[(i + k) - 1]
    BY <1>0, <2>1, SubSeqProperties
  <2> HIDE DEF v
  <2> QED BY <1>0, <2>2
<1>3. m \in Seq(S) /\ Len(m) = 1 /\ m[1] = e
  OBVIOUS
<1>4. InsertAt(s, i, e) = (u \o m) \o v
  BY DEF InsertAt
<1> HIDE DEF u, m, v
<1>5. /\ u \o m \in Seq(S) /\ Len(u \o m) = Len(u) + Len(m)
      /\ \A k \in 1 .. Len(u) + Len(m) : (u \o m)[k] = IF k <= Len(u) THEN u[k] ELSE m[k - Len(u)]
  BY <1>1, <1>3, ConcatProperties
<1> DEFINE w == u \o m
<1> HIDE DEF w
<1>6. /\ w \in Seq(S) /\ Len(w) = i
      /\ \A k \in 1 .. i : w[k] = IF k < i THEN s[k] ELSE e
  <2>1. Len(u) + Len(m) = i
    BY <1>1, <1>3
  <2>2. ASSUME NEW k \in 1 .. i PROVE w[k] = IF k < i THEN s[k] ELSE e
    <3>1. CASE k < i
      BY <1>0, <1>1, <1>5, <2>1, <3>1 DEF w
    <3>2. CASE k = i
      BY <1>0, <1>1, <1>3, <1>5, <2>1, <3>2 DEF w
    <3> QED BY <3>1, <3>2
  <2> QED BY <1>5, <2>1, <2>2 DEF w
<1>7. /\ w \o v \in Seq(S) /\ Len(w \o v) = Len(w) + Len(v)
      /\ \A k \in 1 .. Len(w) + Len(v) : (w \o v)[k] = IF k <= Len(w) THEN w[k] ELSE v[k - Len(w)]
  BY <1>2, <1>6, ConcatProperties
<1>8. Len(w) + Len(v) = Len(s) + 1
  BY <1>0, <1>2, <1>6
<1>9. ASSUME NEW k \in 1 .. Len(s) + 1
      PROVE  (w \o v)[k] = IF k < i THEN s[k] ELSE IF k = i THEN e ELSE s[k - 1]
  <2>1. (w \o v)[k] = IF k <= Len(w) THEN w[k] ELSE v[k - Len(w)]
    BY <1>7, <1>8
  <2>2. CASE k <= i
    BY <1>6, <2>1, <2>2
  <2>3. CASE k > i
    <3>1. k - i \in 1 .. (Len(s) - i) + 1 /\ (i + (k - i)) - 1 = k - 1 /\ ~ (k <= i)
      BY <1>0, <2>3
    <3>2. v[k - i] = s[k - 1]
      BY <1>2, <3>1
    <3> QED BY <1>6, <2>1, <2>3, <3>1, <3>2
  <2>4. k <= i \/ k > i
    BY <1>0
  <2> QED BY <2>2, <2>3, <2>4
<1> QED BY <1>4, <1>7, <1>8, <1>9 DEF w, Put

\* A track in the list moves at most one place.
LEMMA AddShape ==
  ASSUME NEW E, NEW p \in Lists(E), InRange(p), Amount(p) < MaxSize,
         NEW pos \in Int, NEW queue, NEW t, NEW line, NEW r, NEW s,
         InsertPosition(p, pos, r, s) \in 0 .. Amount(p),
         Inserted(queue, line, t) \in E
  PROVE  LET q == InsertPosition(p, pos, r, s)
             a == AddTrack(p, pos, queue, t, line, r, s).pl
         IN  /\ a \in Lists(E) /\ InRange(a) /\ Amount(a) = Amount(p) + 1
             /\ a.idx = InsertAt(p.idx, q + 1, Inserted(queue, line, t))
             /\ a.started = p.started
             /\ a.index = (IF pos < 0 /\ Amount(p) > 0 /\ q <= p.index /\ p.started /\ pos /= LAST_ROTATED
                           THEN p.index + 1 ELSE p.index)
             /\ a.first = (IF Turns(p, pos, q) \/ (pos >= 0 /\ Amount(p) > 0 /\ q < p.first /\ p.started)
                           THEN p.first + 1 ELSE p.first)
<1> DEFINE q == InsertPosition(p, pos, r, s)
           e == Inserted(queue, line, t)
           a == AddTrack(p, pos, queue, t, line, r, s).pl
           last0 == IF SetsLast(pos) THEN q ELSE p.last
<1>0. /\ p.idx \in Seq(E) /\ p.index \in Int /\ p.first \in Int /\ p.last \in Int /\ p.started \in BOOLEAN
      /\ Amount(p) = Len(p.idx) /\ Amount(p) \in Nat /\ MaxSize \in Nat
  BY LenProperties, PlaylistAssumption DEF Lists, Amount
<1>1. a = [p EXCEPT
             !.idx = PutAt(@, q, e),
             !.index = IF pos < 0 /\ Amount(p) > 0 /\ q <= @ /\ p.started /\ pos /= LAST_ROTATED
                       THEN @ + 1 ELSE @,
             !.first = IF Turns(p, pos, q) \/ (pos >= 0 /\ Amount(p) > 0 /\ q < @ /\ p.started)
                       THEN @ + 1 ELSE @,
             !.last = IF q < last0 THEN last0 + 1 ELSE last0]
  BY DEF AddTrack
<1>2. q \in Int /\ q >= 0 /\ q <= Amount(p)
  BY <1>0
<1> HIDE DEF q, e, a
<1>3. PutAt(p.idx, q, e) = InsertAt(p.idx, q + 1, e)
  BY <1>0, <1>2 DEF PutAt
<1>4. InsertAt(p.idx, q + 1, e) \in Seq(E) /\ Len(InsertAt(p.idx, q + 1, e)) = Amount(p) + 1
  <2>1. q + 1 \in 1 .. Len(p.idx) + 1 /\ e \in E
    BY <1>0, <1>2 DEF e
  <2>2. Put(E, p.idx, q + 1, e)
    BY <1>0, <2>1, InsertAtPuts
  <2> QED BY <1>0, <2>2 DEF Put
<1>5. /\ a.idx = InsertAt(p.idx, q + 1, e) /\ a.started = p.started
      /\ a.index = (IF pos < 0 /\ Amount(p) > 0 /\ q <= p.index /\ p.started /\ pos /= LAST_ROTATED
                    THEN p.index + 1 ELSE p.index)
      /\ a.first = (IF Turns(p, pos, q) \/ (pos >= 0 /\ Amount(p) > 0 /\ q < p.first /\ p.started)
                    THEN p.first + 1 ELSE p.first)
      /\ a.last = (IF q < last0 THEN last0 + 1 ELSE last0)
      /\ a = [idx |-> a.idx, index |-> a.index, first |-> a.first, last |-> a.last, started |-> a.started]
  BY <1>1, <1>3 DEF Lists
<1>6. last0 \in Int /\ -1 <= last0 /\ last0 <= Amount(p)
  BY <1>0, <1>2 DEF InRange
<1> HIDE DEF last0
<1>7. a.index \in Int /\ a.first \in Int /\ a.last \in Int
  BY <1>0, <1>5, <1>6, SMTT(40)
<1>8. a \in Lists(E) /\ Amount(a) = Amount(p) + 1
  BY <1>0, <1>4, <1>5, <1>7 DEF Lists, Amount
<1>9. InRange(a)
  <2>1. a.first >= p.first /\ a.first <= p.first + 1
    BY <1>0, <1>5
  <2>2. a.last >= -1 /\ a.last <= Amount(p) + 1
    BY <1>0, <1>5, <1>6
  <2>3. p.first >= 0 /\ p.first <= Amount(p)
    BY <1>0 DEF InRange
  <2>4. Amount(a) <= MaxSize
    BY <1>0, <1>8
  <2>5. 0 <= a.first /\ a.first <= Amount(a) /\ -1 <= a.last /\ a.last <= Amount(a) /\ Amount(a) \in Int
    BY <1>0, <1>7, <1>8, <2>1, <2>2, <2>3, SMTT(40)
  <2> QED BY <1>7, <2>4, <2>5 DEF InRange
<1> QED BY <1>5, <1>8, <1>9 DEF q, e, a

\* What remove_track_from_playlist_unlocked() does to the positions.
LEMMA RemoveShape ==
  ASSUME NEW E, NEW p \in Lists(E), InRange(p), NEW i \in 0 .. Amount(p) - 1
  PROVE  LET a == RemoveTrack(p, i)
         IN  /\ a \in Lists(E) /\ InRange(a) /\ Amount(a) = Amount(p) - 1
             /\ a.idx = RemoveAt(p.idx, i + 1)
             /\ a.started = p.started
             /\ a.index = (IF i < p.index THEN p.index - 1 ELSE p.index)
             /\ a.first = (IF i < p.first THEN p.first - 1 ELSE p.first)
             /\ a.last = (IF i <= p.last THEN p.last - 1 ELSE p.last)
<1> DEFINE a == RemoveTrack(p, i)
<1>0. /\ p.idx \in Seq(E) /\ p.index \in Int /\ p.first \in Int /\ p.last \in Int /\ p.started \in BOOLEAN
      /\ Amount(p) = Len(p.idx) /\ Amount(p) \in Nat /\ MaxSize \in Nat /\ i \in Int
  BY LenProperties, PlaylistAssumption DEF Lists, Amount
<1>1. RemoveAt(p.idx, i + 1) \in Seq(E) /\ Len(RemoveAt(p.idx, i + 1)) = Amount(p) - 1
  <2>1. i + 1 \in 1 .. Len(p.idx)
    BY <1>0
  <2> QED BY <1>0, <2>1, RemoveAtProps
<1>2. /\ a.idx = RemoveAt(p.idx, i + 1)
      /\ a.started = p.started
      /\ a.index = (IF i < p.index THEN p.index - 1 ELSE p.index)
      /\ a.first = (IF i < p.first THEN p.first - 1 ELSE p.first)
      /\ a.last = (IF i <= p.last THEN p.last - 1 ELSE p.last)
      /\ a = [idx |-> a.idx, index |-> a.index, first |-> a.first, last |-> a.last, started |-> a.started]
  <2>1. a = [p EXCEPT !.idx = RemoveAt(@, i + 1),
                      !.index = IF i < @ THEN @ - 1 ELSE @,
                      !.first = IF i < @ THEN @ - 1 ELSE @,
                      !.last = IF i <= @ THEN @ - 1 ELSE @]
    BY DEF RemoveTrack
  <2> HIDE DEF a
  <2> QED BY <2>1 DEF Lists
<1> HIDE DEF a
<1>3. a.index \in Int /\ a.first \in Int /\ a.last \in Int
  BY <1>0, <1>2, SMTT(40)
<1>4. a \in Lists(E) /\ Amount(a) = Amount(p) - 1
  BY <1>0, <1>1, <1>2, <1>3 DEF Lists, Amount
<1>5. InRange(a)
  <2>1. p.first >= 0 /\ p.first <= Amount(p) /\ p.last >= -1 /\ p.last <= Amount(p) /\ Amount(p) <= MaxSize
    BY <1>0 DEF InRange
  <2>2. a.first >= 0 /\ a.first <= Amount(p) - 1
    BY <1>0, <1>2, <2>1
  <2>3. a.last >= -1 /\ a.last <= Amount(p) - 1
    BY <1>0, <1>2, <2>1
  <2>4. Amount(a) \in Int /\ Amount(a) <= MaxSize
    BY <1>0, <1>4, <2>1
  <2> QED BY <1>0, <1>3, <1>4, <2>2, <2>3, <2>4 DEF InRange
<1> QED BY <1>2, <1>4, <1>5 DEF a

\* A remainder is in range.
LEMMA ModRange ==
  ASSUME NEW a \in Int, NEW n \in Nat, n > 0
  PROVE  a % n \in Int /\ 0 <= a % n /\ a % n <= n - 1
OBVIOUS

\* A list of fewer entries is a list of more.
LEMMA ListsGrow ==
  ASSUME NEW E, NEW F, E \subseteq F, NEW p \in Lists(E)
  PROVE  p \in Lists(F)
<1>1. p.idx \in Seq(F)
  BY SeqMonotonic DEF Lists
<1> QED BY <1>1 DEF Lists

\* An entry that names a track goes on naming it when a command is added.
LEMMA NamedGrows ==
  ASSUME NEW c \in Seq(Command), NEW x \in Command, NEW listed
  PROVE  Named(c, Len(c), listed) \subseteq Named(Append(c, x), Len(c) + 1, listed)
<1> DEFINE d == Append(c, x)
<1>1. Len(c) \in Nat /\ \A i \in 1 .. Len(c) : d[i] = c[i]
  BY AppendProperties, LenProperties
<1> HIDE DEF d
<1>2. ASSUME NEW e \in Named(c, Len(c), listed) PROVE e \in Named(d, Len(c) + 1, listed)
  <2>1. CASE e.kind = "list"
    BY <2>1 DEF Named
  <2>2. CASE e.kind # "list"
    <3>1. e \in Entry /\ e.seek \in 1 .. Len(c) /\ c[e.seek].op = (IF e.queued THEN "Q" ELSE "A")
          /\ c[e.seek].track = e.track
      BY <2>2 DEF Named
    <3>2. d[e.seek] = c[e.seek] /\ e.seek \in 1 .. Len(c) + 1
      BY <1>1, <3>1
    <3> QED BY <2>2, <3>1, <3>2 DEF Named
  <2> QED BY <2>1, <2>2
<1> QED BY <1>2 DEF d

\* An add command, field by field.
LEMMA AddCommand ==
  ASSUME NEW c \in Seq(Command), NEW listed, NEW pos \in Int, NEW last \in Int,
         NEW queue \in BOOLEAN, NEW t \in Names
  PROVE  /\ CAdd(pos, queue, t, last) \in Command
         /\ Inserted(queue, Len(c) + 1, t)
              \in Named(Append(c, CAdd(pos, queue, t, last)), Len(c) + 1, listed)
<1> DEFINE x == CAdd(pos, queue, t, last)
           e == Inserted(queue, Len(c) + 1, t)
<1>1. x \in Command /\ x.op = (IF queue THEN "Q" ELSE "A") /\ x.track = t
  BY DEF CAdd, Command
<1>2. Len(c) \in Nat
  BY LenProperties
<1>3. e \in Entry /\ e.kind = "insert" /\ e.seek = Len(c) + 1 /\ e.queued = queue /\ e.track = t
  BY <1>2 DEF Inserted, Entry
<1> HIDE DEF x, e
<1>4. Append(c, x)[Len(c) + 1] = x
  BY <1>1, AppendProperties
<1>5. e.seek \in 1 .. Len(c) + 1
  BY <1>2, <1>3
<1>6. e \in Named(Append(c, x), Len(c) + 1, listed)
  BY <1>1, <1>3, <1>4, <1>5 DEF Named
<1> QED BY <1>1, <1>6 DEF x, e

-----------------------------------------------------------------------------
\* The list in memory and the list the control file gives.

\* p is a list with the tracks these commands give.
Fits(c, listed, p) ==
  /\ c \in Seq(Command) /\ Sound(c, listed)
  /\ p \in Lists(Named(c, Len(c), listed)) /\ InRange(p) /\ p.index \in 0 .. Amount(p)
  /\ p.idx = Replay(c, listed).pl.idx

Mirrors(c, listed, p) ==
  /\ Fits(c, listed, p)
  /\ p.first = Replay(c, listed).pl.first
  /\ p.last = Replay(c, listed).pl.last \/ {p.last, Replay(c, listed).pl.last} = {-1, 0}

Settled(p) == ~p.started => p.first = 0

\* A sound control file gives a whole list, started.
LEMMA ReplayWhole ==
  ASSUME NEW c \in Seq(Command), NEW listed, Sound(c, listed)
  PROVE  /\ Whole(c, Len(c), listed, Replay(c, listed))
         /\ Replay(c, listed).pl \in Lists(Named(c, Len(c), listed))
         /\ InRange(Replay(c, listed).pl)
         /\ Replay(c, listed).line = Len(c) /\ Replay(c, listed).pl.started
         /\ Replay(c, listed).sorted \in BOOLEAN
<1>1. Len(c) \in 0 .. Len(c)
  BY LenProperties
<1>2. Whole(c, Len(c), listed, Replay(c, listed))
  BY <1>1, AfterDef DEF Sound
<1> QED BY <1>2 DEF Whole

\* Where a track goes, case by case.
LEMMA Positions ==
  ASSUME NEW p, NEW pos, NEW r, NEW s
  PROVE  LET end == IF p.first > 0 THEN p.first ELSE Amount(p)
             q == InsertPosition(p, pos, r, s)
         IN  /\ pos \in {PREPEND, LAST_ROTATED} => q = p.first
             /\ pos = INSERT =>
                  q = IF InList(p, p.last) /\ EntryAt(p, p.last).kind = "insert"
                      THEN p.last + 1 ELSE AfterCurrent(p)
             /\ pos = INSERT_FIRST => q = AfterCurrent(p)
             /\ pos = INSERT_LAST => q = end
             /\ pos = INSERT_SHUFFLED /\ ~p.started => q = r % (Amount(p) + 1)
             /\ pos = INSERT_SHUFFLED /\ p.started =>
                  LET n == Amount(p) - Rotate(p, p.index)
                      k == p.index + (IF n > 0 THEN r % n ELSE 0) + 1
                  IN  q = IF k >= Amount(p) THEN k - Amount(p) ELSE k
             /\ pos = LAST_SHUFFLED => q = s + (r % ((end - s) + 1))
             /\ pos \in Nat => q = pos
BY DEF InsertPosition, PREPEND, INSERT, INSERT_LAST, INSERT_FIRST, INSERT_SHUFFLED,
       LAST_SHUFFLED, LAST_ROTATED

\* The position in the control file gives the track the same place again, and the list
\* the same turn.
LEMMA WrittenMeant ==
  ASSUME NEW E, NEW p \in Lists(E), InRange(p), Settled(p), NEW m \in Lists(E),
         m.idx = p.idx, m.first = p.first, m.started,
         NEW pos \in Int, NEW q, q \in 0 .. Amount(p),
         pos = PREPEND => q = p.first
  PROVE  LET w == Written(p, pos, q)
         IN  /\ w \in Int /\ InsertPosition(m, w, 0, 0) = q
             /\ Turns(m, w, q) \/ (w >= 0 /\ Amount(m) > 0 /\ q < m.first /\ m.started)
                <=> Turns(p, pos, q) \/ (pos >= 0 /\ Amount(p) > 0 /\ q < p.first /\ p.started)
<1> DEFINE w == Written(p, pos, q)
           Goal == /\ w \in Int /\ InsertPosition(m, w, 0, 0) = q
                   /\ Turns(m, w, q) \/ (w >= 0 /\ Amount(m) > 0 /\ q < m.first /\ m.started)
                      <=> Turns(p, pos, q) \/ (pos >= 0 /\ Amount(p) > 0 /\ q < p.first /\ p.started)
<1> SUFFICES Goal
  OBVIOUS
<1>W. w = IF Turns(p, pos, q) /\ q = p.first THEN LAST_ROTATED ELSE q
  BY DEF Written
<1>0. /\ p.first \in Int /\ p.first >= 0 /\ q \in Int /\ q >= 0
      /\ Amount(m) = Amount(p) /\ Amount(p) \in Nat
  BY LenProperties DEF Lists, Amount, InRange
<1> HIDE DEF w
<1>1. CASE Turns(p, pos, q) /\ q = p.first
  <2>1. w = LAST_ROTATED /\ w = -8
    BY <1>1, <1>W DEF LAST_ROTATED
  <2>2. InsertPosition(m, w, 0, 0) = q
    BY <1>1, <2>1, Positions
  <2>3. Turns(m, w, q)
    <3>1. Amount(m) > 0 /\ q <= m.first
      BY <1>0, <1>1 DEF Turns
    <3>2. w < 0 /\ w # PREPEND
      BY <2>1 DEF PREPEND
    <3> QED BY <3>1, <3>2 DEF Turns
  <2> QED BY <1>1, <2>1, <2>2, <2>3
<1>2. CASE ~ (Turns(p, pos, q) /\ q = p.first)
  <2>1. w = q
    BY <1>2, <1>W
  <2>2. InsertPosition(m, w, 0, 0) = q
    BY <1>0, <2>1, Positions
  <2>3. ~ Turns(m, w, q)
    BY <1>0, <2>1 DEF Turns
  <2>4. CASE Amount(p) > 0 /\ q < p.first
    <3>1. p.started
      BY <1>0, <2>4 DEF Settled
    <3>2. pos # PREPEND
      BY <1>0, <2>4
    <3>3. Turns(p, pos, q) \/ (pos >= 0 /\ Amount(p) > 0 /\ q < p.first /\ p.started)
      BY <1>0, <2>4, <3>1, <3>2 DEF Turns
    <3> QED BY <1>0, <2>1, <2>2, <2>4, <3>3
  <2>5. CASE ~ (Amount(p) > 0 /\ q < p.first)
    <3>1. ~ Turns(p, pos, q)
      BY <1>0, <1>2, <2>5 DEF Turns
    <3> QED BY <1>0, <2>1, <2>2, <2>3, <2>5, <3>1
  <2> QED BY <2>4, <2>5
<1> QED BY <1>1, <1>2

-----------------------------------------------------------------------------
\* One command: what is done in memory and what the resume makes of its line.

\* An add command carried out again.
LEMMA RedoAdd ==
  ASSUME NEW c, NEW listed, NEW p, Mirrors(c, listed, p), Settled(p), Amount(p) < MaxSize,
         NEW pos \in Int, NEW queue \in BOOLEAN, NEW t \in Names, NEW r, NEW s,
         InsertPosition(p, pos, r, s) \in 0 .. Amount(p),
         NEW l \in -1 .. Amount(p) + 1
  PROVE  LET a == AddTrack(p, pos, queue, t, Len(c) + 1, r, s)
             x == CAdd(a.pos, queue, t, l)
             d == Append(c, x)
         IN  /\ x \in Command /\ d \in Seq(Command) /\ Sound(d, listed) /\ Len(d) = Len(c) + 1
             /\ a.pl \in Lists(Named(d, Len(d), listed)) /\ InRange(a.pl)
             /\ Amount(a.pl) = Amount(p) + 1
             /\ a.pl.idx = Replay(d, listed).pl.idx /\ a.pl.first = Replay(d, listed).pl.first
             /\ Replay(d, listed).pl.last = l
             /\ LET q == InsertPosition(p, pos, r, s) IN
                /\ a.pl.idx = InsertAt(p.idx, q + 1, Inserted(queue, Len(c) + 1, t))
                /\ a.pl.first = (IF Turns(p, pos, q) \/ (pos >= 0 /\ Amount(p) > 0 /\ q < p.first /\ p.started)
                                 THEN p.first + 1 ELSE p.first)
<1> DEFINE q == InsertPosition(p, pos, r, s)
           a == AddTrack(p, pos, queue, t, Len(c) + 1, r, s)
           x == CAdd(a.pos, queue, t, l)
           d == Append(c, x)
           R == Replay(c, listed)
           E == Named(d, Len(c) + 1, listed)
           e == Inserted(queue, Len(c) + 1, t)
<1>1. /\ c \in Seq(Command) /\ Sound(c, listed) /\ p \in Lists(Named(c, Len(c), listed)) /\ InRange(p)
      /\ p.idx = R.pl.idx /\ p.first = R.pl.first /\ Len(c) \in Nat
  BY LenProperties DEF Mirrors, Fits
<1>A. Amount(p) \in Nat /\ l \in Int
  <2>1. Amount(p) \in Nat
    BY <1>1, LenProperties DEF Lists, Amount
  <2> QED BY <2>1
<1>2. /\ Whole(c, Len(c), listed, R) /\ R.pl \in Lists(Named(c, Len(c), listed))
      /\ InRange(R.pl) /\ R.line = Len(c) /\ R.pl.started /\ R.sorted \in BOOLEAN
  BY <1>1, ReplayWhole
<1>3. a.pos = Written(p, pos, q)
  BY DEF AddTrack
<1>4. pos = PREPEND => q = p.first
  BY Positions
<1> HIDE DEF R
<1>5. /\ a.pos \in Int /\ InsertPosition(R.pl, a.pos, 0, 0) = q
      /\ Turns(R.pl, a.pos, q) \/ (a.pos >= 0 /\ Amount(R.pl) > 0 /\ q < R.pl.first /\ R.pl.started)
         <=> Turns(p, pos, q) \/ (pos >= 0 /\ Amount(p) > 0 /\ q < p.first /\ p.started)
  <2> HIDE DEF q, a
  <2>1. q \in 0 .. Amount(p)
    BY DEF q
  <2> QED BY <1>1, <1>2, <1>3, <1>4, <2>1, WrittenMeant
<1>6. x \in Command /\ e \in E
  <2> HIDE DEF a
  <2> QED BY <1>1, <1>5, <1>A, AddCommand
<1>7. p \in Lists(E) /\ R.pl \in Lists(E)
  <2> HIDE DEF x
  <2>1. Named(c, Len(c), listed) \subseteq E
    BY <1>1, <1>6, NamedGrows
  <2> QED BY <1>1, <1>2, <2>1, ListsGrow
<1>8. Amount(R.pl) = Amount(p)
  BY <1>1 DEF Amount
<1>9. /\ a.pl \in Lists(E) /\ InRange(a.pl) /\ Amount(a.pl) = Amount(p) + 1
      /\ a.pl.idx = InsertAt(p.idx, q + 1, e)
      /\ a.pl.first = (IF Turns(p, pos, q) \/ (pos >= 0 /\ Amount(p) > 0 /\ q < p.first /\ p.started)
                       THEN p.first + 1 ELSE p.first)
  <2> HIDE DEF E
  <2> QED BY <1>1, <1>6, <1>7, AddShape
<1> DEFINE b == AddTrack(R.pl, a.pos, queue, t, R.line + 1, 0, 0).pl
<1>10. /\ b \in Lists(E) /\ InRange(b) /\ Amount(b) = Amount(p) + 1
       /\ b.idx = InsertAt(R.pl.idx, q + 1, e)
       /\ b.started = R.pl.started
       /\ b.first = (IF Turns(R.pl, a.pos, q) \/ (a.pos >= 0 /\ Amount(R.pl) > 0 /\ q < R.pl.first /\ R.pl.started)
                     THEN R.pl.first + 1 ELSE R.pl.first)
  <2>1. Inserted(queue, R.line + 1, t) = e
    BY <1>2
  <2>2. /\ InsertPosition(R.pl, a.pos, 0, 0) = q /\ InsertPosition(R.pl, a.pos, 0, 0) \in 0 .. Amount(R.pl)
        /\ Amount(R.pl) < MaxSize /\ a.pos \in Int
    BY <1>5, <1>8
  <2>3. Inserted(queue, R.line + 1, t) \in E
    BY <1>6, <2>1
  <2> DEFINE z == 0
           k == InsertPosition(R.pl, a.pos, z, z)
           line == R.line + 1
           bb == AddTrack(R.pl, a.pos, queue, t, line, z, z).pl
  <2> HIDE DEF E, e, a, q
  <2>6. /\ k \in 0 .. Amount(R.pl) /\ Amount(R.pl) < MaxSize /\ a.pos \in Int
    BY <2>2
  <2>7. Inserted(queue, line, t) \in E
    BY <2>3
  <2> DEFINE w == a.pos
             m == R.pl
  <2>A. m \in Lists(E) /\ InRange(m) /\ w \in Int /\ Amount(m) < MaxSize
    BY <1>2, <1>7, <2>6
  <2>B. InsertPosition(m, w, z, z) \in 0 .. Amount(m)
    BY <2>6
  <2>C. k = InsertPosition(m, w, z, z) /\ bb = AddTrack(m, w, queue, t, line, z, z).pl
    OBVIOUS
  <2> HIDE DEF z, line, w, m
  <2>D. LET kk == InsertPosition(m, w, z, z)
            aa == AddTrack(m, w, queue, t, line, z, z).pl
        IN
        /\ aa \in Lists(E) /\ InRange(aa) /\ Amount(aa) = Amount(m) + 1
        /\ aa.idx = InsertAt(m.idx, kk + 1, Inserted(queue, line, t))
        /\ aa.started = m.started
        /\ aa.first = (IF Turns(m, w, kk)
                         \/ (w >= 0 /\ Amount(m) > 0 /\ kk < m.first /\ m.started)
                      THEN m.first + 1 ELSE m.first)
    BY <2>7, <2>A, <2>B, AddShape
  <2> HIDE DEF bb, k
  <2>4. /\ bb \in Lists(E) /\ InRange(bb) /\ Amount(bb) = Amount(R.pl) + 1
        /\ bb.idx = InsertAt(R.pl.idx, k + 1, Inserted(queue, line, t))
        /\ bb.started = R.pl.started
        /\ bb.first = (IF Turns(R.pl, a.pos, k)
                         \/ (a.pos >= 0 /\ Amount(R.pl) > 0 /\ k < R.pl.first /\ R.pl.started)
                      THEN R.pl.first + 1 ELSE R.pl.first)
    BY <2>C, <2>D DEF w, m
  <2>8. b = bb /\ line = R.line + 1
    BY DEF z, line, bb
  <2>9. k = q
    BY <2>2 DEF z, k
  <2> HIDE DEF b, bb, k
  <2> QED BY <1>8, <2>1, <2>4, <2>8, <2>9
<1>11. b.idx = a.pl.idx /\ b.first = a.pl.first
  BY <1>1, <1>5, <1>9, <1>10
<1>12. Redo(R, x) = [R EXCEPT !.line = R.line + 1, !.pl = [b EXCEPT !.last = l]]
  <2>1. x.op \in {"A", "Q"} /\ (x.op = "Q") = queue /\ x.pos = a.pos /\ x.track = t /\ x.last = l
    BY DEF CAdd
  <2> HIDE DEF x, a
  <2> QED BY <2>1 DEF Redo
<1>13. d \in Seq(Command) /\ Len(d) = Len(c) + 1 /\ Replay(d, listed) = Redo(R, x)
  <2> HIDE DEF x
  <2> QED BY <1>1, <1>6, AppendProperties, ReplayAppend DEF R
<1> HIDE DEF a, x, d, E, b, e, q
<1> DEFINE m == [b EXCEPT !.last = l]
<1>14. /\ m.idx = b.idx /\ m.first = b.first /\ m.started = b.started /\ m.last = l
       /\ m \in Lists(E)
  BY <1>10, <1>A DEF Lists
<1>15. InRange(m)
  <2>1. Amount(m) = Amount(b)
    BY <1>14 DEF Amount
  <2>2. Amount(b) <= MaxSize /\ b.first \in 0 .. Amount(b)
    BY <1>10 DEF InRange
  <2>3. Amount(p) \in Nat
    BY <1>1, LenProperties DEF Lists, Amount
  <2> HIDE DEF m
  <2>4. m.last \in -1 .. Amount(m)
    BY <1>10, <1>14, <2>1, <2>3
  <2> QED BY <1>14, <2>1, <2>2, <2>4 DEF InRange
<1>16. /\ Redo(R, x).pl = m /\ Redo(R, x).line = Len(c) + 1 /\ Redo(R, x).sorted = R.sorted
       /\ Redo(R, x) = [pl |-> m, sorted |-> R.sorted, line |-> Len(c) + 1]
  BY <1>2, <1>12 DEF Whole
<1> HIDE DEF m
<1>17. Whole(d, Len(c) + 1, listed, Redo(R, x))
  <2>1. m \in Lists(Named(d, Len(c) + 1, listed))
    BY <1>14 DEF E
  <2>2. Redo(R, x).pl = m /\ Redo(R, x).line = Len(c) + 1
    BY <1>16
  <2>3. Redo(R, x) \in [pl : Lists(Named(d, Len(c) + 1, listed)), sorted : BOOLEAN, line : Nat]
    BY <1>1, <1>2, <1>16, <2>1
  <2>4. m.started
    BY <1>2, <1>10, <1>14
  <2> QED BY <1>15, <2>2, <2>3, <2>4 DEF Whole
<1>18. Sound(d, listed)
  BY <1>1, <1>6, <1>17, SoundAppend DEF d, R
<1>19. /\ x \in Command /\ d \in Seq(Command) /\ Sound(d, listed) /\ Len(d) = Len(c) + 1
       /\ a.pl \in Lists(Named(d, Len(d), listed)) /\ InRange(a.pl)
       /\ Amount(a.pl) = Amount(p) + 1
       /\ a.pl.idx = Replay(d, listed).pl.idx /\ a.pl.first = Replay(d, listed).pl.first
       /\ Replay(d, listed).pl.last = l
  BY <1>6, <1>9, <1>11, <1>13, <1>14, <1>16, <1>18 DEF E
<1> QED BY <1>9, <1>19 DEF d, x, a, q, e

\* Adding: the list in memory goes with the line written.
LEMMA AddMirrors ==
  ASSUME NEW c, NEW listed, NEW p, Mirrors(c, listed, p), Settled(p), Amount(p) < MaxSize,
         NEW pos \in Int, NEW queue \in BOOLEAN, NEW t \in Names, NEW r, NEW s,
         InsertPosition(p, pos, r, s) \in 0 .. Amount(p)
  PROVE  LET a == AddTrack(p, pos, queue, t, Len(c) + 1, r, s)
             d == Append(c, CAdd(a.pos, queue, t, a.pl.last))
         IN  /\ Mirrors(d, listed, a.pl) /\ Settled(a.pl) /\ Len(d) = Len(c) + 1
             /\ CAdd(a.pos, queue, t, a.pl.last) \in Command
             /\ Amount(a.pl) = Amount(p) + 1
             /\ a.pl.index = (IF pos < 0 /\ Amount(p) > 0 /\ InsertPosition(p, pos, r, s) <= p.index
                                 /\ p.started /\ pos /= LAST_ROTATED
                              THEN p.index + 1 ELSE p.index)
             /\ LET q == InsertPosition(p, pos, r, s) IN
                a.pl.first = (IF Turns(p, pos, q) \/ (pos >= 0 /\ Amount(p) > 0 /\ q < p.first /\ p.started)
                              THEN p.first + 1 ELSE p.first)
             /\ a.pl.started = p.started
<1> DEFINE q == InsertPosition(p, pos, r, s)
           a == AddTrack(p, pos, queue, t, Len(c) + 1, r, s)
           x == CAdd(a.pos, queue, t, a.pl.last)
           d == Append(c, x)
           E == Named(Append(c, CAdd(0, queue, t, 0)), Len(c) + 1, listed)
<1>1. /\ c \in Seq(Command) /\ p \in Lists(Named(c, Len(c), listed)) /\ InRange(p)
      /\ p.index \in 0 .. Amount(p)
  BY DEF Mirrors, Fits
<1>A. Amount(p) \in Nat
  BY <1>1, LenProperties DEF Lists, Amount
<1>2. Inserted(queue, Len(c) + 1, t) \in E /\ p \in Lists(E)
  <2>1. CAdd(0, queue, t, 0) \in Command /\ Inserted(queue, Len(c) + 1, t) \in E
    BY <1>1, AddCommand
  <2>2. Named(c, Len(c), listed) \subseteq E
    BY <1>1, <2>1, NamedGrows
  <2> QED BY <1>1, <2>1, <2>2, ListsGrow
<1>3. /\ a.pl \in Lists(E) /\ InRange(a.pl) /\ Amount(a.pl) = Amount(p) + 1
      /\ a.pl.started = p.started
      /\ a.pl.index = (IF pos < 0 /\ Amount(p) > 0 /\ q <= p.index /\ p.started /\ pos /= LAST_ROTATED
                       THEN p.index + 1 ELSE p.index)
      /\ a.pl.first = (IF Turns(p, pos, q) \/ (pos >= 0 /\ Amount(p) > 0 /\ q < p.first /\ p.started)
                       THEN p.first + 1 ELSE p.first)
  <2> HIDE DEF E
  <2> QED BY <1>1, <1>2, AddShape
<1>4. a.pl.last \in Int /\ -1 <= a.pl.last /\ a.pl.last <= Amount(p) + 1
  <2> HIDE DEF a, E
  <2>1. Amount(p) \in Nat /\ a.pl.last \in Int
    BY <1>1, <1>3, LenProperties DEF Lists, Amount
  <2> QED BY <1>3, <2>1 DEF InRange
<1>5. /\ x \in Command /\ d \in Seq(Command) /\ Sound(d, listed) /\ Len(d) = Len(c) + 1
      /\ a.pl \in Lists(Named(d, Len(d), listed))
      /\ a.pl.idx = Replay(d, listed).pl.idx /\ a.pl.first = Replay(d, listed).pl.first
      /\ Replay(d, listed).pl.last = a.pl.last
  <2> DEFINE l == a.pl.last
  <2>1. l \in -1 .. Amount(p) + 1
    BY <1>4, <1>A
  <2> DEFINE y == CAdd(a.pos, queue, t, l)
  <2>2. x = y
    OBVIOUS
  <2> HIDE DEF l
  <2>3. /\ y \in Command /\ Append(c, y) \in Seq(Command) /\ Sound(Append(c, y), listed)
        /\ Len(Append(c, y)) = Len(c) + 1
        /\ a.pl \in Lists(Named(Append(c, y), Len(Append(c, y)), listed))
        /\ a.pl.idx = Replay(Append(c, y), listed).pl.idx
        /\ a.pl.first = Replay(Append(c, y), listed).pl.first
        /\ Replay(Append(c, y), listed).pl.last = l
    BY <1>A, <2>1, RedoAdd, SMTT(40)
  <2> HIDE DEF a, x, y
  <2>4. l = a.pl.last /\ d = Append(c, y)
    BY <2>2 DEF l
  <2> QED BY <2>2, <2>3, <2>4
<1>6. a.pl.index \in 0 .. Amount(a.pl)
  <2>1. Amount(p) \in Nat
    BY <1>1, LenProperties DEF Lists, Amount
  <2>2. a.pl.index = p.index + 1 \/ a.pl.index = p.index
    BY <1>3
  <2> HIDE DEF a
  <2> QED BY <1>1, <1>3, <2>1, <2>2
<1>7. Settled(a.pl)
  <2>1. ~ p.started => a.pl.first = p.first
    BY <1>3 DEF Turns
  <2> HIDE DEF a
  <2> QED BY <1>3, <2>1 DEF Settled
<1> HIDE DEF d, x, a
<1>8. Mirrors(d, listed, a.pl)
  BY <1>3, <1>5, <1>6 DEF Mirrors, Fits
<1> QED BY <1>3, <1>5, <1>7, <1>8 DEF d, x, a

\* A track removed and its command written: the control file still gives the list.
LEMMA RemoveMirrors ==
  ASSUME NEW c, NEW listed, NEW p, Mirrors(c, listed, p), Settled(p),
         NEW i \in 0 .. Amount(p) - 1
  PROVE  LET a == RemoveTrack(p, i)
             d == Append(c, CDelete(i))
         IN  /\ Mirrors(d, listed, a) /\ Settled(a) /\ Len(d) = Len(c) + 1
             /\ CDelete(i) \in Command /\ Amount(a) = Amount(p) - 1
             /\ a.index = IF i < p.index THEN p.index - 1 ELSE p.index
<1> DEFINE a == RemoveTrack(p, i)
           x == CDelete(i)
           d == Append(c, x)
           R == Replay(c, listed)
           b == RemoveTrack(R.pl, i)
           E == Named(d, Len(c) + 1, listed)
<1>1. /\ c \in Seq(Command) /\ Sound(c, listed) /\ p \in Lists(Named(c, Len(c), listed)) /\ InRange(p)
      /\ p.index \in 0 .. Amount(p)
      /\ p.idx = R.pl.idx /\ p.first = R.pl.first /\ Len(c) \in Nat
      /\ p.last = R.pl.last \/ {p.last, R.pl.last} = {-1, 0}
  BY LenProperties DEF Mirrors, Fits
<1>2. /\ Whole(c, Len(c), listed, R) /\ R.pl \in Lists(Named(c, Len(c), listed))
      /\ InRange(R.pl) /\ R.line = Len(c) /\ R.pl.started /\ R.sorted \in BOOLEAN
  BY <1>1, ReplayWhole
<1> HIDE DEF R
<1>3. x \in Command /\ x.op = "D" /\ x.pos = i /\ i \in Int
  <2>1. Amount(p) \in Nat
    BY <1>1, LenProperties DEF Lists, Amount
  <2>2. i \in Nat
    BY <2>1
  <2> QED BY <2>2 DEF CDelete, Command
<1> HIDE DEF x
<1>4. d \in Seq(Command) /\ Len(d) = Len(c) + 1 /\ Replay(d, listed) = Redo(R, x)
  BY <1>1, <1>3, AppendProperties, ReplayAppend DEF R
<1>5. p \in Lists(E) /\ R.pl \in Lists(E)
  <2>1. Named(c, Len(c), listed) \subseteq E
    BY <1>1, <1>3, NamedGrows
  <2> QED BY <1>1, <1>2, <2>1, ListsGrow
<1> HIDE DEF d, E
<1>6. Amount(R.pl) = Amount(p) /\ Amount(p) \in Nat
  BY <1>1, LenProperties DEF Lists, Amount
<1>7. /\ a \in Lists(E) /\ InRange(a) /\ Amount(a) = Amount(p) - 1
      /\ a.idx = RemoveAt(p.idx, i + 1) /\ a.started = p.started
      /\ a.index = (IF i < p.index THEN p.index - 1 ELSE p.index)
      /\ a.first = (IF i < p.first THEN p.first - 1 ELSE p.first)
      /\ a.last = (IF i <= p.last THEN p.last - 1 ELSE p.last)
  BY <1>1, <1>5, RemoveShape
<1>8. /\ b \in Lists(E) /\ InRange(b)
      /\ b.idx = RemoveAt(R.pl.idx, i + 1) /\ b.started = R.pl.started
      /\ b.first = (IF i < R.pl.first THEN R.pl.first - 1 ELSE R.pl.first)
      /\ b.last = (IF i <= R.pl.last THEN R.pl.last - 1 ELSE R.pl.last)
  <2>1. i \in 0 .. Amount(R.pl) - 1
    BY <1>6
  <2> QED BY <1>2, <1>5, <2>1, RemoveShape
<1>9. Redo(R, x) = [R EXCEPT !.line = R.line + 1, !.pl = b]
  BY <1>3 DEF Redo
<1> HIDE DEF a, b
<1>10. Redo(R, x) = [pl |-> b, sorted |-> R.sorted, line |-> Len(c) + 1]
  BY <1>2, <1>9 DEF Whole
<1>11. Whole(d, Len(c) + 1, listed, Redo(R, x))
  <2>1. Redo(R, x).pl = b /\ Redo(R, x).line = Len(c) + 1
    BY <1>10
  <2>2. Redo(R, x) \in [pl : Lists(Named(d, Len(c) + 1, listed)), sorted : BOOLEAN, line : Nat]
    BY <1>1, <1>2, <1>8, <1>10 DEF E
  <2> QED BY <1>2, <1>8, <2>1, <2>2 DEF Whole
<1>12. Sound(d, listed)
  BY <1>1, <1>3, <1>11, SoundAppend DEF d, R
<1>13. Replay(d, listed).pl = b
  BY <1>4, <1>10
<1>14. a.first = b.first /\ a.idx = b.idx
  BY <1>1, <1>7, <1>8
<1>15. a.last = b.last \/ {a.last, b.last} = {-1, 0}
  <2>0. p.last \in Int /\ R.pl.last \in Int
    BY <1>1, <1>2 DEF Lists
  <2>1. CASE p.last = R.pl.last
    BY <1>7, <1>8, <2>1
  <2>2. CASE {p.last, R.pl.last} = {-1, 0} /\ p.last # R.pl.last
    <3>1. \/ p.last = -1 /\ R.pl.last = 0
          \/ p.last = 0 /\ R.pl.last = -1
      BY <2>2
    <3>2. CASE i = 0
      BY <1>7, <1>8, <3>1, <3>2
    <3>3. CASE i > 0
      BY <1>3, <1>7, <1>8, <2>2, <3>1, <3>3
    <3> QED BY <1>3, <1>6, <3>2, <3>3
  <2> QED BY <1>1, <2>1, <2>2
<1>16. a.index \in 0 .. Amount(a)
  <2>0. p.index \in Int /\ 0 <= p.index /\ p.index <= Amount(p) /\ 0 <= i /\ i <= Amount(p) - 1
    BY <1>1, <1>6
  <2>1. CASE i < p.index
    BY <1>3, <1>6, <1>7, <2>0, <2>1
  <2>2. CASE i >= p.index
    BY <1>3, <1>6, <1>7, <2>0, <2>2
  <2> QED BY <1>3, <2>0, <2>1, <2>2
<1>17. Settled(a)
  <2>1. p.first = 0 => a.first = 0
    BY <1>3, <1>6, <1>7
  <2> QED BY <1>7, <2>1 DEF Settled
<1>18. Mirrors(d, listed, a)
  BY <1>4, <1>7, <1>12, <1>13, <1>14, <1>15, <1>16 DEF Mirrors, Fits, E
<1> QED BY <1>3, <1>4, <1>7, <1>17, <1>18 DEF a, d, x

\* Looking for an entry only turns the list.
LEMMA FindShape ==
  ASSUME NEW E, NEW p \in Lists(E), NEW e
  PROVE  LET f == FindIndex(p, e)
         IN  /\ f \in Lists(E) /\ f.idx = p.idx /\ f.last = p.last /\ f.started = p.started
             /\ \/ f = p /\ \A i \in 1 .. Amount(p) : p.idx[i] # e
                \/ f.index \in 0 .. Amount(p) - 1 /\ f.first = f.index /\ EntryAt(p, f.index) = e
<1> DEFINE f == FindIndex(p, e)
           T == {j \in 1 .. Amount(p) : p.idx[j] = e}
           i == CHOOSE j \in 1 .. Amount(p) : p.idx[j] = e /\ \A k \in 1 .. j - 1 : p.idx[k] /= e
<1>0. Amount(p) \in Nat
  BY LenProperties DEF Lists, Amount
<1>1. CASE T = {}
  <2>1. f = p
    BY <1>1 DEF FindIndex
  <2> QED BY <1>1, <2>1
<1>2. CASE T # {}
  <2>1. PICK j \in T : \A y \in T : j <= y
    <3>1. T \in SUBSET Nat
      BY <1>0
    <3> HIDE DEF T
    <3> QED BY <1>2, <3>1, Least
  <2>2. j \in 1 .. Amount(p) /\ p.idx[j] = e /\ \A k \in 1 .. j - 1 : p.idx[k] /= e
    <3>1. ASSUME NEW k \in 1 .. j - 1, p.idx[k] = e PROVE FALSE
      <4>1. k \in T /\ k < j /\ k \in Int /\ j \in Int
        BY <1>0, <3>1
      <4> QED BY <2>1, <4>1
    <3> QED BY <3>1
  <2>3. i \in 1 .. Amount(p) /\ p.idx[i] = e
    BY <2>2
  <2>4. f = [p EXCEPT !.index = i - 1, !.first = i - 1]
    BY <1>2 DEF FindIndex
  <2> HIDE DEF i, f
  <2>5. /\ f.index = i - 1 /\ f.first = i - 1 /\ f.idx = p.idx /\ f.last = p.last /\ f.started = p.started
        /\ f = [idx |-> p.idx, index |-> i - 1, first |-> i - 1, last |-> p.last, started |-> p.started]
    BY <2>4 DEF Lists
  <2>6. i - 1 \in 0 .. Amount(p) - 1 /\ i - 1 \in Int /\ (i - 1) + 1 = i
    BY <1>0, <2>3
  <2>7. f \in Lists(E)
    BY <2>5, <2>6 DEF Lists
  <2>8. EntryAt(p, f.index) = e
    BY <2>3, <2>5, <2>6 DEF EntryAt
  <2> QED BY <2>5, <2>6, <2>7, <2>8 DEF f
<1> QED BY <1>1, <1>2

\* The list, field by field.
LEMMA Fields ==
  ASSUME NEW E, NEW p \in Lists(E)
  PROVE  /\ p = [idx |-> p.idx, index |-> p.index, first |-> p.first, last |-> p.last, started |-> p.started]
         /\ p.idx \in Seq(E) /\ p.index \in Int /\ p.first \in Int /\ p.last \in Int /\ p.started \in BOOLEAN
BY DEF Lists

\* The list with other entries.
LEMMA OtherTracks ==
  ASSUME NEW E, NEW p \in Lists(E), NEW s
  PROVE  [p EXCEPT !.idx = s] =
           [idx |-> s, index |-> p.index, first |-> p.first, last |-> p.last, started |-> p.started]
<1> DEFINE r == [idx |-> p.idx, index |-> p.index, first |-> p.first, last |-> p.last, started |-> p.started]
<1>1. p = r
  BY Fields
<1>2. [r EXCEPT !.idx = s] =
        [idx |-> s, index |-> p.index, first |-> p.first, last |-> p.last, started |-> p.started]
  OBVIOUS
<1> HIDE DEF r
<1> QED BY <1>1, <1>2

\* The list with another first_index.
LEMMA OtherFirst ==
  ASSUME NEW E, NEW p \in Lists(E), NEW f
  PROVE  [p EXCEPT !.first = f] =
           [idx |-> p.idx, index |-> p.index, first |-> f, last |-> p.last, started |-> p.started]
<1> DEFINE r == [idx |-> p.idx, index |-> p.index, first |-> p.first, last |-> p.last, started |-> p.started]
<1>1. p = r
  BY Fields
<1>2. [r EXCEPT !.first = f] =
        [idx |-> p.idx, index |-> p.index, first |-> f, last |-> p.last, started |-> p.started]
  OBVIOUS
<1> HIDE DEF r
<1> QED BY <1>1, <1>2

\* The list with another last_insert_pos.
LEMMA OtherLast ==
  ASSUME NEW E, NEW p \in Lists(E), NEW l
  PROVE  [p EXCEPT !.last = l] =
           [idx |-> p.idx, index |-> p.index, first |-> p.first, last |-> l, started |-> p.started]
<1> DEFINE r == [idx |-> p.idx, index |-> p.index, first |-> p.first, last |-> p.last, started |-> p.started]
<1>1. p = r
  BY Fields
<1>2. [r EXCEPT !.last = l] =
        [idx |-> p.idx, index |-> p.index, first |-> p.first, last |-> l, started |-> p.started]
  OBVIOUS
<1> HIDE DEF r
<1> QED BY <1>1, <1>2

\* The tracks in another order, and the current one looked for or not.
LEMMA Reordered ==
  ASSUME NEW E, NEW p \in Lists(E), InRange(p), p.index \in 0 .. Amount(p),
         NEW s \in Seq(E), Same(s, p.idx), NEW startCurrent \in BOOLEAN
  PROVE  LET q == [p EXCEPT !.idx = s]
             u == IF startCurrent THEN FindIndex(q, Current(p)) ELSE q
         IN  /\ u \in Lists(E) /\ u.first \in 0 .. Amount(p) /\ u.index \in 0 .. Amount(p)
             /\ u.idx = s /\ u.started = p.started /\ Len(s) = Amount(p)
             /\ ~startCurrent => u.first = p.first /\ u.index = p.index
             /\ startCurrent /\ InList(p, p.index) =>
                  u.first = u.index /\ InList(u, u.index) /\ Current(u) = Current(p)
<1> DEFINE q == [p EXCEPT !.idx = s]
           e == Current(p)
           u == IF startCurrent THEN FindIndex(q, e) ELSE q
<1>1. /\ q \in Lists(E) /\ q.idx = s /\ q.index = p.index /\ q.first = p.first
      /\ q.started = p.started
  BY DEF Lists
<1>2. Amount(p) \in Nat /\ Len(s) = Amount(p) /\ Amount(q) = Amount(p)
  BY <1>1, LenProperties DEF Lists, Amount, Same
<1>3. p.first \in 0 .. Amount(p)
  BY DEF InRange
<1>4. CASE ~startCurrent
  <2>1. u = q
    BY <1>4
  <2> HIDE DEF u, q
  <2> QED BY <1>1, <1>2, <1>3, <1>4, <2>1 DEF u, q
<1>5. CASE startCurrent
  <2> DEFINE f == FindIndex(q, e)
  <2>1. u = f
    BY <1>5
  <2> HIDE DEF e, q
  <2>2. /\ f \in Lists(E) /\ f.idx = q.idx /\ f.started = q.started
        /\ \/ f = q /\ \A i \in 1 .. Amount(q) : q.idx[i] # e
           \/ f.index \in 0 .. Amount(q) - 1 /\ f.first = f.index /\ EntryAt(q, f.index) = e
    BY <1>1, FindShape
  <2> HIDE DEF f
  <2>3. f.first \in 0 .. Amount(p) /\ f.index \in 0 .. Amount(p)
    BY <1>1, <1>2, <1>3, <2>2
  <2>4. ASSUME InList(p, p.index)
        PROVE  f.first = f.index /\ InList(f, f.index) /\ Current(f) = Current(p)
    <3>1. e = p.idx[p.index + 1] /\ p.index + 1 \in 1 .. Len(p.idx)
      BY <1>2, <2>4 DEF e, Current, InList, EntryAt, Amount
    <3>2. e \in ToSet(p.idx)
      <4>1. p.idx \in Seq(E)
        BY DEF Lists
      <4> QED BY <3>1, <4>1, ToSetOf
    <3>3. e \in ToSet(s)
      BY <3>2 DEF Same
    <3>4. \E i \in 1 .. Len(s) : s[i] = e
      BY <3>3, ToSetOf
    <3>5. f.index \in 0 .. Amount(q) - 1 /\ f.first = f.index /\ EntryAt(q, f.index) = e
      BY <1>1, <1>2, <2>2, <3>4
    <3>6. Amount(f) = Amount(q)
      BY <2>2 DEF Amount
    <3>7. InList(f, f.index)
      BY <1>2, <3>5, <3>6 DEF InList
    <3>8. EntryAt(f, f.index) = EntryAt(q, f.index)
      BY <2>2 DEF EntryAt
    <3> QED BY <3>5, <3>7, <3>8 DEF Current, e
  <2> QED BY <1>1, <1>2, <1>5, <2>1, <2>2, <2>3, <2>4 DEF u, q, e
<1> QED BY <1>4, <1>5

\* What randomise_playlist_unlocked() does to the positions and to the current entry.
LEMMA ShuffleShape ==
  ASSUME NEW E, NEW p \in Lists(E), InRange(p), p.index \in 0 .. Amount(p),
         NEW seed \in Seeds, NEW startCurrent \in BOOLEAN
  PROVE  LET u == Randomise(p, seed, startCurrent)
         IN  /\ u \in Lists(E) /\ InRange(u) /\ u.index \in 0 .. Amount(u)
             /\ u.idx = Mixed(p.idx, seed) /\ Amount(u) = Amount(p)
             /\ u.last = -1 /\ u.started = p.started
             /\ ~startCurrent => u.first = p.first /\ u.index = p.index
             /\ startCurrent /\ InList(p, p.index) => InList(u, u.index) /\ Current(u) = Current(p)
<1> DEFINE s == Mixed(p.idx, seed)
           q == [p EXCEPT !.idx = s]
           f == IF startCurrent THEN FindIndex(q, Current(p)) ELSE q
           u == Randomise(p, seed, startCurrent)
<1>1. s \in Seq(E) /\ Same(s, p.idx)
  BY MixedSame DEF Lists, InRange, Amount
<1>2. u = [f EXCEPT !.last = -1]
  BY DEF Randomise
<1>3. /\ f \in Lists(E) /\ f.first \in 0 .. Amount(p) /\ f.index \in 0 .. Amount(p)
      /\ f.idx = s /\ f.started = p.started /\ Len(s) = Amount(p)
      /\ ~startCurrent => f.first = p.first /\ f.index = p.index
      /\ startCurrent /\ InList(p, p.index) => InList(f, f.index) /\ Current(f) = Current(p)
  <2> HIDE DEF s
  <2> QED BY <1>1, Reordered
<1> HIDE DEF f, u
<1>4. /\ u.idx = f.idx /\ u.first = f.first /\ u.index = f.index /\ u.last = -1 /\ u.started = f.started
      /\ u \in Lists(E)
  BY <1>2, <1>3, SMTT(40) DEF Lists
<1>5. Amount(u) = Amount(p) /\ Amount(f) = Amount(u)
  BY <1>3, <1>4 DEF Amount
<1>6. Amount(p) <= MaxSize /\ Amount(p) \in Nat
  BY LenProperties DEF InRange, Lists, Amount
<1>7. InRange(u)
  BY <1>3, <1>4, <1>5, <1>6 DEF InRange
<1>8. InList(f, f.index) => InList(u, u.index) /\ Current(u) = Current(f)
  BY <1>4, <1>5 DEF InList, Current, EntryAt
<1> QED BY <1>3, <1>4, <1>5, <1>7, <1>8 DEF u

\* What sort_playlist_unlocked() does to the positions and to the current entry.
LEMMA SortShape ==
  ASSUME NEW E, NEW p \in Lists(E), InRange(p), p.index \in 0 .. Amount(p),
         NEW startCurrent \in BOOLEAN, NEW write \in BOOLEAN
  PROVE  LET u == SortList(p, startCurrent, write)
         IN  /\ u \in Lists(E) /\ InRange(u) /\ u.index \in 0 .. Amount(u)
             /\ u.idx = Sorted(p.idx) /\ Amount(u) = Amount(p)
             /\ u.last = -1 /\ u.started = p.started
             /\ write => u.first = 0
             /\ ~startCurrent => u.index = p.index
             /\ ~startCurrent /\ ~write => u.first = p.first
             /\ startCurrent /\ InList(p, p.index) => InList(u, u.index) /\ Current(u) = Current(p)
<1> DEFINE s == Sorted(p.idx)
           q == [p EXCEPT !.idx = s]
           f == IF startCurrent THEN FindIndex(q, Current(p)) ELSE q
           u == SortList(p, startCurrent, write)
<1>1. s \in Seq(E) /\ Same(s, p.idx)
  BY SortedSame DEF Lists
<1>2. u = [f EXCEPT !.last = -1, !.first = IF write THEN 0 ELSE @]
  BY DEF SortList
<1>3. /\ f \in Lists(E) /\ f.first \in 0 .. Amount(p) /\ f.index \in 0 .. Amount(p)
      /\ f.idx = s /\ f.started = p.started /\ Len(s) = Amount(p)
      /\ ~startCurrent => f.first = p.first /\ f.index = p.index
      /\ startCurrent /\ InList(p, p.index) => InList(f, f.index) /\ Current(f) = Current(p)
  <2> HIDE DEF s
  <2> QED BY <1>1, Reordered
<1> HIDE DEF f, u
<1>6. Amount(p) <= MaxSize /\ Amount(p) \in Nat
  BY LenProperties DEF InRange, Lists, Amount
<1>4. /\ u.idx = f.idx /\ u.first = (IF write THEN 0 ELSE f.first) /\ u.index = f.index
      /\ u.last = -1 /\ u.started = f.started
      /\ u \in Lists(E)
  <2> DEFINE first == IF write THEN 0 ELSE f.first
             last == -1
  <2>1. u = [f EXCEPT !.last = last, !.first = first]
    BY <1>2
  <2>2. first \in Int /\ last \in Int
    BY <1>3 DEF Lists
  <2> HIDE DEF first, last
  <2>3. u = [idx |-> f.idx, index |-> f.index, first |-> first, last |-> last, started |-> f.started]
    <3> DEFINE v == [f EXCEPT !.last = last]
    <3>1. u = [v EXCEPT !.first = first]
      BY <2>1
    <3>2. v = [idx |-> f.idx, index |-> f.index, first |-> f.first, last |-> last, started |-> f.started]
      BY <1>3, OtherLast
    <3> HIDE DEF v
    <3> QED BY <3>1, <3>2
  <2>4. u \in Lists(E)
    BY <1>3, <2>2, <2>3 DEF Lists
  <2> QED BY <2>3, <2>4 DEF first, last
<1>5. Amount(u) = Amount(p) /\ Amount(f) = Amount(u)
  BY <1>3, <1>4 DEF Amount
<1>7. InRange(u)
  BY <1>3, <1>4, <1>5, <1>6 DEF InRange
<1>8. InList(f, f.index) => InList(u, u.index) /\ Current(u) = Current(f)
  BY <1>4, <1>5 DEF InList, Current, EntryAt
<1> QED BY <1>3, <1>4, <1>5, <1>7, <1>8 DEF u

\* The line of a shuffle has the first track, so that the resume need not look for it.
LEMMA ShuffleMirrors ==
  ASSUME NEW c, NEW listed, NEW p, Fits(c, listed, p), Replay(c, listed).sorted,
         NEW seed \in Seeds, NEW startCurrent \in BOOLEAN
  PROVE  LET u == Randomise(p, seed, startCurrent)
             x == CShuffle(seed, u.first)
             d == Append(c, x)
         IN  Mirrors(d, listed, u) /\ x \in Command /\ Len(d) = Len(c) + 1
<1> DEFINE u == Randomise(p, seed, startCurrent)
           x == CShuffle(seed, u.first)
           d == Append(c, x)
           R == Replay(c, listed)
           m == [R.pl EXCEPT !.first = u.first]
           v == Randomise(m, seed, FALSE)
           E == Named(d, Len(c) + 1, listed)
<1>1. /\ c \in Seq(Command) /\ Sound(c, listed) /\ p \in Lists(Named(c, Len(c), listed)) /\ InRange(p)
      /\ p.index \in 0 .. Amount(p) /\ p.idx = R.pl.idx /\ Len(c) \in Nat
  BY LenProperties DEF Fits
<1>2. /\ Whole(c, Len(c), listed, R) /\ R.pl \in Lists(Named(c, Len(c), listed))
      /\ InRange(R.pl) /\ R.line = Len(c) /\ R.pl.started /\ R.sorted
  BY <1>1, ReplayWhole
<1> HIDE DEF R
<1>3. /\ u \in Lists(Named(c, Len(c), listed)) /\ InRange(u) /\ u.index \in 0 .. Amount(u)
      /\ u.idx = Mixed(p.idx, seed) /\ Amount(u) = Amount(p) /\ u.last = -1
  BY <1>1, ShuffleShape
<1> HIDE DEF u
<1>A. Amount(p) \in Nat /\ Amount(R.pl) = Amount(p)
  BY <1>1, LenProperties DEF Lists, Amount
<1>4. x \in Command /\ x.op = "S" /\ x.seed = seed /\ x.first = u.first /\ u.first \in Nat
  BY <1>3, <1>A DEF CShuffle, Command, InRange
<1> HIDE DEF x
<1>5. d \in Seq(Command) /\ Len(d) = Len(c) + 1 /\ Replay(d, listed) = Redo(R, x)
  BY <1>1, <1>4, AppendProperties, ReplayAppend DEF R
<1>6. u \in Lists(E) /\ R.pl \in Lists(E)
  <2>1. Named(c, Len(c), listed) \subseteq E
    BY <1>1, <1>4, NamedGrows
  <2> QED BY <1>2, <1>3, <2>1, ListsGrow
<1> HIDE DEF d, E
<1>7. /\ m \in Lists(E) /\ m.idx = p.idx /\ m.first = u.first /\ m.started
  <2> DEFINE r == R.pl
  <2>1. r \in Lists(E) /\ r.idx = p.idx /\ r.started /\ m = [r EXCEPT !.first = u.first]
    BY <1>1, <1>2, <1>6
  <2> HIDE DEF r, m
  <2> QED BY <1>4, <2>1 DEF Lists
<1> HIDE DEF m
<1>8. /\ v \in Lists(E) /\ v.first = m.first
      /\ v.idx = Mixed(p.idx, seed) /\ Amount(v) = Amount(p)
      /\ v.last = -1 /\ v.started
  <2> DEFINE s == Mixed(m.idx, seed)
             w == [m EXCEPT !.idx = s]
  <2>1. s \in Seq(E) /\ Same(s, m.idx)
    <3>1. Len(m.idx) <= MaxSize /\ m.idx \in Seq(E)
      BY <1>1, <1>7 DEF InRange, Amount, Lists
    <3> QED BY <3>1, MixedSame
  <2>2. v = [w EXCEPT !.last = -1]
    BY DEF Randomise
  <2> HIDE DEF s, v
  <2>0. w = [idx |-> s, index |-> m.index, first |-> m.first, last |-> m.last, started |-> m.started]
    BY <1>7, OtherTracks
  <2>A. m.index \in Int /\ m.first \in Int /\ m.started \in BOOLEAN /\ -1 \in Int
    BY <1>7 DEF Lists
  <2>B. v = [idx |-> s, index |-> m.index, first |-> m.first, last |-> -1, started |-> m.started]
    <3> HIDE DEF w
    <3> QED BY <2>0, <2>2
  <2>3. v.idx = s /\ v.first = m.first /\ v.last = -1 /\ v.started = m.started /\ v \in Lists(E)
    BY <2>1, <2>A, <2>B DEF Lists
  <2>4. Amount(v) = Amount(p)
    BY <1>7, <2>1, <2>3 DEF Amount, Same
  <2> QED BY <1>7, <2>3, <2>4 DEF s
<1> HIDE DEF v
<1>9. InRange(v)
  <2>1. v.first \in 0 .. Amount(v)
    BY <1>3, <1>7, <1>8 DEF InRange
  <2>2. Amount(v) <= MaxSize /\ -1 \in -1 .. Amount(v)
    BY <1>1, <1>8, <1>A DEF InRange
  <2> QED BY <1>8, <2>1, <2>2 DEF InRange
<1>10. Redo(R, x) = [line |-> Len(c) + 1, sorted |-> FALSE, pl |-> v]
  <2>1. R.line + 1 = Len(c) + 1
    BY <1>2
  <2> QED BY <1>2, <1>4, <2>1 DEF Redo, v, m
<1>11. Whole(d, Len(c) + 1, listed, Redo(R, x))
  <2>1. Redo(R, x).pl = v /\ Redo(R, x).line = Len(c) + 1
    BY <1>10
  <2>2. Redo(R, x) \in [pl : Lists(Named(d, Len(c) + 1, listed)), sorted : BOOLEAN, line : Nat]
    BY <1>1, <1>8, <1>10 DEF E
  <2> QED BY <1>8, <1>9, <2>1, <2>2 DEF Whole
<1>12. Sound(d, listed)
  BY <1>1, <1>4, <1>11, SoundAppend DEF d, R
<1>13. Replay(d, listed).pl = v
  BY <1>5, <1>10
<1>14. Mirrors(d, listed, u)
  BY <1>3, <1>5, <1>6, <1>7, <1>8, <1>12, <1>13 DEF Mirrors, Fits, E
<1> QED BY <1>4, <1>5, <1>14 DEF u, d, x

\* Sorting: the first track is the first of the file again, on both sides.
LEMMA UnshuffleMirrors ==
  ASSUME NEW c, NEW listed, NEW p, Fits(c, listed, p), NEW startCurrent \in BOOLEAN
  PROVE  LET u == SortList(p, startCurrent, TRUE)
             d == Append(c, CUnshuffle)
         IN  /\ Mirrors(d, listed, u) /\ CUnshuffle \in Command /\ Len(d) = Len(c) + 1
             /\ Replay(d, listed).sorted
<1> DEFINE u == SortList(p, startCurrent, TRUE)
           x == CUnshuffle
           d == Append(c, x)
           R == Replay(c, listed)
           m == [R.pl EXCEPT !.first = x.first]
           v == SortList(m, FALSE, FALSE)
           E == Named(d, Len(c) + 1, listed)
<1>1. /\ c \in Seq(Command) /\ Sound(c, listed) /\ p \in Lists(Named(c, Len(c), listed)) /\ InRange(p)
      /\ p.index \in 0 .. Amount(p) /\ p.idx = R.pl.idx /\ Len(c) \in Nat
  BY LenProperties DEF Fits
<1>2. /\ Whole(c, Len(c), listed, R) /\ R.pl \in Lists(Named(c, Len(c), listed))
      /\ InRange(R.pl) /\ R.line = Len(c) /\ R.pl.started
  BY <1>1, ReplayWhole
<1> HIDE DEF R
<1>3. /\ u \in Lists(Named(c, Len(c), listed)) /\ InRange(u) /\ u.index \in 0 .. Amount(u)
      /\ u.idx = Sorted(p.idx) /\ Amount(u) = Amount(p) /\ u.last = -1 /\ u.first = 0
  <2> DEFINE write == TRUE
             w == SortList(p, startCurrent, write)
  <2>1. write \in BOOLEAN
    OBVIOUS
  <2>2. u = w /\ write
    OBVIOUS
  <2> HIDE DEF write, u
  <2>3. /\ w \in Lists(Named(c, Len(c), listed)) /\ InRange(w) /\ w.index \in 0 .. Amount(w)
        /\ w.idx = Sorted(p.idx) /\ Amount(w) = Amount(p) /\ w.last = -1 /\ (write => w.first = 0)
    BY <1>1, <2>1, SortShape
  <2> QED BY <2>2, <2>3
<1> HIDE DEF u
<1>A. Amount(p) \in Nat /\ Amount(R.pl) = Amount(p)
  BY <1>1, LenProperties DEF Lists, Amount
<1>4. x \in Command /\ x.op = "U" /\ x.first = 0
  BY DEF CUnshuffle, Command
<1> HIDE DEF x
<1>5. d \in Seq(Command) /\ Len(d) = Len(c) + 1 /\ Replay(d, listed) = Redo(R, x)
  BY <1>1, <1>4, AppendProperties, ReplayAppend DEF R
<1>6. u \in Lists(E) /\ R.pl \in Lists(E)
  <2>1. Named(c, Len(c), listed) \subseteq E
    BY <1>1, <1>4, NamedGrows
  <2> QED BY <1>2, <1>3, <2>1, ListsGrow
<1> HIDE DEF d, E
<1>7. /\ m \in Lists(E) /\ m.idx = p.idx /\ m.first = 0 /\ m.started
  <2> DEFINE r == R.pl
  <2>1. r \in Lists(E) /\ r.idx = p.idx /\ r.started /\ m = [r EXCEPT !.first = 0]
    BY <1>1, <1>2, <1>4, <1>6
  <2> HIDE DEF r, m
  <2> QED BY <2>1 DEF Lists
<1> HIDE DEF m
<1>8. /\ v \in Lists(E) /\ v.first = 0
      /\ v.idx = Sorted(p.idx) /\ Amount(v) = Amount(p)
      /\ v.last = -1 /\ v.started
  <2> DEFINE s == Sorted(m.idx)
             w == [m EXCEPT !.idx = s]
  <2>1. s \in Seq(E) /\ Same(s, m.idx)
    <3>1. m.idx \in Seq(E)
      BY <1>7 DEF Lists
    <3> QED BY <3>1, SortedSame
  <2>2. v = [w EXCEPT !.last = -1, !.first = w.first]
    BY DEF SortList
  <2> HIDE DEF s, v
  <2>0. w = [idx |-> s, index |-> m.index, first |-> m.first, last |-> m.last, started |-> m.started]
    BY <1>7, OtherTracks
  <2>A. m.index \in Int /\ m.first \in Int /\ m.started \in BOOLEAN /\ -1 \in Int
    BY <1>7 DEF Lists
  <2>B. v = [idx |-> s, index |-> m.index, first |-> m.first, last |-> -1, started |-> m.started]
    <3> HIDE DEF w
    <3> QED BY <2>0, <2>2
  <2>3. v.idx = s /\ v.first = m.first /\ v.last = -1 /\ v.started = m.started /\ v \in Lists(E)
    BY <2>1, <2>A, <2>B DEF Lists
  <2>4. Amount(v) = Amount(p)
    BY <1>7, <2>1, <2>3 DEF Amount, Same
  <2> QED BY <1>7, <2>3, <2>4 DEF s
<1> HIDE DEF v
<1>9. InRange(v)
  <2>2. Amount(v) <= MaxSize /\ -1 \in -1 .. Amount(v) /\ 0 \in 0 .. Amount(v)
    BY <1>1, <1>8, <1>A DEF InRange
  <2> QED BY <1>8, <2>2 DEF InRange
<1>10. Redo(R, x) = [line |-> Len(c) + 1, sorted |-> TRUE, pl |-> v]
  <2>1. R.line + 1 = Len(c) + 1
    BY <1>2
  <2> QED BY <1>2, <1>4, <2>1 DEF Redo, v, m
<1>11. Whole(d, Len(c) + 1, listed, Redo(R, x))
  <2>1. Redo(R, x).pl = v /\ Redo(R, x).line = Len(c) + 1
    BY <1>10
  <2>2. Redo(R, x) \in [pl : Lists(Named(d, Len(c) + 1, listed)), sorted : BOOLEAN, line : Nat]
    BY <1>1, <1>8, <1>10 DEF E
  <2> QED BY <1>8, <1>9, <2>1, <2>2 DEF Whole
<1>12. Sound(d, listed)
  BY <1>1, <1>4, <1>11, SoundAppend DEF d, R
<1>13. Replay(d, listed).pl = v /\ Replay(d, listed).sorted
  BY <1>5, <1>10
<1>14. Mirrors(d, listed, u)
  BY <1>3, <1>5, <1>6, <1>8, <1>12, <1>13 DEF Mirrors, Fits, E
<1> QED BY <1>4, <1>5, <1>13, <1>14 DEF u, d, x

\* What the control file says nothing about may change without a line in it.
LEMMA SameMirrors ==
  ASSUME NEW c, NEW listed, NEW p, Mirrors(c, listed, p), Settled(p),
         NEW i \in 0 .. Amount(p), NEW started \in BOOLEAN, p.started => started
  PROVE  LET u == [p EXCEPT !.index = i]
             v == [p EXCEPT !.index = i, !.started = started]
         IN  /\ Mirrors(c, listed, u) /\ Settled(u) /\ Amount(u) = Amount(p)
             /\ Mirrors(c, listed, v) /\ Settled(v)
<1> DEFINE u == [p EXCEPT !.index = i]
           v == [p EXCEPT !.index = i, !.started = started]
           E == Named(c, Len(c), listed)
<1>1. p \in Lists(E) /\ Amount(p) \in Nat /\ i \in Int
  <2>1. p \in Lists(E)
    BY DEF Mirrors, Fits
  <2>2. Amount(p) \in Nat
    BY <2>1, LenProperties DEF Lists, Amount
  <2> QED BY <2>1, <2>2
<1> HIDE DEF E
<1> DEFINE r == [idx |-> p.idx, index |-> p.index, first |-> p.first, last |-> p.last, started |-> p.started]
<1>2. p = r
  BY <1>1, Fields
<1>3. u = [idx |-> p.idx, index |-> i, first |-> p.first, last |-> p.last, started |-> p.started]
  <2>1. [r EXCEPT !.index = i] =
          [idx |-> p.idx, index |-> i, first |-> p.first, last |-> p.last, started |-> p.started]
    OBVIOUS
  <2> HIDE DEF r
  <2> QED BY <1>2, <2>1
<1>4. v = [idx |-> p.idx, index |-> i, first |-> p.first, last |-> p.last, started |-> started]
  <2>1. v = [u EXCEPT !.started = started]
    OBVIOUS
  <2> HIDE DEF u, v
  <2> QED BY <1>3, <2>1
<1> HIDE DEF u, v
<1>5. u \in Lists(E) /\ v \in Lists(E)
  BY <1>1, <1>3, <1>4, Fields DEF Lists
<1>6. Amount(u) = Amount(p) /\ Amount(v) = Amount(p)
  BY <1>3, <1>4 DEF Amount
<1>7. InRange(u) /\ InRange(v)
  BY <1>3, <1>4, <1>6 DEF Mirrors, Fits, InRange
<1>8. Mirrors(c, listed, u) /\ Mirrors(c, listed, v)
  BY <1>3, <1>4, <1>5, <1>6, <1>7 DEF Mirrors, Fits, E
<1>9. Settled(u) /\ Settled(v)
  BY <1>3, <1>4 DEF Settled
<1> QED BY <1>6, <1>8, <1>9 DEF u, v

\* The reset of last_insert_pos and its command.
LEMMA ResetMirrors ==
  ASSUME NEW c, NEW listed, NEW p, Mirrors(c, listed, p), Settled(p)
  PROVE  LET u == [p EXCEPT !.last = -1]
             d == Append(c, CReset)
         IN  /\ Mirrors(d, listed, u) /\ Settled(u) /\ CReset \in Command /\ Len(d) = Len(c) + 1
<1> DEFINE u == [p EXCEPT !.last = -1]
           x == CReset
           d == Append(c, x)
           R == Replay(c, listed)
           v == [idx |-> R.pl.idx, index |-> R.pl.index, first |-> R.pl.first, last |-> -1,
                 started |-> R.pl.started]
           E == Named(d, Len(c) + 1, listed)
<1>1. /\ c \in Seq(Command) /\ Sound(c, listed) /\ p \in Lists(Named(c, Len(c), listed)) /\ InRange(p)
      /\ p.index \in 0 .. Amount(p) /\ p.idx = R.pl.idx /\ p.first = R.pl.first /\ Len(c) \in Nat
  BY LenProperties DEF Mirrors, Fits
<1>2. /\ Whole(c, Len(c), listed, R) /\ R.pl \in Lists(Named(c, Len(c), listed))
      /\ InRange(R.pl) /\ R.line = Len(c) /\ R.pl.started /\ R.sorted \in BOOLEAN
  BY <1>1, ReplayWhole
<1> HIDE DEF R
<1>4. x \in Command /\ x.op = "R"
  BY DEF CReset, Command
<1> HIDE DEF x
<1>5. d \in Seq(Command) /\ Len(d) = Len(c) + 1 /\ Replay(d, listed) = Redo(R, x)
  BY <1>1, <1>4, AppendProperties, ReplayAppend DEF R
<1>6. p \in Lists(E) /\ R.pl \in Lists(E)
  <2>1. Named(c, Len(c), listed) \subseteq E
    BY <1>1, <1>4, NamedGrows
  <2> QED BY <1>1, <1>2, <2>1, ListsGrow
<1> HIDE DEF d, E
<1>7. u = [idx |-> p.idx, index |-> p.index, first |-> p.first, last |-> -1, started |-> p.started]
  <2> DEFINE l == -1
             w == [p EXCEPT !.last = l]
  <2>1. u = w
    OBVIOUS
  <2> HIDE DEF l, u
  <2>2. w = [idx |-> p.idx, index |-> p.index, first |-> p.first, last |-> l, started |-> p.started]
    BY <1>1, OtherLast
  <2> HIDE DEF w
  <2> QED BY <2>1, <2>2 DEF l
<1> HIDE DEF u
<1>8. u \in Lists(E) /\ v \in Lists(E)
  <2>1. /\ p.idx \in Seq(E) /\ p.index \in Int /\ p.first \in Int /\ p.started \in BOOLEAN
        /\ R.pl.index \in Int /\ -1 \in Int
    BY <1>6 DEF Lists
  <2> QED BY <1>1, <1>2, <1>7, <2>1 DEF Lists
<1>9. Amount(u) = Amount(p) /\ Amount(v) = Amount(p) /\ Amount(p) \in Nat
  BY <1>1, <1>7, LenProperties DEF Lists, Amount
<1>10. v.idx = p.idx /\ v.first = p.first /\ v.last = -1 /\ v.started
  BY <1>1, <1>2
<1> HIDE DEF v
<1>11. InRange(u) /\ InRange(v)
  <2>1. Amount(p) <= MaxSize /\ p.first \in 0 .. Amount(p) /\ -1 \in -1 .. Amount(p)
    BY <1>1, <1>9 DEF InRange
  <2>2. u.first = p.first /\ u.last = -1
    BY <1>7
  <2> QED BY <1>9, <1>10, <2>1, <2>2 DEF InRange
<1>12. Redo(R, x) = [line |-> Len(c) + 1, sorted |-> R.sorted, pl |-> v]
  <2> DEFINE r == R.pl
             w == [r EXCEPT !.last = -1]
  <2>1. Redo(R, x) = [R EXCEPT !.line = R.line + 1, !.pl = w]
    BY <1>4 DEF Redo
  <2>2. R.line + 1 = Len(c) + 1
    BY <1>2
  <2>3. w = v
    <3> DEFINE l == -1
               z == [r EXCEPT !.last = l]
    <3>1. w = z /\ r \in Lists(E)
      BY <1>6
    <3> HIDE DEF l, w, r
    <3>2. z = [idx |-> r.idx, index |-> r.index, first |-> r.first, last |-> l, started |-> r.started]
      BY <3>1, OtherLast
    <3> HIDE DEF z
    <3> QED BY <3>1, <3>2 DEF l, r, v
  <2> HIDE DEF w
  <2> QED BY <1>2, <2>1, <2>2, <2>3 DEF Whole
<1>13. Whole(d, Len(c) + 1, listed, Redo(R, x))
  <2>1. Redo(R, x).pl = v /\ Redo(R, x).line = Len(c) + 1
    BY <1>12
  <2>2. Redo(R, x) \in [pl : Lists(Named(d, Len(c) + 1, listed)), sorted : BOOLEAN, line : Nat]
    BY <1>1, <1>2, <1>8, <1>12 DEF E
  <2> QED BY <1>10, <1>11, <2>1, <2>2 DEF Whole
<1>14. Sound(d, listed)
  BY <1>1, <1>4, <1>13, SoundAppend DEF d, R
<1>15. Replay(d, listed).pl = v
  BY <1>5, <1>12
<1>16. u.idx = p.idx /\ u.first = p.first /\ u.last = -1 /\ u.index = p.index /\ u.started = p.started
  BY <1>7
<1>17. Mirrors(d, listed, u)
  BY <1>1, <1>5, <1>8, <1>9, <1>10, <1>11, <1>14, <1>15, <1>16 DEF Mirrors, Fits, E
<1>18. Settled(u)
  BY <1>16 DEF Settled
<1> QED BY <1>4, <1>5, <1>17, <1>18 DEF u, d, x

-----------------------------------------------------------------------------
\* A new list.

\* The list a playlist file gives.
LEMMA FreshShape ==
  ASSUME NEW c, NEW k, NEW listed \in BOOLEAN
  PROVE  /\ Fresh(listed) \in Lists(Named(c, k, listed)) /\ InRange(Fresh(listed))
         /\ Fresh(listed).index = 0 /\ Fresh(listed).first = 0 /\ Fresh(listed).last = -1
         /\ Amount(Fresh(listed)) = (IF listed THEN Len(Files) ELSE 0)
<1> DEFINE E == Named(c, k, listed)
           s == IF listed THEN [i \in 1 .. Len(Files) |-> ListEntry(i)] ELSE << >>
<1>1. Files \in Seq(ToSet(Files)) /\ Len(Files) \in Nat /\ Len(Files) <= MaxSize /\ MaxSize \in Nat
      /\ DOMAIN Files = 1 .. Len(Files)
  BY PlaylistAssumption, LenProperties
<1>2. ASSUME listed, NEW i \in 1 .. Len(Files) PROVE ListEntry(i) \in E
  <2>1. Files[i] \in ToSet(Files) /\ FileSeek[i] \in Nat
    BY <1>1, ElementOfSeq, PlaylistAssumption
  <2>2. ListEntry(i) \in Entry
    BY <2>1 DEF ListEntry, Entry, Names
  <2>3. ListEntry(i).kind = "list"
    BY DEF ListEntry
  <2> QED BY <1>1, <1>2, <2>2, <2>3 DEF Named
<1>3. s \in Seq(E) /\ Len(s) = IF listed THEN Len(Files) ELSE 0
  <2>1. CASE listed
    <3>1. s = [i \in 1 .. Len(Files) |-> ListEntry(i)]
      BY <2>1
    <3>2. s \in [1 .. Len(Files) -> E]
      BY <1>2, <2>1, <3>1
    <3> HIDE DEF s, E
    <3> QED BY <1>1, <2>1, <3>2, FunSeq
  <2>2. CASE ~listed
    BY <2>2, EmptySeq
  <2> QED BY <2>1, <2>2
<1>4. Fresh(listed) = [idx |-> s, index |-> 0, first |-> 0, last |-> -1, started |-> FALSE]
  BY DEF Fresh
<1> HIDE DEF s, E
<1>5. Fresh(listed) \in Lists(E)
  BY <1>3, <1>4 DEF Lists
<1>6. Amount(Fresh(listed)) = IF listed THEN Len(Files) ELSE 0
  BY <1>3, <1>4 DEF Amount
<1>7. InRange(Fresh(listed))
  BY <1>1, <1>4, <1>6 DEF InRange
<1> QED BY <1>4, <1>5, <1>6, <1>7 DEF E

\* A new control file gives the list of the playlist file.
LEMMA FreshMirrors ==
  ASSUME NEW listed \in BOOLEAN
  PROVE  /\ Mirrors(<< >>, listed, Fresh(listed)) /\ Settled(Fresh(listed))
         /\ Replay(<< >>, listed).sorted
<1> DEFINE c == << >>
           f == Fresh(listed)
           m == [f EXCEPT !.started = TRUE]
<1>1. c \in Seq(Command) /\ Len(c) = 0
  BY EmptySeq
<1> DEFINE E == Named(c, 0, listed)
<1>2. /\ f \in Lists(E) /\ InRange(f) /\ f.index = 0 /\ f.first = 0 /\ f.last = -1
      /\ Amount(f) \in Nat
  <2>1. Len(Files) \in Nat
    BY PlaylistAssumption, LenProperties
  <2> QED BY <2>1, FreshShape
<1> HIDE DEF f, E, c
<1>3. /\ m.idx = f.idx /\ m.index = f.index /\ m.first = f.first /\ m.last = f.last /\ m.started = TRUE
      /\ m \in Lists(E)
  BY <1>2 DEF Lists
<1>4. After(c, listed)[0] = [pl |-> m, sorted |-> TRUE, line |-> 0]
      /\ Replay(c, listed) = [pl |-> m, sorted |-> TRUE, line |-> 0]
  <2>1. After(c, listed)[0] = Begin(listed) /\ Replay(c, listed) = After(c, listed)[Len(c)]
    BY <1>1, AfterDef
  <2> QED BY <1>1, <2>1 DEF Begin, f
<1> HIDE DEF m
<1>5. InRange(m)
  BY <1>2, <1>3 DEF InRange, Amount
<1>6. Whole(c, 0, listed, After(c, listed)[0])
  BY <1>3, <1>4, <1>5 DEF Whole, E
<1>7. Sound(c, listed)
  BY <1>1, <1>6 DEF Sound
<1>8. Replay(c, listed).pl = m /\ Replay(c, listed).sorted
  BY <1>4
<1>9. Mirrors(c, listed, f)
  BY <1>1, <1>2, <1>3, <1>7, <1>8 DEF Mirrors, Fits, E
<1> QED BY <1>2, <1>8, <1>9 DEF Settled, c, f

-----------------------------------------------------------------------------
\* Positions in the list.

End(p) == IF p.first > 0 THEN p.first ELSE Amount(p)

\* rotate_index() of a place in the list.
LEMMA RotateRange ==
  ASSUME NEW E, NEW p \in Lists(E), InRange(p), NEW i \in Int, InList(p, i)
  PROVE  /\ Rotate(p, i) \in 0 .. Amount(p) - 1
         /\ Rotate(p, i) = (IF i >= p.first THEN i - p.first ELSE (i - p.first) + Amount(p))
<1>1. p.first \in Int /\ Amount(p) \in Nat /\ 0 <= p.first /\ p.first <= Amount(p)
  BY LenProperties DEF Lists, Amount, InRange
<1>2. 0 <= i /\ i < Amount(p)
  BY DEF InList
<1> QED BY <1>1, <1>2 DEF Rotate

\* What a user with care adds to.
Ready(p, pos) == InList(p, p.index) \/ (Amount(p) = 0 /\ pos # INSERT_SHUFFLED)

\* A user with care leaves no hole.
LEMMA PositionRange ==
  ASSUME NEW E, NEW p \in Lists(E), InRange(p), p.index \in 0 .. Amount(p),
         NEW pos \in Where, Ready(p, pos), NEW r \in Nat, NEW s \in Nat,
         pos = LAST_SHUFFLED => s <= End(p)
  PROVE  InsertPosition(p, pos, r, s) \in 0 .. Amount(p)
<1> DEFINE q == InsertPosition(p, pos, r, s)
<1>1. /\ p.first \in Int /\ p.last \in Int /\ p.index \in Int /\ Amount(p) \in Nat
      /\ 0 <= p.first /\ p.first <= Amount(p) /\ -1 <= p.last /\ p.last <= Amount(p) /\ p.started \in BOOLEAN
  BY LenProperties DEF Lists, Amount, InRange
<1>2. End(p) \in Nat /\ End(p) <= Amount(p)
  BY <1>1 DEF End
<1>3. AfterCurrent(p) \in 0 .. Amount(p) \/ pos = INSERT_SHUFFLED
  BY <1>1 DEF AfterCurrent, Ready, InList
<1> USE DEF PREPEND, INSERT, INSERT_LAST, INSERT_FIRST, INSERT_SHUFFLED, LAST_SHUFFLED, LAST_ROTATED
<1>4. CASE pos = PREPEND
  BY <1>1, <1>4, Positions
<1>5. CASE pos = INSERT
  <2>1. q = IF InList(p, p.last) /\ EntryAt(p, p.last).kind = "insert" THEN p.last + 1 ELSE AfterCurrent(p)
    BY <1>5, Positions
  <2>2. CASE InList(p, p.last) /\ EntryAt(p, p.last).kind = "insert"
    BY <1>1, <2>1, <2>2 DEF InList
  <2>3. CASE ~(InList(p, p.last) /\ EntryAt(p, p.last).kind = "insert")
    BY <1>3, <1>5, <2>1, <2>3
  <2> QED BY <2>2, <2>3
<1>6. CASE pos = INSERT_FIRST
  BY <1>3, <1>6, Positions
<1>7. CASE pos = INSERT_LAST
  <2>1. q = End(p)
    BY <1>7, Positions DEF End
  <2> QED BY <1>1, <1>2, <2>1
<1>8. CASE pos = INSERT_SHUFFLED /\ ~p.started
  <2>1. q = r % (Amount(p) + 1)
    BY <1>8, Positions
  <2>2. Amount(p) + 1 \in Nat /\ Amount(p) + 1 > 0
    BY <1>1
  <2> DEFINE n == Amount(p) + 1
  <2> HIDE DEF n
  <2>3. r % n \in Int /\ 0 <= r % n /\ r % n <= n - 1
    BY <2>2, ModRange DEF n
  <2> QED BY <1>1, <2>1, <2>3 DEF n
<1>9. CASE pos = INSERT_SHUFFLED /\ p.started
  <2> DEFINE n == Amount(p) - Rotate(p, p.index)
             k == p.index + (IF n > 0 THEN r % n ELSE 0) + 1
  <2>1. q = IF k >= Amount(p) THEN k - Amount(p) ELSE k
    BY <1>9, Positions
  <2>2. InList(p, p.index)
    BY <1>9 DEF Ready
  <2>3. /\ Rotate(p, p.index) \in 0 .. Amount(p) - 1
        /\ Rotate(p, p.index) = (IF p.index >= p.first THEN p.index - p.first ELSE (p.index - p.first) + Amount(p))
    BY <1>1, <2>2, RotateRange
  <2>4. n \in Nat /\ n > 0
    BY <1>1, <2>3
  <2>5. n <= (Amount(p) - p.index) + p.first /\ (p.index < p.first => n = p.first - p.index)
    BY <1>1, <2>3
  <2>6. p.index < Amount(p) /\ 0 <= p.index
    BY <2>2 DEF InList
  <2> DEFINE m == r % n
  <2>7. m \in Int /\ 0 <= m /\ m <= n - 1
    <3> HIDE DEF n
    <3> QED BY <2>4, ModRange
  <2>8. k = (p.index + m) + 1
    BY <1>1, <2>4, <2>7
  <2> HIDE DEF n, k, m, q
  <2> QED BY <1>1, <2>1, <2>4, <2>5, <2>6, <2>7, <2>8 DEF q
<1>10. CASE pos = LAST_SHUFFLED
  <2> DEFINE n == (End(p) - s) + 1
             m == r % n
  <2>1. q = s + m
    BY <1>10, Positions DEF End
  <2>2. n \in Nat /\ n > 0
    BY <1>2, <1>10
  <2>3. m \in Int /\ 0 <= m /\ m <= n - 1
    <3> HIDE DEF n
    <3> QED BY <2>2, ModRange
  <2> HIDE DEF m, q
  <2> QED BY <1>1, <1>2, <2>1, <2>3 DEF q
<1> QED BY <1>4, <1>5, <1>6, <1>7, <1>8, <1>9, <1>10 DEF Where

-----------------------------------------------------------------------------
\* Going on.

\* A step leads into the list or nowhere.
LEMMA NextRange ==
  ASSUME NEW E, NEW p \in Lists(E), InRange(p), p.index \in 0 .. Amount(p), NEW steps \in Int,
         NEW mode \in {"off", "all", "one", "shuffle"}
  PROVE  /\ NextIndex(p, steps, mode) \in Int
         /\ NextIndex(p, steps, mode) = -1 \/ InList(p, NextIndex(p, steps, mode))
<1> DEFINE n == Amount(p)
           m == IF mode = "shuffle" /\ n <= 1 THEN "all" ELSE mode
           shown == Rotate(p, p.index) + steps
           round == (p.index + steps) % n
           kept == {k \in 0 .. n - 1 : ~EntryAt(p, (round + k) % n).queued}
           least == CHOOSE k \in kept : \A l \in kept : k <= l
           next == CASE m \in {"off", "shuffle"} ->
                          IF shown < 0 \/ shown >= n THEN -1 ELSE (shown + p.first) % n
                     [] m = "one" -> p.index
                     [] m = "all" ->
                          IF steps < n THEN round
                          ELSE IF kept = {} THEN -1
                          ELSE (round + least) % n
           x == NextIndex(p, steps, mode)
<1>1. x = IF n = 0 \/ ~InList(p, next) THEN -1 ELSE next
  BY DEF NextIndex
<1>2. p.first \in Int /\ p.index \in Int /\ n \in Nat
  BY LenProperties DEF Lists, Amount
<1>3. Rotate(p, p.index) \in Int
  BY <1>2 DEF Rotate
<1>4. ASSUME n # 0 PROVE next \in Int
  <2>1. round \in Int
    <3> DEFINE a == p.index + steps
    <3>1. a \in Int /\ n > 0
      BY <1>2, <1>4
    <3> HIDE DEF a, n
    <3>2. a % n \in Int
      BY <1>2, <3>1, ModRange
    <3> QED BY <3>2 DEF a
  <2>2. (shown + p.first) % n \in Int
    <3> DEFINE a == shown + p.first
    <3>1. a \in Int /\ n > 0
      BY <1>2, <1>3, <1>4
    <3> HIDE DEF a, n
    <3>2. a % n \in Int
      BY <1>2, <3>1, ModRange
    <3> QED BY <3>2 DEF a
  <2>3. ASSUME kept # {} PROVE (round + least) % n \in Int
    <3>1. \E k \in kept : \A l \in kept : k <= l
      <4>1. kept \in SUBSET Nat
        BY <1>2
      <4> HIDE DEF kept
      <4> QED BY <2>3, <4>1, Least
    <3>2. least \in kept
      <4> HIDE DEF kept
      <4> QED BY <3>1
    <3>3. kept \subseteq Int
      BY <1>2
    <3>4. least \in Int
      <4> HIDE DEF kept, least
      <4> QED BY <3>2, <3>3
    <3> DEFINE a == round + least
    <3> HIDE DEF kept, least, round
    <3>5. a \in Int /\ n > 0
      BY <1>2, <1>4, <2>1, <3>4
    <3> HIDE DEF a, n
    <3>6. a % n \in Int
      BY <1>2, <3>5, ModRange
    <3> QED BY <3>6 DEF a
  <2>4. m \in {"off", "all", "one", "shuffle"}
    OBVIOUS
  <2> HIDE DEF m, shown, round, kept, least, n
  <2> QED BY <1>2, <2>1, <2>2, <2>3, <2>4
<1> HIDE DEF next, x
<1>5. x \in Int /\ (x = -1 \/ InList(p, x))
  BY <1>1, <1>4
<1> QED BY <1>5 DEF x

\* The track that was playing is looked for inside the list.
LEMMA ResumeRange ==
  ASSUME NEW E, NEW p \in Lists(E), NEW info, info.index \in Nat
  PROVE  ResumeTrack(p, info) \in 0 .. Amount(p)
<1> DEFINE n == Amount(p)
           hits == {k \in 0 .. n - 1 : EntryAt(p, (k + info.index) % n).track = info.track}
           least == CHOOSE k \in hits : \A l \in hits : k <= l
           x == ResumeTrack(p, info)
<1>1. x = IF hits = {} THEN 0 ELSE (least + info.index) % n
  BY DEF ResumeTrack
<1>2. n \in Nat
  BY LenProperties DEF Lists, Amount
<1>3. CASE hits = {}
  <2> HIDE DEF hits
  <2> QED BY <1>1, <1>2, <1>3
<1>4. CASE hits # {}
  <2>1. hits \in SUBSET Nat /\ n > 0
    BY <1>2, <1>4
  <2>2. \E k \in hits : \A l \in hits : k <= l
    <3> HIDE DEF hits
    <3> QED BY <1>4, <2>1, Least
  <2>3. least \in hits
    <3> HIDE DEF hits
    <3> QED BY <2>2
  <2> DEFINE a == least + info.index
  <2>4. a \in Int
    <3> HIDE DEF hits, least
    <3> QED BY <2>1, <2>3
  <2> HIDE DEF a, n, x, hits
  <2>5. a % n \in Int /\ 0 <= a % n /\ a % n <= n - 1
    BY <1>2, <2>1, <2>4, ModRange
  <2>6. x = a % n
    BY <1>1, <1>4 DEF a
  <2> QED BY <1>2, <2>5, <2>6 DEF n, x
<1> QED BY <1>3, <1>4

-----------------------------------------------------------------------------
\* Several commands.

\* A command behind others, written as one batch.
LEMMA LogAppend ==
  ASSUME NEW S, NEW c \in Seq(S), NEW s \in Seq(S), NEW x \in S
  PROVE  c \o Append(s, x) = Append(c \o s, x) /\ c \o Append(s, x) \in Seq(S)
<1> DEFINE u == c \o Append(s, x)
           v == Append(c \o s, x)
           a == Append(s, x)
           b == c \o s
<1>0. Len(c) \in Nat /\ Len(s) \in Nat
  BY LenProperties
<1>1. a \in Seq(S) /\ Len(a) = Len(s) + 1 /\ (\A i \in 1 .. Len(s) : a[i] = s[i]) /\ a[Len(s) + 1] = x
  BY AppendProperties
<1>2. /\ b \in Seq(S) /\ Len(b) = Len(c) + Len(s)
      /\ \A i \in 1 .. Len(c) + Len(s) : b[i] = IF i <= Len(c) THEN c[i] ELSE s[i - Len(c)]
  BY ConcatProperties
<1> HIDE DEF a, b
<1>3. /\ c \o a \in Seq(S) /\ Len(c \o a) = Len(c) + Len(a)
      /\ \A i \in 1 .. Len(c) + Len(a) : (c \o a)[i] = IF i <= Len(c) THEN c[i] ELSE a[i - Len(c)]
  BY <1>1, ConcatProperties
<1>4. v \in Seq(S) /\ Len(v) = Len(b) + 1 /\ (\A i \in 1 .. Len(b) : v[i] = b[i]) /\ v[Len(b) + 1] = x
  BY <1>2, AppendProperties DEF b
<1>5. u = c \o a
  BY DEF a
<1> HIDE DEF u, v
<1>6. ASSUME NEW i \in 1 .. Len(u) PROVE u[i] = v[i]
  <2>0. Len(u) = (Len(c) + Len(s)) + 1
    BY <1>0, <1>1, <1>3, <1>5
  <2>1. u[i] = IF i <= Len(c) THEN c[i] ELSE a[i - Len(c)]
    BY <1>3, <1>5
  <2>2. CASE i <= Len(c)
    <3>1. i \in 1 .. Len(b) /\ i \in 1 .. Len(c) + Len(s)
      BY <1>0, <1>2, <2>0, <2>2
    <3>2. v[i] = b[i] /\ b[i] = c[i]
      BY <1>2, <1>4, <2>2, <3>1
    <3> QED BY <2>1, <2>2, <3>2
  <2>3. CASE i > Len(c) /\ i <= Len(c) + Len(s)
    <3>1. i \in 1 .. Len(b) /\ i \in 1 .. Len(c) + Len(s) /\ ~(i <= Len(c)) /\ i - Len(c) \in 1 .. Len(s)
      BY <1>0, <1>2, <2>0, <2>3
    <3>2. v[i] = b[i] /\ b[i] = s[i - Len(c)]
      BY <1>2, <1>4, <3>1
    <3>3. a[i - Len(c)] = s[i - Len(c)]
      BY <1>1, <3>1
    <3> QED BY <2>1, <3>1, <3>2, <3>3
  <2>4. CASE i = (Len(c) + Len(s)) + 1
    <3>1. i = Len(b) + 1 /\ ~(i <= Len(c)) /\ i - Len(c) = Len(s) + 1
      BY <1>0, <1>2, <2>4
    <3> QED BY <1>1, <1>4, <2>1, <3>1
  <2> QED BY <1>0, <2>0, <2>2, <2>3, <2>4
<1>7. Len(u) = Len(v)
  BY <1>0, <1>1, <1>2, <1>3, <1>4, <1>5
<1>8. u \in Seq(S)
  BY <1>3, <1>5
<1>9. u = v
  BY <1>4, <1>6, <1>7, <1>8, SeqEqual
<1> QED BY <1>8, <1>9 DEF u, v

\* One command written.
LEMMA LogOne ==
  ASSUME NEW S, NEW c \in Seq(S), NEW x \in S
  PROVE  c \o <<x>> = Append(c, x) /\ c \o <<x>> \in Seq(S) /\ Len(c \o <<x>>) = Len(c) + 1
<1> DEFINE e == << >>
<1>1. e \in Seq(S) /\ c \o e = c /\ <<x>> = Append(e, x)
  BY EmptySeq, ConcatEmptySeq
<1> HIDE DEF e
<1>2. c \o Append(e, x) = Append(c \o e, x) /\ c \o Append(e, x) \in Seq(S)
  BY <1>1, LogAppend
<1>3. Len(Append(c, x)) = Len(c) + 1
  BY AppendProperties
<1> QED BY <1>1, <1>2, <1>3

\* Two commands written.
LEMMA LogTwo ==
  ASSUME NEW S, NEW c \in Seq(S), NEW x \in S, NEW y \in S
  PROVE  /\ c \o <<x, y>> = Append(Append(c, x), y) /\ c \o <<x, y>> \in Seq(S)
         /\ Len(c \o <<x, y>>) = Len(c) + 2
<1> DEFINE e == <<x>>
<1>1. e \in Seq(S) /\ <<x, y>> = Append(e, y)
  OBVIOUS
<1>2. c \o e = Append(c, x) /\ Append(c, x) \in Seq(S) /\ Len(Append(c, x)) = Len(c) + 1 /\ Len(c) \in Nat
  BY LogOne, AppendProperties, LenProperties
<1> HIDE DEF e
<1>3. c \o Append(e, y) = Append(c \o e, y) /\ c \o Append(e, y) \in Seq(S)
  BY <1>1, LogAppend
<1>4. Len(Append(Append(c, x), y)) = Len(Append(c, x)) + 1
  BY <1>2, AppendProperties
<1> QED BY <1>1, <1>2, <1>3, <1>4

\* Both tracks of a batch go into the list.
LEMMA BatchRange ==
  ASSUME NEW c, NEW listed, NEW p, Mirrors(c, listed, p), Settled(p), Amount(p) + 1 < MaxSize,
         NEW pos \in Where, Ready(p, pos), NEW queue \in BOOLEAN, NEW t \in Names,
         NEW r \in Nat, NEW r2 \in Nat
  PROVE  LET s == End(p)
             a == AddTrack(p, pos, queue, t, Len(c) + 1, r, s)
             pos2 == IF pos = INSERT_FIRST THEN INSERT ELSE pos
         IN  /\ InsertPosition(p, pos, r, s) \in 0 .. Amount(p)
             /\ InsertPosition(a.pl, pos2, r2, s) \in 0 .. Amount(a.pl)
<1> DEFINE s == End(p)
           q == InsertPosition(p, pos, r, s)
           a == AddTrack(p, pos, queue, t, Len(c) + 1, r, s)
           x == CAdd(a.pos, queue, t, a.pl.last)
           d == Append(c, x)
           pos2 == IF pos = INSERT_FIRST THEN INSERT ELSE pos
<1>1. /\ p \in Lists(Named(c, Len(c), listed)) /\ InRange(p) /\ p.index \in 0 .. Amount(p)
      /\ c \in Seq(Command) /\ Len(c) \in Nat
  BY LenProperties DEF Mirrors, Fits
<1>2. /\ Amount(p) \in Nat /\ p.first \in Nat /\ p.first <= Amount(p) /\ p.started \in BOOLEAN
      /\ s \in Nat /\ MaxSize \in Nat
  BY <1>1, LenProperties, PlaylistAssumption DEF Lists, Amount, InRange, End
<1>3. q \in 0 .. Amount(p)
  <2> HIDE DEF s
  <2>1. s <= End(p)
    BY <1>2 DEF s
  <2> QED BY <1>1, <1>2, <2>1, PositionRange
<1>4. pos \in Int /\ pos < 0 /\ pos # LAST_ROTATED /\ pos2 \in Where
      /\ (pos2 = LAST_SHUFFLED => pos = LAST_SHUFFLED) /\ (pos = LAST_SHUFFLED => pos # PREPEND)
  BY DEF Where, PREPEND, INSERT, INSERT_LAST, INSERT_FIRST, INSERT_SHUFFLED, LAST_SHUFFLED, LAST_ROTATED
<1>5. /\ Mirrors(d, listed, a.pl) /\ Settled(a.pl) /\ Len(d) = Len(c) + 1
      /\ x \in Command /\ Amount(a.pl) = Amount(p) + 1
      /\ a.pl.index = (IF pos < 0 /\ Amount(p) > 0 /\ q <= p.index /\ p.started /\ pos /= LAST_ROTATED
                       THEN p.index + 1 ELSE p.index)
      /\ a.pl.first = (IF Turns(p, pos, q) \/ (pos >= 0 /\ Amount(p) > 0 /\ q < p.first /\ p.started)
                       THEN p.first + 1 ELSE p.first)
  <2>1. Amount(p) < MaxSize
    BY <1>2
  <2> HIDE DEF s
  <2> QED BY <1>3, <1>4, <2>1, AddMirrors
<1> HIDE DEF a, x, d, pos2
<1>6. Ready(a.pl, pos2)
  <2>1. InList(a.pl, a.pl.index)
    <3>1. CASE InList(p, p.index)
      BY <1>1, <1>2, <1>5, <3>1 DEF InList
    <3>2. CASE Amount(p) = 0
      BY <1>1, <1>2, <1>5, <3>2 DEF InList
    <3> QED BY <3>1, <3>2 DEF Ready
  <2> QED BY <2>1 DEF Ready
<1>7. pos2 = LAST_SHUFFLED => s <= End(a.pl)
  <2> SUFFICES ASSUME pos = LAST_SHUFFLED PROVE s <= End(a.pl)
    BY <1>4
  <2>1. q = s + (r % ((End(p) - s) + 1))
    BY Positions DEF End
  <2>2. (End(p) - s) + 1 = 1
    BY <1>2
  <2>3. r % 1 = 0
    <3> DEFINE one == 1
    <3>1. one \in Nat /\ one > 0 /\ one = 1
      OBVIOUS
    <3> HIDE DEF one
    <3>2. r % one \in Int /\ 0 <= r % one /\ r % one <= one - 1
      BY <3>1, ModRange
    <3> QED BY <3>1, <3>2
  <2>4. q = s
    <3> HIDE DEF s, q
    <3> QED BY <1>2, <2>1, <2>2, <2>3
  <2>5. CASE p.first > 0
    <3>1. s = p.first
      BY <2>5 DEF End
    <3>2. p.started /\ Amount(p) > 0
      BY <1>2, <2>5 DEF Settled
    <3>3. Turns(p, pos, q)
      BY <1>2, <1>4, <2>4, <3>1, <3>2 DEF Turns
    <3>4. a.pl.first = p.first + 1
      BY <1>5, <3>3
    <3> QED BY <1>2, <3>1, <3>4 DEF End
  <2>6. CASE p.first = 0
    <3>1. s = Amount(p)
      BY <2>6 DEF End
    <3>2. ~Turns(p, pos, q)
      BY <1>2, <2>4, <2>6, <3>1 DEF Turns
    <3>3. a.pl.first = 0
      BY <1>4, <1>5, <2>6, <3>2
    <3> QED BY <1>2, <1>5, <3>1, <3>3 DEF End
  <2> QED BY <1>2, <2>5, <2>6
<1>8. InsertPosition(a.pl, pos2, r2, s) \in 0 .. Amount(a.pl)
  <2>1. /\ a.pl \in Lists(Named(d, Len(d), listed)) /\ InRange(a.pl)
        /\ a.pl.index \in 0 .. Amount(a.pl)
    BY <1>5 DEF Mirrors, Fits
  <2> DEFINE m == a.pl
  <2> HIDE DEF s, m
  <2>2. /\ m \in Lists(Named(d, Len(d), listed)) /\ InRange(m) /\ m.index \in 0 .. Amount(m)
        /\ Ready(m, pos2) /\ (pos2 = LAST_SHUFFLED => s <= End(m))
    BY <1>6, <1>7, <2>1 DEF m
  <2>3. InsertPosition(m, pos2, r2, s) \in 0 .. Amount(m)
    BY <1>2, <1>4, <2>2, PositionRange
  <2> QED BY <2>3 DEF m
<1> QED BY <1>3, <1>8 DEF a, pos2

\* A batch of two: the second goes in where the first left room.
LEMMA BatchMirrors ==
  ASSUME NEW c, NEW listed, NEW p, Mirrors(c, listed, p), Settled(p), Amount(p) + 1 < MaxSize,
         NEW pos \in Where, Ready(p, pos), NEW queue \in BOOLEAN, NEW t \in Names, NEW u \in Names,
         NEW r \in Nat, NEW r2 \in Nat
  PROVE  LET s == End(p)
             a == AddTrack(p, pos, queue, t, Len(c) + 1, r, s)
             pos2 == IF pos = INSERT_FIRST THEN INSERT ELSE pos
             b == AddTrack(a.pl, pos2, queue, u, Len(c) + 2, r2, s)
             d == Append(Append(c, CAdd(a.pos, queue, t, a.pl.last)), CAdd(b.pos, queue, u, b.pl.last))
         IN  /\ Mirrors(d, listed, b.pl) /\ Settled(b.pl)
             /\ CAdd(a.pos, queue, t, a.pl.last) \in Command
             /\ CAdd(b.pos, queue, u, b.pl.last) \in Command
<1> DEFINE s == End(p)
           q == InsertPosition(p, pos, r, s)
           a == AddTrack(p, pos, queue, t, Len(c) + 1, r, s)
           x == CAdd(a.pos, queue, t, a.pl.last)
           d == Append(c, x)
           pos2 == IF pos = INSERT_FIRST THEN INSERT ELSE pos
           b == AddTrack(a.pl, pos2, queue, u, Len(c) + 2, r2, s)
           y == CAdd(b.pos, queue, u, b.pl.last)
<1>1. /\ p \in Lists(Named(c, Len(c), listed)) /\ InRange(p) /\ p.index \in 0 .. Amount(p)
      /\ c \in Seq(Command) /\ Len(c) \in Nat
  BY LenProperties DEF Mirrors, Fits
<1>2. /\ Amount(p) \in Nat /\ p.first \in Nat /\ p.first <= Amount(p) /\ p.started \in BOOLEAN
      /\ s \in Nat /\ MaxSize \in Nat
  BY <1>1, LenProperties, PlaylistAssumption DEF Lists, Amount, InRange, End
<1>3. q \in 0 .. Amount(p) /\ InsertPosition(a.pl, pos2, r2, s) \in 0 .. Amount(a.pl)
  BY BatchRange
<1>4. pos \in Int /\ pos < 0 /\ pos # LAST_ROTATED /\ pos2 \in Where
      /\ (pos2 = LAST_SHUFFLED => pos = LAST_SHUFFLED) /\ (pos = LAST_SHUFFLED => pos # PREPEND)
  BY DEF Where, PREPEND, INSERT, INSERT_LAST, INSERT_FIRST, INSERT_SHUFFLED, LAST_SHUFFLED, LAST_ROTATED
<1>5. /\ Mirrors(d, listed, a.pl) /\ Settled(a.pl) /\ Len(d) = Len(c) + 1
      /\ x \in Command /\ Amount(a.pl) = Amount(p) + 1
      /\ a.pl.index = (IF pos < 0 /\ Amount(p) > 0 /\ q <= p.index /\ p.started /\ pos /= LAST_ROTATED
                       THEN p.index + 1 ELSE p.index)
      /\ a.pl.first = (IF Turns(p, pos, q) \/ (pos >= 0 /\ Amount(p) > 0 /\ q < p.first /\ p.started)
                       THEN p.first + 1 ELSE p.first)
  <2>1. Amount(p) < MaxSize
    BY <1>2
  <2> HIDE DEF s
  <2> QED BY <1>3, <1>4, <2>1, AddMirrors
<1> HIDE DEF a, x, d, pos2
<1>8. InsertPosition(a.pl, pos2, r2, s) \in 0 .. Amount(a.pl)
  BY <1>3 DEF a, pos2
<1>9. Mirrors(Append(d, y), listed, b.pl) /\ Settled(b.pl) /\ y \in Command
  <2> DEFINE m == a.pl
             bb == AddTrack(m, pos2, queue, u, Len(d) + 1, r2, s)
             yy == CAdd(bb.pos, queue, u, bb.pl.last)
  <2>1. /\ Mirrors(d, listed, m) /\ Settled(m) /\ Amount(m) < MaxSize
        /\ pos2 \in Int /\ InsertPosition(m, pos2, r2, s) \in 0 .. Amount(m)
    BY <1>2, <1>4, <1>5, <1>8, SMTT(40)
       DEF Where, PREPEND, INSERT, INSERT_LAST, INSERT_FIRST, INSERT_SHUFFLED, LAST_SHUFFLED
  <2>2. Len(d) + 1 = Len(c) + 2
    BY <1>1, <1>5
  <2>3. b = bb
    BY <2>2
  <2> HIDE DEF m, s
  <2>4. Mirrors(Append(d, yy), listed, bb.pl) /\ Settled(bb.pl) /\ yy \in Command
    BY <2>1, AddMirrors
  <2> HIDE DEF b, bb
  <2> QED BY <2>3, <2>4
<1> QED BY <1>5, <1>9 DEF a, x, d, pos2

\* A move: the line of the delete and the line of the add.
LEMMA MoveMirrors ==
  ASSUME NEW c, NEW listed, NEW p, Mirrors(c, listed, p), Settled(p),
         NEW i \in Int, InList(p, i), InList(p, p.index),
         NEW pos \in Int, pos \in {PREPEND, INSERT_LAST} \/ pos \in 0 .. Amount(p) - 2
  PROVE  LET m == RemoveTrack(p, i)
             e == EntryAt(p, i)
             a == AddTrack(m, pos, e.queued, e.track, Len(c) + 2, 0, 0)
             d == Append(Append(c, CDelete(i)), CAdd(a.pos, e.queued, e.track, a.pl.last))
         IN  /\ Mirrors(d, listed, a.pl) /\ Settled(a.pl) /\ Amount(a.pl) = Amount(p)
             /\ CDelete(i) \in Command /\ CAdd(a.pos, e.queued, e.track, a.pl.last) \in Command
             /\ a.pl.index \in 0 .. Amount(p)
             /\ i # p.index => a.pl.index + 1 <= Amount(p)
<1> DEFINE m == RemoveTrack(p, i)
           e == EntryAt(p, i)
           c1 == Append(c, CDelete(i))
           a == AddTrack(m, pos, e.queued, e.track, Len(c) + 2, 0, 0)
           x == CAdd(a.pos, e.queued, e.track, a.pl.last)
<1>1. /\ p \in Lists(Named(c, Len(c), listed)) /\ InRange(p) /\ p.index \in 0 .. Amount(p)
      /\ c \in Seq(Command) /\ Len(c) \in Nat
  BY LenProperties DEF Mirrors, Fits
<1>2. /\ Amount(p) \in Nat /\ Amount(p) = Len(p.idx) /\ p.idx \in Seq(Named(c, Len(c), listed))
      /\ Amount(p) <= MaxSize /\ MaxSize \in Nat
      /\ 0 <= i /\ i < Amount(p) /\ 0 <= p.index /\ p.index < Amount(p)
  BY <1>1, LenProperties, PlaylistAssumption DEF Lists, Amount, InRange, InList
<1>3. e.queued \in BOOLEAN /\ e.track \in Names
  <2>1. i + 1 \in 1 .. Len(p.idx)
    BY <1>2
  <2>2. e \in Named(c, Len(c), listed)
    BY <1>2, <2>1, ElementOfSeq DEF EntryAt
  <2>3. e \in Entry
    BY <2>2 DEF Named
  <2> QED BY <2>3 DEF Entry
<1> HIDE DEF e
<1>4. /\ Mirrors(c1, listed, m) /\ Settled(m) /\ Len(c1) = Len(c) + 1
      /\ CDelete(i) \in Command /\ Amount(m) = Amount(p) - 1
      /\ m.index = (IF i < p.index THEN p.index - 1 ELSE p.index)
  <2>1. i \in 0 .. Amount(p) - 1
    BY <1>2
  <2> QED BY <2>1, RemoveMirrors
<1> HIDE DEF m, c1
<1>5. m.first \in 0 .. Amount(m) /\ Amount(m) \in Nat /\ m.index \in 0 .. Amount(m)
  BY <1>2, <1>4 DEF Mirrors, Fits, InRange
<1>6. InsertPosition(m, pos, 0, 0) \in 0 .. Amount(m)
  <2>1. CASE pos = PREPEND
    BY <1>5, <2>1, Positions
  <2>2. CASE pos = INSERT_LAST
    BY <1>5, <2>2, Positions
  <2>3. CASE pos \in 0 .. Amount(p) - 2
    <3>1. pos \in Nat /\ pos \in 0 .. Amount(m)
      BY <1>2, <1>4, <2>3
    <3> QED BY <3>1, Positions
  <2> QED BY <2>1, <2>2, <2>3
<1>7. /\ Mirrors(Append(c1, x), listed, a.pl) /\ Settled(a.pl) /\ x \in Command
      /\ Amount(a.pl) = Amount(m) + 1
      /\ a.pl.index = m.index + 1 \/ a.pl.index = m.index
  <2> DEFINE z == 0
             t == e.track
             queue == e.queued
             q == InsertPosition(m, pos, z, z)
             b == AddTrack(m, pos, queue, t, Len(c1) + 1, z, z)
             y == CAdd(b.pos, queue, t, b.pl.last)
  <2>1. q \in 0 .. Amount(m) /\ Amount(m) < MaxSize /\ t \in Names /\ queue \in BOOLEAN
    BY <1>2, <1>3, <1>4, <1>5, <1>6
  <2>2. Len(c1) + 1 = Len(c) + 2
    BY <1>1, <1>4
  <2>3. a = b /\ x = y
    BY <2>2
  <2> HIDE DEF z, t, queue
  <2>4. /\ Mirrors(Append(c1, y), listed, b.pl) /\ Settled(b.pl) /\ y \in Command
        /\ Amount(b.pl) = Amount(m) + 1
        /\ b.pl.index = (IF pos < 0 /\ Amount(m) > 0 /\ q <= m.index /\ m.started /\ pos /= LAST_ROTATED
                         THEN m.index + 1 ELSE m.index)
    BY <1>4, <2>1, AddMirrors
  <2>5. b.pl.index = m.index + 1 \/ b.pl.index = m.index
    BY <2>4
  <2> HIDE DEF a, b, x, y
  <2> QED BY <2>3, <2>4, <2>5
<1>8. i # p.index => m.index + 1 <= Amount(m)
  BY <1>1, <1>2, <1>4, SMTT(40)
<1> HIDE DEF a, x
<1>9. Amount(a.pl) = Amount(p) /\ a.pl.index \in 0 .. Amount(p)
      /\ (i # p.index => a.pl.index + 1 <= Amount(p))
  <2>1. Amount(a.pl) = Amount(p)
    BY <1>2, <1>4, <1>7
  <2>2. m.index \in Int /\ 0 <= m.index /\ m.index <= Amount(p) - 1
    BY <1>2, <1>4, <1>5
  <2>3. i # p.index => m.index + 1 <= Amount(p) - 1
    BY <1>4, <1>8
  <2>4. CASE a.pl.index = m.index + 1
    BY <1>2, <2>1, <2>2, <2>3, <2>4
  <2>5. CASE a.pl.index = m.index
    BY <1>2, <2>1, <2>2, <2>3, <2>5
  <2> QED BY <1>7, <2>4, <2>5
<1> QED BY <1>4, <1>7, <1>9 DEF a, x, c1, m, e

\* The one track left in a new control file.
LEMMA LeftMirrors ==
  ASSUME NEW c, NEW listed, NEW p, Mirrors(c, listed, p), InList(p, p.index)
  PROVE  LET e == EntryAt(p, p.index)
             u == [p EXCEPT !.idx = <<Left(e)>>, !.index = 0, !.first = 0,
                            !.last = IF @ = 0 THEN -1 ELSE 0]
             d == <<CAdd(0, TRUE, e.track, 0)>>
         IN  Mirrors(d, FALSE, u) /\ Settled(u) /\ Len(d) = 1
<1> DEFINE e == EntryAt(p, p.index)
           t == e.track
           u == [p EXCEPT !.idx = <<Left(e)>>, !.index = 0, !.first = 0,
                          !.last = IF @ = 0 THEN -1 ELSE 0]
           z == << >>
<1>1. /\ p \in Lists(Named(c, Len(c), listed)) /\ InRange(p) /\ p.index \in 0 .. Amount(p)
  BY DEF Mirrors, Fits
<1>2. /\ Amount(p) \in Nat /\ Amount(p) = Len(p.idx) /\ p.idx \in Seq(Named(c, Len(c), listed))
      /\ Amount(p) <= MaxSize /\ MaxSize \in Nat
      /\ p.index \in Int /\ 0 <= p.index /\ p.index < Amount(p)
  BY <1>1, LenProperties, PlaylistAssumption DEF Lists, Amount, InRange, InList
<1>3. t \in Names
  <2>1. p.index + 1 \in 1 .. Len(p.idx)
    BY <1>1, <1>2
  <2>2. e \in Named(c, Len(c), listed)
    BY <1>2, <2>1, ElementOfSeq DEF EntryAt
  <2>3. e \in Entry
    BY <2>2 DEF Named
  <2> QED BY <2>3 DEF Entry
<1>4. u = [idx |-> <<Inserted(TRUE, 1, t)>>, index |-> 0, first |-> 0, last |-> IF p.last = 0 THEN -1 ELSE 0, started |-> p.started]
  <2> DEFINE s == <<Left(e)>>
             l == IF p.last = 0 THEN -1 ELSE 0
             z0 == 0
             r == [idx |-> p.idx, index |-> p.index, first |-> p.first, last |-> p.last, started |-> p.started]
             u1 == [r EXCEPT !.idx = s]
             u2 == [u1 EXCEPT !.index = z0]
             u3 == [u2 EXCEPT !.first = z0]
             u4 == [u3 EXCEPT !.last = l]
  <2>1. p = r
    BY <1>1, Fields
  <2>2. u = [p EXCEPT !.idx = s, !.index = z0, !.first = z0, !.last = l]
    OBVIOUS
  <2>3. s = <<Inserted(TRUE, 1, t)>>
    BY DEF Left
  <2> HIDE DEF s, l, u, z0
  <2>A. [r EXCEPT !.idx = s, !.index = z0, !.first = z0, !.last = l] = u4
    OBVIOUS
  <2>4. u1 = [idx |-> s, index |-> p.index, first |-> p.first, last |-> p.last, started |-> p.started]
    OBVIOUS
  <2> HIDE DEF u1, r
  <2>5. u2 = [idx |-> s, index |-> z0, first |-> p.first, last |-> p.last, started |-> p.started]
    BY <2>4
  <2> HIDE DEF u2
  <2>6. u3 = [idx |-> s, index |-> z0, first |-> z0, last |-> p.last, started |-> p.started]
    BY <2>5
  <2> HIDE DEF u3
  <2>7. u4 = [idx |-> s, index |-> z0, first |-> z0, last |-> l, started |-> p.started]
    BY <2>6
  <2> HIDE DEF u4
  <2> QED BY <2>1, <2>2, <2>3, <2>A, <2>7 DEF l, z0
<1> DEFINE n == 0
           no == FALSE
           yes == TRUE
<1>N. /\ n \in Int /\ n \in Nat /\ n = 0 /\ no \in BOOLEAN /\ ~no /\ no = FALSE
      /\ yes \in BOOLEAN /\ yes = TRUE
  OBVIOUS
<1> HIDE DEF e, t, u, n, no, yes
<1> DEFINE f == Fresh(no)
<1>5. /\ Mirrors(z, no, f) /\ Settled(f) /\ Amount(f) = 0 /\ f.first = 0
  BY <1>N, FreshMirrors, FreshShape
<1>6. z \in Seq(Command) /\ Len(z) = 0
  BY EmptySeq
<1>7. f.idx = z
  BY <1>N DEF Fresh
<1> HIDE DEF z, f
<1> DEFINE a == AddTrack(f, n, yes, t, Len(z) + 1, n, n)
           x == CAdd(a.pos, yes, t, n)
           b == Append(z, x)
           q == InsertPosition(f, n, n, n)
           d == <<CAdd(n, yes, t, n)>>
           w == Inserted(yes, Len(z) + 1, t)
<1>Q. q = n
  BY <1>N, Positions
<1>8. /\ x \in Command /\ b \in Seq(Command) /\ Sound(b, no) /\ Len(b) = Len(z) + 1
      /\ a.pl \in Lists(Named(b, Len(b), no)) /\ InRange(a.pl)
      /\ Amount(a.pl) = Amount(f) + 1
      /\ a.pl.idx = Replay(b, no).pl.idx /\ a.pl.first = Replay(b, no).pl.first
      /\ Replay(b, no).pl.last = n
      /\ a.pl.idx = InsertAt(f.idx, q + 1, w)
      /\ a.pl.first = (IF Turns(f, n, q) \/ (n >= 0 /\ Amount(f) > 0 /\ q < f.first /\ f.started)
                       THEN f.first + 1 ELSE f.first)
  <2>1. q \in 0 .. Amount(f)
    BY <1>5, <1>N, <1>Q
  <2>2. Amount(f) < MaxSize
    <3>1. 0 < MaxSize
      BY <1>2
    <3> QED BY <1>5, <3>1
  <2>3. n \in -1 .. Amount(f) + 1
    BY <1>5, <1>N
  <2>4. n \in Int /\ yes \in BOOLEAN /\ t \in Names
    BY <1>3, <1>N
  <2>5. Mirrors(z, no, f) /\ Settled(f)
    BY <1>5
  <2> QED BY <2>1, <2>2, <2>3, <2>4, <2>5, RedoAdd
<1>9. a.pos = n /\ a.pl.first = n /\ a.pl.idx = <<w>>
  <2>2. ~Turns(f, n, q)
    BY <1>N DEF Turns
  <2>3. a.pos = Written(f, n, q)
    BY DEF AddTrack
  <2>5. Written(f, n, q) = n
    BY <1>Q, <2>2 DEF Written
  <2>6. InsertAt(z, q + 1, w) = <<w>>
    <3> DEFINE one == 1
    <3>0. one = q + 1 /\ one = 1 /\ one \in Int
      BY <1>N, <1>Q
    <3>1. InsertAt(z, q + 1, w) = InsertAt(z, one, w)
      BY <3>0
    <3> DEFINE s == InsertAt(z, one, w)
               S == {w}
    <3>2. z \in Seq(S) /\ one \in 1 .. Len(z) + 1 /\ w \in S
      BY <1>6, EmptySeq DEF z
    <3> HIDE DEF S, one, w
    <3>3. /\ s \in Seq(S) /\ Len(s) = Len(z) + 1
          /\ \A k \in 1 .. Len(z) + 1 :
               s[k] = IF k < one THEN z[k] ELSE IF k = one THEN w ELSE z[k - 1]
      <4>1. Put(S, z, one, w)
        BY <3>2, InsertAtPuts
      <4> QED BY <4>1 DEF Put, s
    <3> HIDE DEF s
    <3>4. Len(s) = 1
      BY <1>6, <3>3
    <3>5. s[one] = w
      <4>1. one \in 1 .. Len(z) + 1 /\ ~ (one < one)
        BY <3>0, <3>2
      <4> QED BY <3>3, <4>1
    <3>6. s = <<w>>
      <4>1. <<w>> \in Seq(S) /\ Len(<<w>>) = 1 /\ <<w>>[1] = w
        BY <3>2
      <4>2. \A k \in 1 .. Len(s) : s[k] = <<w>>[k]
        BY <3>0, <3>4, <3>5, <4>1
      <4> QED BY <3>3, <3>4, <4>1, <4>2, SeqEqual
    <3> QED BY <3>1, <3>6 DEF s
  <2> HIDE DEF a, w, q
  <2>7. a.pl.first = n
    BY <1>5, <1>8, <1>N, <2>2
  <2> QED BY <1>7, <1>8, <1>Q, <2>3, <2>5, <2>6, <2>7
<1>10. b = d
  <2>1. x = CAdd(n, yes, t, n)
    BY <1>9
  <2> HIDE DEF x
  <2>2. Append(<< >>, x) = <<x>>
    OBVIOUS
  <2> QED BY <2>1, <2>2 DEF z
<1>W. w = Inserted(TRUE, 1, t)
  BY <1>6, <1>N
<1> HIDE DEF a, x, b, d, w, q
<1>11. /\ u = [idx |-> <<w>>, index |-> 0, first |-> 0, last |-> IF p.last = 0 THEN -1 ELSE 0,
                started |-> p.started]
  BY <1>4, <1>W
<1> DEFINE l == IF p.last = 0 THEN -1 ELSE 0
<1>L. l \in Int /\ (l = -1 \/ l = 0)
  OBVIOUS
<1> HIDE DEF l
<1>12. u.idx = a.pl.idx /\ u.first = 0 /\ u.index = 0 /\ u.last = l /\ u.started = p.started
  BY <1>9, <1>11 DEF l
<1>A. Amount(u) = Amount(a.pl) /\ Amount(a.pl) = 1 /\ Len(d) = 1
  <2>1. Amount(u) = Amount(a.pl)
    BY <1>12 DEF Amount
  <2>2. Amount(a.pl) = 1
    BY <1>5, <1>8
  <2>3. Len(d) = 1
    BY <1>6, <1>8, <1>10
  <2> QED BY <2>1, <2>2, <2>3
<1>13. u \in Lists(Named(d, Len(d), no))
  <2> DEFINE E == Named(d, Len(d), no)
  <2>1. a.pl.idx \in Seq(E)
    BY <1>8, <1>10 DEF Lists
  <2>2. p.started \in BOOLEAN
    BY <1>1 DEF Lists
  <2>3. u = [idx |-> a.pl.idx, index |-> 0, first |-> 0, last |-> l, started |-> p.started]
    BY <1>9, <1>11 DEF l
  <2> HIDE DEF E
  <2>4. u \in Lists(E)
    BY <1>L, <2>1, <2>2, <2>3 DEF Lists
  <2> QED BY <2>4 DEF E
<1>14. InRange(u)
  <2>1. Amount(u) <= MaxSize
    <3>1. 1 <= MaxSize
      BY <1>2
    <3> QED BY <1>A, <3>1
  <2>2. u.first \in 0 .. Amount(u)
    BY <1>12, <1>A
  <2>3. u.last \in -1 .. Amount(u)
    BY <1>12, <1>A, <1>L
  <2> QED BY <2>1, <2>2, <2>3 DEF InRange
<1>15. u.last = n \/ {u.last, n} = {-1, 0}
  <2>1. CASE l = 0
    BY <1>12, <1>N, <2>1
  <2>2. CASE l = -1
    BY <1>12, <1>N, <2>2
  <2> QED BY <1>L, <2>1, <2>2
<1>16. Fits(d, no, u)
  <2>1. u.index \in 0 .. Amount(u)
    BY <1>12, <1>A
  <2>2. u.idx = Replay(d, no).pl.idx
    BY <1>8, <1>10, <1>12
  <2> QED BY <1>8, <1>10, <1>13, <1>14, <2>1, <2>2 DEF Fits
<1>17. Mirrors(d, no, u)
  <2>1. u.first = Replay(d, no).pl.first
    BY <1>8, <1>9, <1>10, <1>12, <1>N
  <2>2. Replay(d, no).pl.last = n
    BY <1>8, <1>10
  <2> QED BY <1>15, <1>16, <2>1, <2>2 DEF Mirrors
<1>18. Settled(u)
  BY <1>12 DEF Settled
<1> QED BY <1>17, <1>18, <1>A DEF d, u, e, t, n, no, yes

\* The queued tracks that playlist_next() leaves behind, one after another.
Drops(p, steps, mode) ==
  CHOOSE after : after = [i \in 0 .. steps |->
    IF i = 0 THEN [pl |-> p, steps |-> steps, log |-> << >>]
    ELSE DropOne(after[i - 1], i, mode)]

\* playlist_next() deletes step by step.
LEMMA DropsDef ==
  ASSUME NEW p, NEW steps \in Nat, NEW mode
  PROVE  /\ DropQueued(p, steps, mode) = Drops(p, steps, mode)[steps]
         /\ Drops(p, steps, mode)[0] = [pl |-> p, steps |-> steps, log |-> << >>]
         /\ \A i \in 1 .. steps :
              Drops(p, steps, mode)[i] = DropOne(Drops(p, steps, mode)[i - 1], i, mode)
<1> DEFINE F == [pl |-> p, steps |-> steps, log |-> << >>]
           Step(v, k) == DropOne(v, k, mode)
           Is(g, n) == g = [k \in 0 .. n |-> IF k = 0 THEN F ELSE Step(g[k - 1], k)]
           T == {n \in Nat : \E g : Is(g, n)}
           D == Drops(p, steps, mode)
<1>D. D = CHOOSE g : Is(g, steps)
  BY DEF Drops
<1>S. DropQueued(p, steps, mode) = D[steps]
  BY DEF DropQueued, Drops
<1>U. \A v, k : Step(v, k) = DropOne(v, k, mode)
  OBVIOUS
<1> HIDE DEF Step, F
<1>1. 0 \in T
  <2>1. Is([k \in 0 .. 0 |-> F], 0)
    OBVIOUS
  <2> QED BY <2>1
<1>2. ASSUME NEW n \in Nat, n \in T PROVE n + 1 \in T
  <2>1. PICK g : Is(g, n)
    BY <1>2
  <2> DEFINE h == [k \in 0 .. n + 1 |-> IF k = n + 1 THEN Step(g[n], n + 1) ELSE g[k]]
  <2>2. Is(h, n + 1)
    <3>1. ASSUME NEW k \in 0 .. n + 1 PROVE h[k] = IF k = 0 THEN F ELSE Step(h[k - 1], k)
      <4>1. CASE k = n + 1
        <5>1. h[n] = g[n]
          OBVIOUS
        <5> QED BY <4>1, <5>1
      <4>2. CASE k # n + 1 /\ k # 0
        <5>1. h[k] = g[k] /\ h[k - 1] = g[k - 1]
          BY <4>2
        <5>2. g[k] = Step(g[k - 1], k)
          BY <2>1, <4>2
        <5> QED BY <5>1, <5>2, <4>2
      <4>3. CASE k = 0
        <5>1. g[0] = F
          BY <2>1
        <5> QED BY <4>3, <5>1
      <4> QED BY <4>1, <4>2, <4>3
    <3> QED BY <3>1
  <2> HIDE DEF h, Is
  <2>3. \E f : Is(f, n + 1)
    BY <2>2
  <2> QED BY <2>3
<1>3. \E g : Is(g, steps)
  <2>1. Nat \subseteq T
    <3> HIDE DEF T
    <3> QED BY <1>1, <1>2, Induction
  <2> QED BY <2>1
<1> HIDE DEF D
<1>4. Is(D, steps)
  <2> HIDE DEF Is
  <2> QED BY <1>3, <1>D
<1>5. D[0] = F /\ \A k \in 1 .. steps : D[k] = Step(D[k - 1], k)
  BY <1>4
<1> QED BY <1>5, <1>S, <1>U DEF D, F

\* What is dropped is deleted with a line for each.
Dropped(c, listed, d) ==
  /\ d.log \in Seq(Command) /\ d.steps \in Int
  /\ \A l \in 1 .. Len(d.log) : d.log[l].op = "D"
  /\ Mirrors(c \o d.log, listed, d.pl) /\ Settled(d.pl)

\* playlist_next() leaves such a list behind.
LEMMA DropMirrors ==
  ASSUME NEW c, NEW listed, NEW p, Mirrors(c, listed, p), Settled(p), NEW steps \in Nat,
         NEW mode \in {"off", "all", "one", "shuffle"}
  PROVE  Dropped(c, listed, DropQueued(p, steps, mode))
<1> DEFINE D == Drops(p, steps, mode)
           OnlyDeletes(log) == \A l \in 1 .. Len(log) : log[l].op = "D"
           Good(s) == /\ s.log \in Seq(Command) /\ s.steps \in Int /\ OnlyDeletes(s.log)
                      /\ Mirrors(c \o s.log, listed, s.pl) /\ Settled(s.pl)
           T == {i \in Nat : i <= steps => Good(D[i])}
<1>0. c \in Seq(Command)
  BY DEF Mirrors, Fits
<1>A. /\ DropQueued(p, steps, mode) = D[steps]
      /\ D[0] = [pl |-> p, steps |-> steps, log |-> << >>]
      /\ \A i \in 1 .. steps : D[i] = DropOne(D[i - 1], i, mode)
  BY DropsDef
<1> HIDE DEF D
<1>1. 0 \in T
  <2>1. D[0] = [pl |-> p, steps |-> steps, log |-> << >>]
    BY <1>A
  <2>2. << >> \in Seq(Command) /\ c \o << >> = c
    BY <1>0, EmptySeq, ConcatEmptySeq
  <2> HIDE DEF D
  <2>3. D[0].pl = p /\ D[0].steps = steps /\ D[0].log = << >>
    BY <2>1
  <2>5. OnlyDeletes(<< >>)
    BY EmptySeq
  <2> HIDE DEF OnlyDeletes
  <2>4. Good(D[0])
    BY <2>2, <2>3, <2>5
  <2> QED BY <2>4
<1>2. ASSUME NEW i \in Nat, i \in T PROVE i + 1 \in T
  <2> SUFFICES ASSUME i + 1 <= steps PROVE Good(D[i + 1])
    OBVIOUS
  <2> DEFINE s == D[i]
             k == NextIndex(s.pl, (i + 1) - 1, mode)
             dropped == [pl |-> RemoveTrack(s.pl, k), steps |-> s.steps - 1,
                         log |-> Append(s.log, CDelete(k))]
  <2>1. Good(s)
    BY <1>2
  <2>2. D[i + 1] = IF k >= 0 /\ EntryAt(s.pl, k).queued THEN dropped ELSE s
    <3>1. D[i + 1] = DropOne(D[(i + 1) - 1], i + 1, mode)
      <4> DEFINE j == i + 1
      <4>1. j \in 1 .. steps
        OBVIOUS
      <4> HIDE DEF j, s, k, dropped
      <4>2. D[j] = DropOne(D[j - 1], j, mode)
        BY <1>A, <4>1
      <4> HIDE DEF D
      <4> QED BY <4>2 DEF j
    <3>2. (i + 1) - 1 = i
      OBVIOUS
    <3> QED BY <3>1, <3>2 DEF DropOne
  <2> HIDE DEF D, s
  <2>3. CASE k >= 0 /\ EntryAt(s.pl, k).queued
    <3> DEFINE E == Named(c \o s.log, Len(c \o s.log), listed)
    <3>1. s.pl \in Lists(E) /\ InRange(s.pl) /\ s.pl.index \in 0 .. Amount(s.pl)
      BY <2>1 DEF Mirrors, Fits
    <3>2. k \in Int /\ (k = -1 \/ InList(s.pl, k))
      <4> DEFINE m == s.pl
                 n == (i + 1) - 1
      <4>1. m \in Lists(E) /\ InRange(m) /\ m.index \in 0 .. Amount(m) /\ n \in Int
        BY <3>1
      <4> HIDE DEF E, m, n
      <4>2. NextIndex(m, n, mode) \in Int /\ (NextIndex(m, n, mode) = -1 \/ InList(m, NextIndex(m, n, mode)))
        BY <4>1, NextRange
      <4> QED BY <4>2 DEF m, n
    <3> HIDE DEF k
    <3>3. k \in 0 .. Amount(s.pl) - 1
      <4>1. Amount(s.pl) \in Nat
        BY <3>1, LenProperties DEF Lists, Amount
      <4>2. InList(s.pl, k)
        BY <2>3, <3>2
      <4> QED BY <3>2, <4>1, <4>2 DEF InList
    <3>4. /\ Mirrors(Append(c \o s.log, CDelete(k)), listed, RemoveTrack(s.pl, k))
          /\ Settled(RemoveTrack(s.pl, k)) /\ CDelete(k) \in Command
      <4> DEFINE m == s.pl
                 b == c \o s.log
      <4>1. Mirrors(b, listed, m) /\ Settled(m) /\ k \in 0 .. Amount(m) - 1
        BY <2>1, <3>3
      <4> HIDE DEF m, b
      <4>2. /\ Mirrors(Append(b, CDelete(k)), listed, RemoveTrack(m, k))
            /\ Settled(RemoveTrack(m, k)) /\ CDelete(k) \in Command
        BY <4>1, RemoveMirrors
      <4> QED BY <4>2 DEF m, b
    <3>5. s.log \in Seq(Command) /\ s.steps \in Int /\ OnlyDeletes(s.log)
      <4> HIDE DEF OnlyDeletes
      <4> QED BY <2>1
    <3>6. Append(s.log, CDelete(k)) \in Seq(Command)
      BY <3>4, <3>5, AppendProperties
    <3>7. c \o Append(s.log, CDelete(k)) = Append(c \o s.log, CDelete(k))
      BY <1>0, <3>4, <3>5, LogAppend, SMTT(40)
    <3>d. OnlyDeletes(Append(s.log, CDelete(k)))
      <4> DEFINE log == s.log
                 x == CDelete(k)
                 b == Append(log, x)
      <4>1. log \in Seq(Command) /\ x \in Command /\ x.op = "D" /\ \A l \in 1 .. Len(log) : log[l].op = "D"
        BY <3>4, <3>5 DEF CDelete
      <4> HIDE DEF log, x
      <4>2. /\ Len(log) \in Nat /\ Len(b) = Len(log) + 1 /\ b[Len(log) + 1] = x
            /\ \A l \in 1 .. Len(log) : b[l] = log[l]
        BY <4>1, LenProperties, AppendProperties
      <4> HIDE DEF b
      <4>3. ASSUME NEW l \in 1 .. Len(b) PROVE b[l].op = "D"
        <5>1. l \in 1 .. Len(log) \/ l = Len(log) + 1
          BY <4>2
        <5> QED BY <4>1, <4>2, <5>1
      <4> QED BY <4>3 DEF b, log, x
    <3>8. /\ dropped.pl = RemoveTrack(s.pl, k) /\ dropped.steps = s.steps - 1
          /\ dropped.log = Append(s.log, CDelete(k))
      BY DEF k
    <3>9. s.steps - 1 \in Int
      BY <3>5
    <3> HIDE DEF dropped
    <3>10. Good(dropped)
      <4> HIDE DEF OnlyDeletes
      <4> QED BY <3>4, <3>6, <3>7, <3>8, <3>9, <3>d
    <3>11. D[i + 1] = dropped
      BY <2>2, <2>3 DEF k
    <3> HIDE DEF Good
    <3> QED BY <3>10, <3>11
  <2>4. CASE ~(k >= 0 /\ EntryAt(s.pl, k).queued)
    <3>1. D[i + 1] = s
      BY <2>2, <2>4
    <3> HIDE DEF Good
    <3> QED BY <2>1, <3>1
  <2> QED BY <2>3, <2>4
<1>3. steps \in T
  <2>1. Nat \subseteq T
    <3> HIDE DEF T
    <3> QED BY <1>1, <1>2, Induction
  <2> HIDE DEF T
  <2> QED BY <2>1
<1>4. Good(D[steps])
  <2> HIDE DEF Good
  <2> QED BY <1>3
<1>5. DropQueued(p, steps, mode) = D[steps]
  BY <1>A
<1> QED BY <1>4, <1>5 DEF Dropped

\* The list while it runs, on what the control file holds.
Kept(c, listed, p) == Mirrors(c, listed, p) /\ Settled(p)

\* The inductive invariant.
IInv ==
  /\ ctl \in Seq(Command) /\ Len(ctl) <= MaxLines /\ synced \in 0 .. Len(ctl)
  /\ fromFile \in BOOLEAN /\ phase \in {"on", "down"} /\ saved.index \in Nat
  /\ Sound(ctl, fromFile)
  /\ phase = "down" => pl = Fresh(FALSE)
  /\ Running => Kept(ctl, fromFile, pl)

\* The invariant of a running list.
LEMMA Runs ==
  ASSUME Kept(ctl', fromFile', pl'), Len(ctl') <= MaxLines, synced' \in 0 .. Len(ctl'),
         fromFile' \in BOOLEAN, phase' = "on", saved'.index \in Nat
  PROVE  IInv'
BY DEF IInv, Kept, Mirrors, Fits, Running

\* The invariant holds at power on.
LEMMA InitOk == Init => IInv
<1> SUFFICES ASSUME Init PROVE IInv
  OBVIOUS
<1> DEFINE no == FALSE
           z == << >>
<1>1. no \in BOOLEAN /\ no = FALSE /\ z = << >>
  OBVIOUS
<1>2. z \in Seq(Command) /\ Len(z) = 0
  BY EmptySeq
<1> HIDE DEF no
<1>3. Mirrors(z, no, Fresh(no))
  BY <1>1, FreshMirrors
<1>4. Sound(z, no)
  BY <1>3 DEF Mirrors, Fits
<1> HIDE DEF z
<1>5. MaxLines \in Nat
  BY PlaylistAssumption
<1>6. ctl = z /\ fromFile = no /\ pl = Fresh(no) /\ synced = 0 /\ phase = "down" /\ saved.index = 0
  BY <1>1 DEF Init, Anything
<1>7. ctl \in Seq(Command) /\ Len(ctl) <= MaxLines /\ synced \in 0 .. Len(ctl)
  BY <1>2, <1>5, <1>6
<1>8. Sound(ctl, fromFile) /\ (phase = "down" => pl = Fresh(FALSE))
  BY <1>1, <1>4, <1>6
<1>9. fromFile \in BOOLEAN /\ phase \in {"on", "down"} /\ saved.index \in Nat /\ ~Running
  BY <1>1, <1>6 DEF Running
<1> QED BY <1>7, <1>8, <1>9 DEF IInv

\* playlist_create() and playlist_start() keep the invariant.
LEMMA CreateAndStartOk ==
  ASSUME NEW i, CreateAndStart(i), IInv
  PROVE  IInv'
<1> DEFINE yes == TRUE
           f == Fresh(yes)
           z == << >>
           v == [f EXCEPT !.index = i, !.started = yes]
<1>1. yes \in BOOLEAN /\ yes = TRUE /\ z = << >> /\ z \in Seq(Command) /\ Len(z) = 0
  BY EmptySeq
<1>0. Len(Files) \in Nat /\ MaxLines \in Nat
  BY PlaylistAssumption, LenProperties
<1>2. /\ phase' = "on" /\ ctl' = z /\ fromFile' = yes /\ pl' = v /\ synced' = 0
      /\ saved'.index = 0 /\ i \in 0 .. Len(Files) - 1
  BY DEF CreateAndStart, Anything
<1>3. v = [f EXCEPT !.index = i, !.started = yes]
  OBVIOUS
<1> HIDE DEF yes
<1>4. Mirrors(z, yes, f) /\ Settled(f)
  BY <1>1, FreshMirrors
<1>5. Amount(f) = Len(Files)
  BY <1>1, FreshShape
<1>6. i \in 0 .. Amount(f)
  BY <1>0, <1>2, <1>5
<1>7. f.started => yes
  BY <1>1
<1> HIDE DEF f, v, z
<1>8. Mirrors(z, yes, v) /\ Settled(v)
  BY <1>1, <1>3, <1>4, <1>6, <1>7, SameMirrors
<1> QED BY <1>0, <1>1, <1>2, <1>8, Runs DEF Kept

\* A new list of nothing keeps the invariant.
LEMMA CreateEmptyOk ==
  ASSUME CreateEmpty, IInv
  PROVE  IInv'
<1> DEFINE no == FALSE
           z == << >>
<1>1. no \in BOOLEAN /\ no = FALSE /\ z = << >> /\ Len(z) = 0 /\ MaxLines \in Nat
  BY PlaylistAssumption, EmptySeq
<1>2. phase' = "on" /\ ctl' = z /\ fromFile' = no /\ pl' = Fresh(no) /\ synced' = 0 /\ saved'.index = 0
  BY DEF CreateEmpty, Anything
<1> HIDE DEF no
<1>3. Kept(z, no, Fresh(no))
  BY <1>1, FreshMirrors DEF Kept
<1> HIDE DEF z
<1> QED BY <1>1, <1>2, <1>3, Runs

\* playlist_start() keeps the invariant.
LEMMA StartOk ==
  ASSUME Start, IInv
  PROVE  IInv'
<1> DEFINE yes == TRUE
           n == 0
<1>1. yes \in BOOLEAN /\ yes = TRUE /\ n = 0 /\ (pl.started => yes)
  OBVIOUS
<1>2. /\ Running /\ phase = "on" /\ pl' = [pl EXCEPT !.index = n, !.started = yes] /\ synced' = Len(ctl)
      /\ ctl' = ctl /\ fromFile' = fromFile /\ saved' = saved /\ phase' = phase
  BY DEF Start, Running
<1>3. Mirrors(ctl, fromFile, pl) /\ Settled(pl) /\ Len(ctl) \in Nat /\ Amount(pl) \in Nat
  BY <1>2, LenProperties DEF IInv, Kept, Mirrors, Fits, Lists, Amount
<1>4. n \in 0 .. Amount(pl)
  BY <1>1, <1>3
<1> HIDE DEF yes, n
<1>5. Kept(ctl, fromFile, pl')
  BY <1>1, <1>2, <1>3, <1>4, SameMirrors DEF Kept
<1>6. Len(ctl') <= MaxLines /\ fromFile' \in BOOLEAN /\ saved'.index \in Nat
  BY <1>2 DEF IInv
<1>7. synced' \in 0 .. Len(ctl') /\ phase' = "on"
  BY <1>2, <1>3
<1> QED BY <1>2, <1>5, <1>6, <1>7, Runs

\* What every operation on a running list finds.
LEMMA Found ==
  ASSUME IInv, Running
  PROVE  /\ Mirrors(ctl, fromFile, pl) /\ Settled(pl) /\ ctl \in Seq(Command) /\ Len(ctl) \in Nat
         /\ pl \in Lists(Named(ctl, Len(ctl), fromFile)) /\ InRange(pl) /\ pl.index \in 0 .. Amount(pl)
         /\ Amount(pl) \in Nat /\ pl.first \in Nat /\ synced \in 0 .. Len(ctl)
         /\ fromFile \in BOOLEAN /\ saved.index \in Nat /\ End(pl) \in Nat /\ ShuffledStart = End(pl)
<1>1. /\ Mirrors(ctl, fromFile, pl) /\ Settled(pl) /\ ctl \in Seq(Command) /\ synced \in 0 .. Len(ctl)
      /\ fromFile \in BOOLEAN /\ saved.index \in Nat
  BY DEF IInv, Kept
<1>2. Len(ctl) \in Nat /\ Fits(ctl, fromFile, pl)
  BY <1>1, LenProperties DEF Mirrors
<1>3. pl \in Lists(Named(ctl, Len(ctl), fromFile)) /\ InRange(pl) /\ pl.index \in 0 .. Amount(pl)
  BY <1>2 DEF Fits
<1>4. Amount(pl) \in Nat
  BY <1>3, LenProperties DEF Lists, Amount
<1>5. pl.first \in Nat
  BY <1>3, <1>4 DEF InRange
<1>6. ShuffledStart = End(pl)
  BY DEF ShuffledStart, End
<1>7. End(pl) \in Nat
  BY <1>4, <1>5 DEF End
<1> QED BY <1>1, <1>2, <1>3, <1>4, <1>5, <1>6, <1>7

\* The control file of a running list may grow by what fits.
LEMMA Grows ==
  ASSUME NEW n \in Nat, Kept(ctl', fromFile', pl'), Room(n), Len(ctl') <= Len(ctl) + n, Len(ctl) \in Nat,
         synced' \in 0 .. Len(ctl'), UNCHANGED <<fromFile, saved, phase>>, Running, IInv
  PROVE  IInv'
<1>1. Len(ctl') \in Nat
  BY LenProperties DEF Kept, Mirrors, Fits
<1>2. Len(ctl') <= MaxLines
  BY <1>1, PlaylistAssumption DEF Room
<1>3. fromFile' \in BOOLEAN /\ saved'.index \in Nat /\ phase' = "on"
  BY DEF IInv, Running
<1> QED BY <1>2, <1>3, Runs

\* playlist_insert_track() keeps the invariant.
LEMMA InsertOk ==
  ASSUME Careful, NEW pos \in Where, NEW queue \in BOOLEAN, NEW t \in Track, NEW r \in Nat,
         NEW sync \in BOOLEAN, Insert(pos, queue, t, r, sync), IInv
  PROVE  IInv'
<1> DEFINE s == ShuffledStart
           a == AddTrack(pl, pos, queue, t, Len(ctl) + 1, r, s)
           x == CAdd(a.pos, queue, t, a.pl.last)
           d == Append(ctl, x)
<1>1. /\ Running /\ Room(1) /\ MayAdd(pos) /\ Amount(pl) < MaxSize
      /\ pl' = a.pl /\ ctl' = ctl \o <<x>>
      /\ synced' = (IF sync THEN Len(ctl') ELSE synced) /\ UNCHANGED <<fromFile, saved, phase>>
  BY DEF Insert, Log
<1>2. /\ Mirrors(ctl, fromFile, pl) /\ Settled(pl) /\ ctl \in Seq(Command) /\ Len(ctl) \in Nat
      /\ pl \in Lists(Named(ctl, Len(ctl), fromFile)) /\ InRange(pl) /\ pl.index \in 0 .. Amount(pl)
      /\ synced \in 0 .. Len(ctl) /\ s \in Nat /\ s = End(pl)
  BY <1>1, Found
<1>3. Ready(pl, pos)
  BY <1>1 DEF MayAdd, Ready
<1>4. t \in Names /\ pos \in Int
  BY DEF Names, Where, PREPEND, INSERT, INSERT_LAST, INSERT_FIRST, INSERT_SHUFFLED, LAST_SHUFFLED
<1>5. s <= End(pl)
  BY <1>2
<1> HIDE DEF s
<1>6. InsertPosition(pl, pos, r, s) \in 0 .. Amount(pl)
  BY <1>2, <1>3, <1>5, PositionRange
<1>7. Mirrors(d, fromFile, a.pl) /\ Settled(a.pl) /\ Len(d) = Len(ctl) + 1 /\ x \in Command
  BY <1>1, <1>2, <1>4, <1>6, AddMirrors
<1> HIDE DEF a, x
<1>8. ctl' = d /\ Len(ctl') = Len(ctl) + 1
  BY <1>1, <1>2, <1>7, LogOne
<1> HIDE DEF d
<1>9. Kept(ctl', fromFile', pl')
  BY <1>1, <1>2, <1>7, <1>8 DEF Kept
<1>10. synced' \in 0 .. Len(ctl')
  BY <1>1, <1>2, <1>8
<1> DEFINE n == 1
<1>11. n \in Nat /\ Room(n) /\ Len(ctl') <= Len(ctl) + n
  BY <1>1, <1>2, <1>8
<1> HIDE DEF n
<1> QED BY <1>1, <1>2, <1>9, <1>10, <1>11, Grows

\* Two tracks through an insert context keep the invariant.
LEMMA InsertBatchOk ==
  ASSUME Careful, NEW pos \in Where, NEW queue \in BOOLEAN, NEW t \in Track, NEW u \in Track, NEW r \in Nat,
         NEW r2 \in Nat, InsertBatch(pos, queue, t, u, r, r2), IInv
  PROVE  IInv'
<1> DEFINE s == ShuffledStart
           a == AddTrack(pl, pos, queue, t, Len(ctl) + 1, r, s)
           pos2 == IF pos = INSERT_FIRST THEN INSERT ELSE pos
           b == AddTrack(a.pl, pos2, queue, u, Len(ctl) + 2, r2, s)
           x == CAdd(a.pos, queue, t, a.pl.last)
           y == CAdd(b.pos, queue, u, b.pl.last)
           d == Append(Append(ctl, x), y)
<1>1. /\ Running /\ Room(2) /\ MayAdd(pos) /\ Amount(pl) + 1 < MaxSize
      /\ pl' = b.pl /\ ctl' = ctl \o <<x, y>>
      /\ synced' = Len(ctl') /\ UNCHANGED <<fromFile, saved, phase>>
  BY DEF InsertBatch, Log
<1>2. /\ Mirrors(ctl, fromFile, pl) /\ Settled(pl) /\ ctl \in Seq(Command) /\ Len(ctl) \in Nat
      /\ synced \in 0 .. Len(ctl) /\ s = End(pl)
  BY <1>1, Found
<1>3. Ready(pl, pos)
  BY <1>1 DEF MayAdd, Ready
<1>4. t \in Names /\ u \in Names
  BY DEF Names
<1> HIDE DEF s
<1>7. Mirrors(d, fromFile, b.pl) /\ Settled(b.pl) /\ x \in Command /\ y \in Command
  BY <1>1, <1>2, <1>3, <1>4, BatchMirrors, SMTT(40)
<1> HIDE DEF a, b, x, y
<1>8. ctl' = d /\ Len(ctl') = Len(ctl) + 2
  BY <1>1, <1>2, <1>7, LogTwo
<1> HIDE DEF d
<1>9. Kept(ctl', fromFile', pl')
  BY <1>1, <1>2, <1>7, <1>8 DEF Kept
<1>10. synced' \in 0 .. Len(ctl')
  BY <1>1, <1>2, <1>8
<1> DEFINE n == 2
<1>11. n \in Nat /\ Room(n) /\ Len(ctl') <= Len(ctl) + n
  BY <1>1, <1>2, <1>8
<1> HIDE DEF n
<1> QED BY <1>1, <1>2, <1>9, <1>10, <1>11, Grows

\* playlist_delete() keeps the invariant.
LEMMA DeleteOk ==
  ASSUME NEW i, Delete(i), IInv
  PROVE  IInv'
<1> DEFINE a == RemoveTrack(pl, i)
           x == CDelete(i)
           d == Append(ctl, x)
<1>1. /\ Running /\ Room(1) /\ i \in 0 .. Amount(pl) - 1
      /\ pl' = a /\ ctl' = ctl \o <<x>>
      /\ synced' = Len(ctl') /\ UNCHANGED <<fromFile, saved, phase>>
  BY DEF Delete, Log
<1>2. /\ Mirrors(ctl, fromFile, pl) /\ Settled(pl) /\ ctl \in Seq(Command) /\ Len(ctl) \in Nat
  BY <1>1, Found
<1>7. Mirrors(d, fromFile, a) /\ Settled(a) /\ x \in Command
  BY <1>1, <1>2, RemoveMirrors
<1> HIDE DEF a, x
<1>8. ctl' = d /\ Len(ctl') = Len(ctl) + 1
  BY <1>1, <1>2, <1>7, LogOne
<1> HIDE DEF d
<1>9. Kept(ctl', fromFile', pl')
  BY <1>1, <1>2, <1>7, <1>8 DEF Kept
<1>10. synced' \in 0 .. Len(ctl')
  BY <1>1, <1>2, <1>8
<1> DEFINE n == 1
<1>11. n \in Nat /\ Room(n) /\ Len(ctl') <= Len(ctl) + n
  BY <1>1, <1>2, <1>8
<1> HIDE DEF n
<1> QED BY <1>1, <1>2, <1>9, <1>10, <1>11, Grows

\* What a move does to the index afterwards.
LEMMA MoveOk ==
  ASSUME NEW i \in Int, NEW j \in Int, Move(i, j), IInv
  PROVE  IInv'
<1> DEFINE r == TargetRow(i, j)
           p == RemoveTrack(pl, i)
           n == Amount(p)
           pos == IF r = 0 THEN PREPEND
                  ELSE IF r = n THEN INSERT_LAST ELSE (r + p.first) % n
           shifts == IF pos < 0 THEN Displaces(i, j)
                     ELSE IF pos < p.first /\ pos <= p.index THEN TRUE
                     ELSE IF pos >= p.first /\ p.index < p.first THEN FALSE
                     ELSE Displaces(i, j)
           e == EntryAt(pl, i)
           a == AddTrack(p, pos, e.queued, e.track, Len(ctl) + 2, 0, 0)
           b == a.pl
           back == b.first - 1
           k == IF i = pl.index
                THEN CASE pos = PREPEND -> b.first
                       [] pos = INSERT_LAST -> IF back < 0 THEN back + Amount(b) ELSE back
                       [] OTHER -> pos
                ELSE IF shifts /\ pos /= PREPEND THEN b.index + 1 ELSE b.index
           x == CDelete(i)
           y == CAdd(a.pos, e.queued, e.track, b.last)
           d == Append(Append(ctl, x), y)
<1>1. /\ Running /\ Room(2) /\ i # j /\ InList(pl, i) /\ InList(pl, j) /\ InList(pl, pl.index)
      /\ pl' = (IF i = pl.index
                THEN [b EXCEPT !.index =
                      CASE pos = PREPEND -> b.first
                        [] pos = INSERT_LAST -> IF back < 0 THEN back + Amount(b) ELSE back
                        [] OTHER -> pos]
                ELSE IF shifts /\ pos /= PREPEND THEN [b EXCEPT !.index = @ + 1]
                ELSE b)
      /\ ctl' = ctl \o <<x, y>>
      /\ synced' = Len(ctl) + 1 /\ UNCHANGED <<fromFile, saved, phase>>
  BY DEF Move, Log
<1>2. /\ Mirrors(ctl, fromFile, pl) /\ Settled(pl) /\ ctl \in Seq(Command) /\ Len(ctl) \in Nat
      /\ pl \in Lists(Named(ctl, Len(ctl), fromFile)) /\ InRange(pl) /\ pl.index \in 0 .. Amount(pl)
      /\ Amount(pl) \in Nat
  BY <1>1, Found
<1>3. r \in 0 .. Amount(pl) - 1
  BY <1>1, <1>2, RotateRange DEF TargetRow
<1>4. i \in 0 .. Amount(pl) - 1 /\ Amount(pl) >= 2
  <2>1. i # j /\ i >= 0 /\ i < Amount(pl) /\ j >= 0 /\ j < Amount(pl)
    <3>1. i # j /\ InList(pl, i) /\ InList(pl, j)
      BY <1>1
    <3> QED BY <3>1 DEF InList
  <2>2. Amount(pl) \in Nat
    BY <1>2
  <2> QED BY <2>1, <2>2
<1>5. Mirrors(Append(ctl, x), fromFile, p) /\ n = Amount(pl) - 1
  BY <1>2, <1>4, RemoveMirrors
<1>6. p.first \in Int /\ p.first >= 0
  <2>1. InRange(p) /\ p \in Lists(Named(Append(ctl, x), Len(Append(ctl, x)), fromFile))
    BY <1>5 DEF Mirrors, Fits
  <2>2. p.first \in 0 .. Amount(p) /\ Amount(p) \in Nat
    BY <2>1, LenProperties DEF InRange, Lists, Amount
  <2> QED BY <2>2
<1> HIDE DEF r, p
<1>7. n >= 1 /\ n \in Nat /\ n = Amount(pl) - 1
  BY <1>2, <1>4, <1>5
<1>8. pos \in Int /\ (pos \in {PREPEND, INSERT_LAST} \/ pos \in 0 .. Amount(pl) - 2)
  <2> HIDE DEF n
  <2>1. r + p.first \in Nat /\ (r + p.first) % n \in 0 .. n - 1
    BY <1>3, <1>6, <1>7
  <2>2. n - 1 = Amount(pl) - 2
    BY <1>2, <1>7
  <2> QED BY <2>1, <2>2, <1>7, <1>2 DEF PREPEND, INSERT_LAST
<1> HIDE DEF pos
<1>9. /\ Mirrors(d, fromFile, b) /\ Settled(b) /\ Amount(b) = Amount(pl)
      /\ x \in Command /\ y \in Command /\ b.index \in 0 .. Amount(pl)
      /\ i # pl.index => b.index + 1 <= Amount(pl)
  BY <1>1, <1>2, <1>8, MoveMirrors, SMTT(40) DEF p
<1> HIDE DEF a, x, y, shifts
<1>10. ctl' = d /\ Len(ctl') = Len(ctl) + 2
  BY <1>1, <1>2, <1>9, LogTwo
<1> HIDE DEF b
<1>11. b \in Lists(Named(d, Len(d), fromFile)) /\ InRange(b)
  BY <1>9 DEF Mirrors, Fits
<1> HIDE DEF d
<1>12. b.first \in Int /\ 0 <= b.first /\ b.first <= Amount(b) /\ Amount(b) \in Nat
  BY <1>2, <1>9, <1>11 DEF Lists, InRange
<1>13. k \in 0 .. Amount(b)
  <2>1. CASE i = pl.index
    <3>1. pos # PREPEND /\ pos # INSERT_LAST => pos \in 0 .. Amount(b)
      BY <1>8, <1>9, <1>12
    <3>2. b.first \in 0 .. Amount(b) /\ (IF back < 0 THEN back + Amount(b) ELSE back) \in 0 .. Amount(b)
      BY <1>12, <1>2, <1>4, <1>9, SMTT(40)
    <3> HIDE DEF back
    <3> QED BY <2>1, <3>1, <3>2
  <2>2. CASE i # pl.index
    <3>1. b.index \in 0 .. Amount(b) /\ b.index + 1 \in 0 .. Amount(b)
      BY <2>2, <1>9, <1>12
    <3> QED BY <2>2, <3>1
  <2> QED BY <2>1, <2>2
<1>14. pl' = [b EXCEPT !.index = k] \/ pl' = b
  <2> DEFINE c == CASE pos = PREPEND -> b.first
                    [] pos = INSERT_LAST -> IF back < 0 THEN back + Amount(b) ELSE back
                    [] OTHER -> pos
  <2>1. CASE i = pl.index
    <3>1. k = c
      BY <2>1
    <3>2. pl' = [b EXCEPT !.index = c]
      BY <1>1, <2>1
    <3> HIDE DEF c, k
    <3> QED BY <3>1, <3>2
  <2>2. CASE i # pl.index /\ shifts /\ pos # PREPEND
    <3>1. k = b.index + 1 /\ pl' = [b EXCEPT !.index = b.index + 1]
      BY <1>1, <2>2
    <3> HIDE DEF k
    <3> QED BY <3>1
  <2>3. CASE i # pl.index /\ ~(shifts /\ pos # PREPEND)
    <3>1. pl' = b
      BY <1>1, <2>3
    <3> QED BY <3>1
  <2> QED BY <2>1, <2>2, <2>3
<1> HIDE DEF k
<1>15. Kept(d, fromFile, [b EXCEPT !.index = k]) /\ Kept(d, fromFile, b)
  <2> DEFINE no == b.started
  <2>1. no \in BOOLEAN /\ (b.started => no)
    BY <1>11 DEF Lists
  <2> HIDE DEF no
  <2> QED BY <1>9, <1>13, <2>1, SameMirrors DEF Kept
<1>16. Kept(ctl', fromFile', pl')
  BY <1>1, <1>10, <1>14, <1>15
<1>17. synced' \in 0 .. Len(ctl')
  BY <1>1, <1>2, <1>10
<1> DEFINE m == 2
<1>18. m \in Nat /\ Room(m) /\ Len(ctl') <= Len(ctl) + m
  BY <1>1, <1>2, <1>10
<1> HIDE DEF m
<1> QED BY <1>1, <1>2, <1>16, <1>17, <1>18, Grows

\* The list with another started.
LEMMA OtherStarted ==
  ASSUME NEW E, NEW p \in Lists(E), NEW b
  PROVE  [p EXCEPT !.started = b] =
           [idx |-> p.idx, index |-> p.index, first |-> p.first, last |-> p.last, started |-> b]
<1> DEFINE r == [idx |-> p.idx, index |-> p.index, first |-> p.first, last |-> p.last, started |-> p.started]
<1>1. p = r
  BY Fields
<1>2. [r EXCEPT !.started = b] =
        [idx |-> p.idx, index |-> p.index, first |-> p.first, last |-> p.last, started |-> b]
  OBVIOUS
<1> HIDE DEF r
<1> QED BY <1>1, <1>2

\* Starting a list changes nothing that is in the control file.
LEMMA StartMirrors ==
  ASSUME NEW c, NEW listed, NEW p, Mirrors(c, listed, p), NEW yes \in BOOLEAN, yes
  PROVE  LET u == [p EXCEPT !.started = yes] IN Kept(c, listed, u)
<1> DEFINE u == [p EXCEPT !.started = yes]
           E == Named(c, Len(c), listed)
<1>1. p \in Lists(E)
  BY DEF Mirrors, Fits
<1> HIDE DEF E
<1>3. u = [idx |-> p.idx, index |-> p.index, first |-> p.first, last |-> p.last, started |-> yes]
  BY <1>1, OtherStarted
<1> HIDE DEF u
<1>5. u \in Lists(E)
  BY <1>1, <1>3, Fields DEF Lists
<1>6. Amount(u) = Amount(p)
  BY <1>3 DEF Amount
<1>7. InRange(u)
  BY <1>3, <1>6 DEF Mirrors, Fits, InRange
<1>8. Mirrors(c, listed, u)
  BY <1>3, <1>5, <1>6, <1>7 DEF Mirrors, Fits, E
<1>9. u.started
  BY <1>3
<1> QED BY <1>8, <1>9 DEF Settled, Kept, u

\* A list may begin at any of its tracks.
LEMMA PlacedFits ==
  ASSUME NEW c, NEW listed, NEW p, Fits(c, listed, p), NEW i \in 0 .. Amount(p)
  PROVE  LET u == [p EXCEPT !.index = i, !.first = i] IN Fits(c, listed, u)
<1> DEFINE v == [p EXCEPT !.index = i]
           u == [p EXCEPT !.index = i, !.first = i]
           E == Named(c, Len(c), listed)
<1>1. p \in Lists(E) /\ Amount(p) \in Nat /\ i \in Int
  <2>1. p \in Lists(E)
    BY DEF Fits
  <2>2. Amount(p) \in Nat
    BY <2>1, LenProperties DEF Lists, Amount
  <2> QED BY <2>1, <2>2
<1> HIDE DEF E
<1> DEFINE r == [idx |-> p.idx, index |-> p.index, first |-> p.first, last |-> p.last, started |-> p.started]
<1>2. p = r
  BY <1>1, Fields
<1>3. v = [idx |-> p.idx, index |-> i, first |-> p.first, last |-> p.last, started |-> p.started]
  <2>1. [r EXCEPT !.index = i] =
          [idx |-> p.idx, index |-> i, first |-> p.first, last |-> p.last, started |-> p.started]
    OBVIOUS
  <2> HIDE DEF r
  <2> QED BY <1>2, <2>1
<1>4. u = [idx |-> p.idx, index |-> i, first |-> i, last |-> p.last, started |-> p.started]
  <2>1. u = [v EXCEPT !.first = i]
    OBVIOUS
  <2> HIDE DEF u, v
  <2> QED BY <1>3, <2>1
<1> HIDE DEF u, v
<1>5. u \in Lists(E)
  BY <1>1, <1>4, Fields DEF Lists
<1>6. Amount(u) = Amount(p)
  BY <1>4 DEF Amount
<1>7. InRange(u)
  BY <1>1, <1>4, <1>6 DEF Fits, InRange
<1> QED BY <1>4, <1>5, <1>6, <1>7 DEF Fits, E, u

\* A list shuffled before it is started keeps the invariant.
LEMMA CreateShuffledOk ==
  ASSUME NEW i, NEW seed \in Seeds, NEW selected \in BOOLEAN, CreateShuffled(i, seed, selected), IInv
  PROVE  IInv'
<1> DEFINE yes == TRUE
           f == Fresh(yes)
           g == [f EXCEPT !.index = i, !.first = i]
           h == IF selected THEN g ELSE f
           u == Randomise(h, seed, selected)
           x == CShuffle(seed, u.first)
           z == << >>
           v == [u EXCEPT !.started = yes]
<1>1. yes \in BOOLEAN /\ yes = TRUE /\ z = << >> /\ z \in Seq(Command) /\ Len(z) = 0
  BY EmptySeq
<1>0. Len(Files) \in Nat /\ MaxLines \in Nat
  BY PlaylistAssumption, LenProperties
<1>2. /\ phase' = "on" /\ ctl' = <<x>> /\ fromFile' = yes /\ pl' = v /\ synced' = 1 /\ MaxLines > 0
      /\ saved'.index = 0 /\ i \in 0 .. Len(Files) - 1
  <2>1. CASE selected = TRUE
    <3>1. h = g /\ u = Randomise(g, seed, TRUE)
      BY <2>1
    <3> QED BY <2>1, <3>1 DEF CreateShuffled, Anything
  <2>2. CASE selected = FALSE
    <3>1. h = f /\ u = Randomise(f, seed, FALSE)
      BY <2>2
    <3> QED BY <2>2, <3>1 DEF CreateShuffled, Anything
  <2> QED BY <2>1, <2>2
<1>3. v = [u EXCEPT !.started = yes] /\ g = [f EXCEPT !.index = i, !.first = i]
  OBVIOUS
<1> HIDE DEF yes
<1>4. Mirrors(z, yes, f) /\ Replay(z, yes).sorted
  BY <1>1, FreshMirrors
<1>5. Amount(f) = Len(Files)
  BY <1>1, FreshShape
<1>6. i \in 0 .. Amount(f)
  BY <1>0, <1>2, <1>5
<1> HIDE DEF f, v, z
<1>7. Fits(z, yes, f)
  BY <1>4 DEF Mirrors
<1>8. Fits(z, yes, g)
  BY <1>6, <1>7, PlacedFits
<1> HIDE DEF g
<1>9. Fits(z, yes, h)
  BY <1>7, <1>8
<1> HIDE DEF h
<1>10. Mirrors(Append(z, x), yes, u) /\ x \in Command
  BY <1>4, <1>9, ShuffleMirrors
<1> HIDE DEF u, x
<1>11. z \o <<x>> = Append(z, x) /\ Len(z \o <<x>>) = 1 /\ z \o <<x>> = <<x>>
  <2>1. z \o <<x>> = Append(z, x) /\ Len(z \o <<x>>) = Len(z) + 1
    BY <1>1, <1>10, LogOne
  <2>2. << >> \o <<x>> = <<x>>
    BY ConcatEmptySeq, <1>10
  <2> QED BY <2>1, <2>2, <1>1
<1>12. Mirrors(ctl', yes, u) /\ Len(ctl') = 1
  BY <1>2, <1>10, <1>11
<1>13. Kept(ctl', fromFile', pl')
  BY <1>1, <1>2, <1>3, <1>12, StartMirrors
<1>14. Len(ctl') <= MaxLines /\ synced' \in 0 .. Len(ctl')
  BY <1>0, <1>2, <1>12
<1> QED BY <1>1, <1>2, <1>13, <1>14, Runs

\* Turning shuffle off keeps the invariant.
LEMMA UnshuffleOk ==
  ASSUME Unshuffle, IInv
  PROVE  IInv'
<1> DEFINE yes == TRUE
           u == SortList(pl, yes, yes)
           x == CUnshuffle
           d == Append(ctl, x)
<1>0. yes = TRUE /\ yes \in BOOLEAN
  OBVIOUS
<1>1. /\ Running /\ Room(1) /\ pl' = u /\ ctl' = ctl \o <<x>>
      /\ synced' = synced /\ UNCHANGED <<fromFile, saved, phase>>
  BY DEF Unshuffle, Log
<1>u. u = SortList(pl, yes, TRUE)
  OBVIOUS
<1> HIDE DEF u
<1> HIDE DEF yes
<1>2. /\ Mirrors(ctl, fromFile, pl) /\ ctl \in Seq(Command) /\ Len(ctl) \in Nat
      /\ pl \in Lists(Named(ctl, Len(ctl), fromFile)) /\ InRange(pl) /\ pl.index \in 0 .. Amount(pl)
      /\ synced \in 0 .. Len(ctl)
  BY <1>1, Found
<1>3. Fits(ctl, fromFile, pl)
  BY <1>2 DEF Mirrors
<1>4. Mirrors(d, fromFile, u) /\ x \in Command
  BY <1>0, <1>u, <1>3, UnshuffleMirrors
<1>5. u.first = 0
  <2> DEFINE E == Named(ctl, Len(ctl), fromFile)
  <2>1. pl \in Lists(E)
    BY <1>2
  <2> HIDE DEF E
  <2>2. u = SortList(pl, yes, yes) 
    BY <1>u, <1>0
  <2> QED BY <1>0, <1>2, <2>1, <2>2, SortShape
<1> HIDE DEF x
<1>8. ctl' = d /\ Len(ctl') = Len(ctl) + 1
  BY <1>1, <1>2, <1>4, LogOne
<1> HIDE DEF d
<1>9. Kept(ctl', fromFile', pl')
  BY <1>1, <1>2, <1>4, <1>5, <1>8 DEF Kept, Settled
<1>10. synced' \in 0 .. Len(ctl')
  BY <1>1, <1>2, <1>8
<1> DEFINE n == 1
<1>11. n \in Nat /\ Room(n) /\ Len(ctl') <= Len(ctl) + n
  BY <1>1, <1>2, <1>8
<1> HIDE DEF n
<1> QED BY <1>1, <1>2, <1>9, <1>10, <1>11, Grows

\* A shuffle on its own, with the current track looked for or not.
LEMMA Shuffled ==
  ASSUME IInv, Running, Room(1), Replay(ctl, fromFile).sorted, NEW seed \in Seeds,
         NEW startCurrent \in BOOLEAN, startCurrent \in {pl.started},
         pl' = Randomise(pl, seed, startCurrent), Log(<<CShuffle(seed, pl'.first)>>),
         UNCHANGED <<synced, fromFile, saved, phase>>
  PROVE  IInv'
<1> DEFINE u == Randomise(pl, seed, startCurrent)
           x == CShuffle(seed, u.first)
           d == Append(ctl, x)
           E == Named(ctl, Len(ctl), fromFile)
<1>1. pl' = u /\ ctl' = ctl \o <<x>>
  BY DEF Log
<1>2. /\ Mirrors(ctl, fromFile, pl) /\ Settled(pl) /\ ctl \in Seq(Command) /\ Len(ctl) \in Nat
      /\ pl \in Lists(E) /\ InRange(pl) /\ pl.index \in 0 .. Amount(pl) /\ synced \in 0 .. Len(ctl)
  BY Found
<1>3. Fits(ctl, fromFile, pl)
  BY <1>2 DEF Mirrors
<1>4. Mirrors(d, fromFile, u) /\ x \in Command
  BY <1>3, ShuffleMirrors
<1> HIDE DEF E
<1>5. u.started = pl.started /\ (~startCurrent => u.first = pl.first)
  BY <1>2, ShuffleShape
<1> HIDE DEF u
<1>6. Settled(u)
  BY <1>2, <1>5 DEF Settled
<1> HIDE DEF x
<1>8. ctl' = d /\ Len(ctl') = Len(ctl) + 1
  BY <1>1, <1>2, <1>4, LogOne
<1> HIDE DEF d
<1>9. Kept(ctl', fromFile', pl')
  BY <1>1, <1>4, <1>6, <1>8 DEF Kept
<1>10. synced' \in 0 .. Len(ctl')
  BY <1>2, <1>8
<1> DEFINE n == 1
<1>11. n \in Nat /\ Room(n) /\ Len(ctl') <= Len(ctl) + n
  BY <1>2, <1>8
<1> HIDE DEF n
<1> QED BY <1>2, <1>9, <1>10, <1>11, Grows

\* Turning shuffle on over a sorted list keeps the invariant.
LEMMA ShuffleOnOk ==
  ASSUME Careful, NEW seed \in Seeds, ShuffleOn(seed), IInv
  PROVE  IInv'
<1> DEFINE yes == TRUE
<1>1. yes \in BOOLEAN /\ yes = TRUE
  OBVIOUS
<1>2. /\ Running /\ Room(1) /\ Replay(ctl, fromFile).sorted /\ pl' = Randomise(pl, seed, yes)
      /\ Log(<<CShuffle(seed, pl'.first)>>) /\ UNCHANGED <<synced, fromFile, saved, phase>>
      /\ pl.started
  BY DEF ShuffleOn
<1>3. pl.started \in BOOLEAN
  BY <1>2, Found DEF Lists
<1> HIDE DEF yes
<1>4. yes \in {pl.started}
  BY <1>1, <1>2, <1>3
<1> QED BY <1>1, <1>2, <1>4, Shuffled

\* Shuffling a list that was just made keeps the invariant.
LEMMA ShuffleNewOk ==
  ASSUME Careful, NEW seed \in Seeds, ShuffleNew(seed), IInv
  PROVE  IInv'
<1> DEFINE no == FALSE
<1>1. no \in BOOLEAN /\ no = FALSE
  OBVIOUS
<1>2. /\ Running /\ Room(1) /\ Replay(ctl, fromFile).sorted /\ pl' = Randomise(pl, seed, no)
      /\ Log(<<CShuffle(seed, pl'.first)>>) /\ UNCHANGED <<synced, fromFile, saved, phase>>
      /\ ~pl.started
  BY DEF ShuffleNew
<1>3. pl.started \in BOOLEAN
  BY <1>2, Found DEF Lists
<1> HIDE DEF no
<1>4. no \in {pl.started}
  BY <1>1, <1>2, <1>3
<1> QED BY <1>1, <1>2, <1>4, Shuffled

\* Shuffle from a menu keeps the invariant.
LEMMA SortAndShuffleOk ==
  ASSUME Careful, NEW seed \in Seeds, NEW startCurrent \in BOOLEAN, SortAndShuffle(seed, startCurrent), IInv
  PROVE  IInv'
<1> DEFINE yes == TRUE
           u == SortList(pl, startCurrent, yes)
           c == Append(ctl, CUnshuffle)
           v == Randomise(u, seed, startCurrent)
           x == CUnshuffle
           y == CShuffle(seed, v.first)
           d == Append(c, y)
           E == Named(ctl, Len(ctl), fromFile)
           F == Named(c, Len(c), fromFile)
<1>0. yes = TRUE /\ yes \in BOOLEAN
  OBVIOUS
<1>1. /\ Running /\ Room(2) /\ pl' = v /\ ctl' = ctl \o <<x, y>> /\ startCurrent /\ pl.started
      /\ synced' = synced /\ UNCHANGED <<fromFile, saved, phase>>
  BY DEF SortAndShuffle, Log
<1>2. /\ Mirrors(ctl, fromFile, pl) /\ ctl \in Seq(Command) /\ Len(ctl) \in Nat
      /\ pl \in Lists(E) /\ InRange(pl) /\ pl.index \in 0 .. Amount(pl) /\ synced \in 0 .. Len(ctl)
  BY <1>1, Found
<1>3. Fits(ctl, fromFile, pl)
  BY <1>2 DEF Mirrors
<1>u. u = SortList(pl, startCurrent, TRUE) /\ u = SortList(pl, startCurrent, yes)
  OBVIOUS
<1> HIDE DEF yes, E
<1>5. u.started = pl.started
  BY <1>0, <1>2, <1>u, SortShape
<1> HIDE DEF u
<1>4. Mirrors(c, fromFile, u) /\ x \in Command /\ Replay(c, fromFile).sorted
  BY <1>3, <1>u, UnshuffleMirrors
<1> HIDE DEF c
<1>6. Fits(c, fromFile, u) /\ u \in Lists(F) /\ InRange(u) /\ u.index \in 0 .. Amount(u)
  BY <1>4 DEF Mirrors, Fits
<1> HIDE DEF F
<1>7. Mirrors(d, fromFile, v) /\ y \in Command
  BY <1>4, <1>6, ShuffleMirrors
<1>8. v.started = u.started
  BY <1>6, ShuffleShape
<1> HIDE DEF v
<1>9. Settled(v)
  BY <1>1, <1>5, <1>8 DEF Settled
<1>c. d = Append(Append(ctl, x), y)
  BY DEF c
<1> HIDE DEF x, y, d
<1>10. ctl' = d /\ Len(ctl') = Len(ctl) + 2
  BY <1>1, <1>2, <1>4, <1>7, <1>c, LogTwo
<1>11. Kept(ctl', fromFile', pl')
  BY <1>1, <1>7, <1>9, <1>10 DEF Kept
<1>12. synced' \in 0 .. Len(ctl')
  BY <1>1, <1>2, <1>10
<1> DEFINE n == 2
<1>13. n \in Nat /\ Room(n) /\ Len(ctl') <= Len(ctl) + n
  BY <1>1, <1>2, <1>10
<1> HIDE DEF n
<1> QED BY <1>1, <1>2, <1>11, <1>12, <1>13, Grows

\* remove_all_tracks_unlocked() keeps the invariant.
LEMMA RemoveAllOk ==
  ASSUME RemoveAll, IInv
  PROVE  IInv'
<1> DEFINE e == EntryAt(pl, pl.index)
           u == [pl EXCEPT !.idx = <<Left(e)>>, !.index = 0, !.first = 0,
                           !.last = IF @ = 0 THEN -1 ELSE 0]
           d == <<CAdd(0, TRUE, e.track, 0)>>
           no == FALSE
<1>0. no = FALSE /\ no \in BOOLEAN /\ MaxLines \in Nat
  BY PlaylistAssumption
<1>1. /\ Running /\ InList(pl, pl.index) /\ MaxLines > 0 /\ pl' = u /\ ctl' = d /\ fromFile' = no
      /\ synced' = 1 /\ UNCHANGED <<saved, phase>>
  BY DEF RemoveAll
<1>2. Mirrors(ctl, fromFile, pl) /\ saved.index \in Nat /\ phase = "on"
  BY <1>1, Found DEF Running
<1>3. Mirrors(d, FALSE, u) /\ Settled(u) /\ Len(d) = 1
  BY <1>1, <1>2, LeftMirrors
<1> HIDE DEF u, d
<1>4. Mirrors(d, no, u)
  BY <1>3, <1>0
<1> HIDE DEF no
<1>5. Kept(ctl', fromFile', pl')
  BY <1>1, <1>3, <1>4 DEF Kept
<1>6. Len(ctl') <= MaxLines /\ synced' \in 0 .. Len(ctl')
  BY <1>0, <1>1, <1>3
<1> QED BY <1>0, <1>1, <1>2, <1>5, <1>6, Runs

\* A list that is not there: its control file is still good.
LEMMA Goes ==
  ASSUME IInv, phase' = "down", pl' = Fresh(FALSE), ctl' \in Seq(Command), Sound(ctl', fromFile'),
         Len(ctl') <= MaxLines, synced' \in 0 .. Len(ctl'), fromFile' = fromFile, saved'.index \in Nat
  PROVE  IInv'
<1>1. fromFile' \in BOOLEAN /\ ~(Running')
  BY DEF IInv, Running
<1> QED BY <1>1 DEF IInv

\* A crash keeps the invariant: a command is written before the next one, so what is
\* left is the beginning of the control file.
LEMMA CrashOk ==
  ASSUME Crash, IInv
  PROVE  IInv'
<1>1. /\ Running /\ phase' = "down" /\ pl' = Fresh(FALSE) /\ saved'.index \in Nat /\ fromFile' = fromFile
      /\ \E k \in synced .. Len(ctl) : ctl' = SubSeq(ctl, 1, k) /\ synced' = k
  BY DEF Crash, Anything
<1>2. PICK k \in synced .. Len(ctl) : ctl' = SubSeq(ctl, 1, k) /\ synced' = k
  BY <1>1
<1>3. ctl \in Seq(Command) /\ Len(ctl) \in Nat /\ synced \in 0 .. Len(ctl) /\ Sound(ctl, fromFile)
  BY <1>1, Found DEF IInv
<1>4. k \in 0 .. Len(ctl)
  BY <1>2, <1>3
<1>5. ctl' \in Seq(Command) /\ Len(ctl') = k /\ Sound(ctl', fromFile)
  BY <1>2, <1>3, <1>4, SoundPrefix
<1>6. Len(ctl') <= MaxLines /\ synced' \in 0 .. Len(ctl')
  BY <1>2, <1>3, <1>4, <1>5, PlaylistAssumption DEF IInv
<1> QED BY <1>1, <1>5, <1>6, Goes

\* playlist_shutdown() keeps the invariant.
LEMMA ShutdownOk ==
  ASSUME Shutdown, IInv
  PROVE  IInv'
<1>1. /\ Running /\ phase' = "down" /\ pl' = Fresh(FALSE) /\ fromFile' = fromFile /\ ctl' = ctl
      /\ synced' = Len(ctl)
      /\ saved' = (IF InList(pl, pl.index)
                   THEN [index |-> pl.index, track |-> EntryAt(pl, pl.index).track]
                   ELSE Anything)
  BY DEF Shutdown
<1>2. ctl \in Seq(Command) /\ Len(ctl) \in Nat /\ Sound(ctl, fromFile) /\ Len(ctl) <= MaxLines
      /\ pl.index \in 0 .. Amount(pl) /\ Amount(pl) \in Nat
  BY <1>1, Found DEF IInv
<1>3. saved'.index \in Nat
  BY <1>1, <1>2 DEF Anything
<1>4. synced' \in 0 .. Len(ctl')
  BY <1>1, <1>2
<1> QED BY <1>1, <1>2, <1>3, <1>4, Goes

\* playlist_resume() keeps the invariant.
LEMMA ResumeOk ==
  ASSUME Resume, IInv
  PROVE  IInv'
<1> DEFINE p == Replay(ctl, fromFile).pl
           E == Named(ctl, Len(ctl), fromFile)
<1>1. /\ phase' = "on" /\ synced' = Len(ctl) /\ saved' = Anything /\ ctl' = ctl /\ fromFile' = fromFile
      /\ \/ pl' = [p EXCEPT !.index = ResumeTrack(p, saved)]
         \/ \E i \in 0 .. MaxSize - 1 : (i = 0 \/ i < Amount(p)) /\ pl' = [p EXCEPT !.index = i]
  BY DEF Resume
<1>2. /\ ctl \in Seq(Command) /\ Len(ctl) \in Nat /\ Sound(ctl, fromFile) /\ Len(ctl) <= MaxLines
      /\ fromFile \in BOOLEAN /\ saved.index \in Nat
  BY LenProperties DEF IInv
<1>3. p \in Lists(E) /\ InRange(p) /\ p.started
  BY <1>2, ReplayWhole
<1> DEFINE n == 0
           r == [idx |-> p.idx, index |-> p.index, first |-> p.first, last |-> p.last, started |-> p.started]
<1>4. PICK i : i \in 0 .. Amount(p) /\ pl' = [p EXCEPT !.index = i]
  <2>1. ResumeTrack(p, saved) \in 0 .. Amount(p)
    <3> HIDE DEF p, E
    <3> QED BY <1>2, <1>3, ResumeRange
  <2>2. Amount(p) \in Nat
    BY <1>3, LenProperties DEF Lists, Amount
  <2>3. \A i \in 0 .. MaxSize - 1 : (i = 0 \/ i < Amount(p)) => i \in 0 .. Amount(p)
    BY <2>2, PlaylistAssumption
  <2> HIDE DEF p
  <2> QED BY <1>1, <2>1, <2>3
<1>p. p.idx = Replay(ctl, fromFile).pl.idx /\ p.first = Replay(ctl, fromFile).pl.first
      /\ p.last = Replay(ctl, fromFile).pl.last
  OBVIOUS
<1> HIDE DEF p, E
<1>5. pl' = [idx |-> p.idx, index |-> i, first |-> p.first, last |-> p.last, started |-> p.started]
  <2>1. p = r
    BY <1>3, Fields
  <2>2. [r EXCEPT !.index = i] =
          [idx |-> p.idx, index |-> i, first |-> p.first, last |-> p.last, started |-> p.started]
    OBVIOUS
  <2> HIDE DEF r
  <2> QED BY <1>4, <2>1, <2>2
<1> DEFINE u == [idx |-> p.idx, index |-> i, first |-> p.first, last |-> p.last, started |-> p.started]
<1>6. /\ u.idx = p.idx /\ u.index = i /\ u.first = p.first /\ u.last = p.last /\ u.started = p.started
      /\ pl' = u
  BY <1>5
<1>7. u \in Lists(E)
  BY <1>3, <1>4, LenProperties, Fields DEF Lists, Amount
<1> HIDE DEF u
<1>8. Amount(u) = Amount(p) /\ InRange(u)
  BY <1>3, <1>6 DEF Amount, InRange
<1>9. Fits(ctl, fromFile, u)
  BY <1>2, <1>4, <1>6, <1>7, <1>8, <1>p DEF Fits, E
<1>10. Mirrors(ctl, fromFile, u) /\ Settled(u)
  BY <1>3, <1>6, <1>9, <1>p DEF Mirrors, Settled
<1>11. Kept(ctl', fromFile', pl')
  BY <1>1, <1>6, <1>10 DEF Kept
<1>12. saved'.index \in Nat /\ synced' \in 0 .. Len(ctl')
  BY <1>1, <1>2 DEF Anything
<1> QED BY <1>1, <1>2, <1>11, <1>12, Runs

\* What going on has deleted before it goes on, or nothing.
NothingDropped(p, steps) == [pl |-> p, steps |-> steps, log |-> << >>]

\* What playlist_next() has when it comes to look for the next track.
LEMMA LeftBehind ==
  ASSUME NEW c, NEW listed, NEW p, Mirrors(c, listed, p), Settled(p), NEW steps \in Int,
         NEW mode \in {"off", "all", "one", "shuffle"}, NEW d,
         d = NothingDropped(p, steps) \/ (steps > 0 /\ d = DropQueued(p, steps, mode))
  PROVE  /\ d.log \in Seq(Command) /\ d.steps \in Int /\ Len(d.log) \in Nat
         /\ \A l \in 1 .. Len(d.log) : d.log[l].op = "D"
         /\ Mirrors(c \o d.log, listed, d.pl) /\ Settled(d.pl)
         /\ Len(c \o d.log) = Len(c) + Len(d.log) /\ Len(c) \in Nat /\ c \in Seq(Command)
<1>1. c \in Seq(Command) /\ Len(c) \in Nat
  BY LenProperties DEF Mirrors, Fits
<1>2. /\ d.log \in Seq(Command) /\ d.steps \in Int /\ Mirrors(c \o d.log, listed, d.pl) /\ Settled(d.pl)
      /\ \A l \in 1 .. Len(d.log) : d.log[l].op = "D"
  <2>1. CASE d = NothingDropped(p, steps)
    <3>1. d.pl = p /\ d.steps = steps /\ d.log = << >>
      BY <2>1 DEF NothingDropped
    <3>2. << >> \in Seq(Command) /\ c \o << >> = c /\ Len(<< >>) = 0
      BY <1>1, EmptySeq, ConcatEmptySeq
    <3> QED BY <3>1, <3>2
  <2>2. CASE steps > 0 /\ d = DropQueued(p, steps, mode)
    <3>1. steps \in Nat
      BY <2>2
    <3> DEFINE w == DropQueued(p, steps, mode)
    <3>2. Dropped(c, listed, w)
      BY <3>1, DropMirrors
    <3>3. d = w
      BY <2>2
    <3> HIDE DEF w
    <3> QED BY <3>2, <3>3 DEF Dropped
  <2> QED BY <2>1, <2>2
<1>3. Len(d.log) \in Nat /\ Len(c \o d.log) = Len(c) + Len(d.log)
  BY <1>1, <1>2, LenProperties, ConcatProperties
<1> QED BY <1>1, <1>2, <1>3

\* playlist_next() keeps the invariant.
LEMMA PlaylistNextOk ==
  ASSUME NEW steps \in Int, NEW mode \in Modes, NEW manual \in BOOLEAN,
         PlaylistNext(steps, mode, manual), IInv
  PROVE  IInv'
<1> DEFINE m == IF mode = "one" /\ manual THEN "all" ELSE mode
           d == IF steps > 0 /\ m /= "one" THEN DropQueued(pl, steps, mode) ELSE NothingDropped(pl, steps)
           k == NextIndex(d.pl, d.steps, m)
           q == [d.pl EXCEPT !.index = k]
           passed == q.last >= 0 /\ d.steps > 0 /\ Rotate(q, k) > Rotate(q, q.last)
           w == [q EXCEPT !.last = -1]
<1>1. /\ Running /\ Room(Len(d.log) + 1) /\ k >= 0
      /\ pl' = (IF passed THEN w ELSE q)
      /\ ctl' = ctl \o (IF passed THEN Append(d.log, CReset) ELSE d.log)
      /\ synced' = (IF ctl' = ctl THEN synced ELSE Len(ctl'))
      /\ UNCHANGED <<fromFile, saved, phase>>
  BY DEF PlaylistNext, Log, NothingDropped
<1>2. /\ Mirrors(ctl, fromFile, pl) /\ Settled(pl) /\ synced \in 0 .. Len(ctl)
  BY <1>1, Found
<1>3. mode \in {"off", "all", "one", "shuffle"} /\ m \in {"off", "all", "one", "shuffle"}
  BY PlaylistAssumption
<1>d. d = NothingDropped(pl, steps) \/ (steps > 0 /\ d = DropQueued(pl, steps, mode))
  OBVIOUS
<1> HIDE DEF m, d
<1>4. /\ d.log \in Seq(Command) /\ d.steps \in Int /\ Len(d.log) \in Nat
      /\ Mirrors(ctl \o d.log, fromFile, d.pl) /\ Settled(d.pl)
      /\ Len(ctl \o d.log) = Len(ctl) + Len(d.log) /\ Len(ctl) \in Nat /\ ctl \in Seq(Command)
  BY <1>2, <1>3, <1>d, LeftBehind
<1> DEFINE c == ctl \o d.log
           E == Named(c, Len(c), fromFile)
           b == d.pl
           n == d.steps
<1>5. b \in Lists(E) /\ InRange(b) /\ b.index \in 0 .. Amount(b) /\ Mirrors(c, fromFile, b) /\ Settled(b)
  BY <1>4 DEF Mirrors, Fits
<1>k. k = NextIndex(b, n, m) /\ q = [b EXCEPT !.index = k] /\ n \in Int
  BY <1>4
<1>c. c \in Seq(Command)
  BY <1>5 DEF Mirrors, Fits
<1> HIDE DEF c, E, b, n, k
<1>6. k \in 0 .. Amount(b)
  <2>1. k \in Int /\ (k = -1 \/ InList(b, k))
    BY <1>3, <1>5, <1>k, NextRange
  <2>2. Amount(b) \in Nat
    BY <1>5, LenProperties DEF Lists, Amount
  <2> QED BY <2>1, <2>2, <1>1 DEF InList
<1> DEFINE st == b.started
<1>7. st \in BOOLEAN /\ (b.started => st)
  BY <1>5 DEF Lists
<1> HIDE DEF st, passed, q
<1>8. Mirrors(c, fromFile, q) /\ Settled(q)
  BY <1>5, <1>6, <1>7, <1>k, SameMirrors
<1>9. Mirrors(Append(c, CReset), fromFile, w) /\ Settled(w) /\ CReset \in Command
      /\ Len(Append(c, CReset)) = Len(c) + 1
  BY <1>8, ResetMirrors
<1>10. ctl \o Append(d.log, CReset) = Append(c, CReset)
  <2> DEFINE log == d.log
             x == CReset
  <2>1. log \in Seq(Command) /\ x \in Command /\ ctl \in Seq(Command) /\ c = ctl \o log
    BY <1>4, <1>9 DEF c
  <2> HIDE DEF log, x
  <2>2. ctl \o Append(log, x) = Append(c, x)
    BY <2>1, LogAppend
  <2> QED BY <2>2 DEF log, x
<1> HIDE DEF w
<1>11. Kept(ctl', fromFile', pl') /\ Len(ctl') \in Nat /\ Len(ctl') <= Len(ctl) + (Len(d.log) + 1)
       /\ Len(ctl') >= Len(ctl)
  <2>1. Len(c) = Len(ctl) + Len(d.log)
    BY <1>4 DEF c
  <2>2. CASE passed
    <3>1. ctl' = Append(c, CReset) /\ pl' = w /\ fromFile' = fromFile
      BY <1>1, <1>10, <2>2
    <3>2. Len(ctl') = (Len(ctl) + Len(d.log)) + 1
      BY <3>1, <2>1, <1>9
    <3> QED BY <3>1, <3>2, <1>4, <1>9 DEF Kept
  <2>3. CASE ~passed
    <3>1. ctl' = c /\ pl' = q /\ fromFile' = fromFile
      BY <1>1, <2>3 DEF c
    <3> QED BY <3>1, <2>1, <1>4, <1>8 DEF Kept
  <2> QED BY <2>2, <2>3
<1>12. synced' \in 0 .. Len(ctl')
  BY <1>1, <1>2, <1>4, <1>11
<1> DEFINE l == Len(d.log) + 1
<1>13. l \in Nat /\ Room(l) /\ Len(ctl') <= Len(ctl) + l
  BY <1>1, <1>4, <1>11
<1> HIDE DEF l
<1> QED BY <1>1, <1>4, <1>11, <1>12, <1>13, Grows

\* The end of the list keeps the invariant.
LEMMA AtEndOk ==
  ASSUME Careful, NEW steps \in Int, NEW mode \in Modes, NEW seed, AtEnd(steps, mode, seed), IInv
  PROVE  IInv'
<1> DEFINE d == IF steps > 0 /\ mode /= "one" THEN DropQueued(pl, steps, mode) ELSE NothingDropped(pl, steps)
<1>1. /\ Running /\ Room(Len(d.log) + 1) /\ pl' = d.pl /\ ctl' = ctl \o d.log
      /\ synced' = (IF d.log = << >> THEN synced ELSE Len(ctl) + Len(d.log))
      /\ UNCHANGED <<fromFile, saved, phase>>
  BY DEF AtEnd, Log, NothingDropped
<1>2. /\ Mirrors(ctl, fromFile, pl) /\ Settled(pl) /\ synced \in 0 .. Len(ctl)
  BY <1>1, Found
<1>3. mode \in {"off", "all", "one", "shuffle"}
  BY PlaylistAssumption
<1>d. d = NothingDropped(pl, steps) \/ (steps > 0 /\ d = DropQueued(pl, steps, mode))
  OBVIOUS
<1> HIDE DEF d
<1>4. /\ d.log \in Seq(Command) /\ Len(d.log) \in Nat
      /\ Mirrors(ctl \o d.log, fromFile, d.pl) /\ Settled(d.pl)
      /\ Len(ctl \o d.log) = Len(ctl) + Len(d.log) /\ Len(ctl) \in Nat
  BY <1>2, <1>3, <1>d, LeftBehind
<1>5. Kept(ctl', fromFile', pl') /\ Len(ctl') = Len(ctl) + Len(d.log)
  BY <1>1, <1>4 DEF Kept
<1>6. synced' \in 0 .. Len(ctl')
  BY <1>1, <1>2, <1>4, <1>5
<1> DEFINE l == Len(d.log) + 1
<1>7. l \in Nat /\ Room(l) /\ Len(ctl') <= Len(ctl) + l
  BY <1>1, <1>4, <1>5
<1> HIDE DEF l
<1> QED BY <1>1, <1>4, <1>5, <1>6, <1>7, Grows

\* Every step keeps the invariant.
LEMMA NextOk ==
  ASSUME Careful, IInv, [Next]_vars
  PROVE  IInv'
<1>1. CASE UNCHANGED vars
  <2>1. /\ pl' = pl /\ ctl' = ctl /\ synced' = synced /\ fromFile' = fromFile /\ saved' = saved
        /\ phase' = phase
    BY <1>1 DEF vars
  <2> QED BY <2>1 DEF IInv, Running
<1>2. CASE \E i \in 0 .. Len(Files) - 1 : CreateAndStart(i)
  BY <1>2, CreateAndStartOk
<1>3. CASE \E i \in 0 .. Len(Files) - 1, seed \in Seeds, selected \in BOOLEAN : CreateShuffled(i, seed, selected)
  BY <1>3, CreateShuffledOk
<1>4. CASE CreateEmpty
  BY <1>4, CreateEmptyOk
<1>5. CASE Start
  BY <1>5, StartOk
<1>r. \A pos : Rolls(pos) \subseteq Nat
  BY PlaylistAssumption DEF Rolls, Dice
<1>6. CASE Adds
  <2>1. PICK pos \in Where, queue \in BOOLEAN, t \in Track :
          \/ \E r \in Rolls(pos), sync \in BOOLEAN : Insert(pos, queue, t, r, sync)
          \/ \E u \in Track \ {t}, r, r2 \in Rolls(pos) : InsertBatch(pos, queue, t, u, r, r2)
    BY <1>6 DEF Adds
  <2>2. CASE \E r \in Rolls(pos), sync \in BOOLEAN : Insert(pos, queue, t, r, sync)
    <3>1. PICK r \in Nat, sync \in BOOLEAN : Insert(pos, queue, t, r, sync)
      BY <2>2, <1>r
    <3> QED BY <3>1, InsertOk
  <2>3. CASE \E u \in Track \ {t}, r, r2 \in Rolls(pos) : InsertBatch(pos, queue, t, u, r, r2)
    <3>1. PICK u \in Track, r \in Nat, r2 \in Nat : InsertBatch(pos, queue, t, u, r, r2)
      BY <2>3, <1>r
    <3> QED BY <3>1, InsertBatchOk
  <2> QED BY <2>1, <2>2, <2>3
<1>7. CASE Moves
  <2>1. PICK i \in 0 .. MaxSize - 1, j \in 0 .. MaxSize - 1 : Move(i, j)
    BY <1>7 DEF Moves
  <2>2. i \in Int /\ j \in Int
    BY PlaylistAssumption
  <2> QED BY <2>1, <2>2, MoveOk
<1>8. CASE Deletes
  BY <1>8, DeleteOk DEF Deletes
<1>9. CASE Unshuffle
  BY <1>9, UnshuffleOk
<1>10. CASE \E seed \in Seeds : ShuffleOn(seed)
  BY <1>10, ShuffleOnOk
<1>11. CASE \E seed \in Seeds : ShuffleNew(seed)
  BY <1>11, ShuffleNewOk
<1>12. CASE \E seed \in Seeds, startCurrent \in BOOLEAN : SortAndShuffle(seed, startCurrent)
  BY <1>12, SortAndShuffleOk
<1>13. CASE RemoveAll
  BY <1>13, RemoveAllOk
<1>14. CASE Steps
  <2>1. PICK steps \in {-1, 1, 2}, mode \in Modes :
          \/ \E manual \in BOOLEAN : PlaylistNext(steps, mode, manual)
          \/ \E seed \in Seeds : AtEnd(steps, mode, seed)
    BY <1>14 DEF Steps
  <2>2. steps \in Int
    OBVIOUS
  <2> QED BY <2>1, <2>2, PlaylistNextOk, AtEndOk
<1>15. CASE Crash
  BY <1>15, CrashOk
<1>16. CASE Shutdown
  BY <1>16, ShutdownOk
<1>17. CASE Resume
  BY <1>17, ResumeOk
<1> QED
  BY <1>1, <1>2, <1>3, <1>4, <1>5, <1>6, <1>7, <1>8, <1>9, <1>10, <1>11, <1>12, <1>13, <1>14,
     <1>15, <1>16, <1>17 DEF Next, Shuffles

-----------------------------------------------------------------------------
\* The theorems.

\* The invariant holds at all times, when callers sort before they shuffle and keep
\* the index in range (Careful).
THEOREM Inductive ==
  ASSUME Careful
  PROVE  Spec => []IInv
<1>1. IInv /\ [Next]_vars => IInv'
  BY NextOk
<1> QED BY <1>1, InitOk, PTL DEF Spec

\* The invariant has the resumed list in it.
LEMMA IInvResumes == IInv => ResumeExact
BY DEF IInv, ResumeExact, Kept, Mirrors, Fits

\* The invariant has the well-formed list in it.
LEMMA IInvShape == IInv => WellFormed
<1> SUFFICES ASSUME IInv PROVE WellFormed
  OBVIOUS
<1>1. CASE Running
  <2>1. /\ pl \in Lists(Named(ctl, Len(ctl), fromFile)) /\ InRange(pl) /\ pl.index \in 0 .. Amount(pl)
        /\ synced \in 0 .. Len(ctl)
    BY <1>1, Found
  <2>2. TypeOK
    BY <2>1 DEF TypeOK, IInv, InRange
  <2>3. EntriesNamed
    <3>1. SUFFICES ASSUME NEW i \in 1 .. Amount(pl)
                   PROVE  LET e == pl.idx[i] IN
                          IF e.kind = "list" THEN fromFile /\ \E k \in DOMAIN Files : e = ListEntry(k)
                          ELSE e.seek \in 1 .. Len(ctl) /\
                               LET c == ctl[e.seek] IN c.op = (IF e.queued THEN "Q" ELSE "A") /\ c.track = e.track
      BY DEF EntriesNamed
    <3>2. pl.idx[i] \in Named(ctl, Len(ctl), fromFile)
      BY <2>1, ElementOfSeq DEF Lists, Amount
    <3> QED BY <3>2 DEF Named
  <2> QED BY <2>2, <2>3 DEF WellFormed
<1>2. CASE ~Running
  <2> DEFINE no == FALSE
  <2>0. no \in BOOLEAN /\ no = FALSE
    OBVIOUS
  <2>1. pl = Fresh(no)
    BY <1>2, <2>0 DEF IInv, Running
  <2> HIDE DEF no
  <2>2. Amount(pl) = 0 /\ pl.index = 0 /\ pl.first = 0 /\ pl.last = -1
    BY <2>0, <2>1, FreshShape
  <2>3. TypeOK
    BY <2>2, PlaylistAssumption DEF TypeOK, IInv
  <2> QED BY <1>2, <2>3 DEF WellFormed, EntriesNamed
<1> QED BY <1>1, <1>2

\* At all times the positions of the list are in range and every entry names a track:
\* one of the playlist file or the very line of the control file that added it.
THEOREM WellFormedHolds ==
  ASSUME Careful
  PROVE  Spec => []WellFormed
BY Inductive, IInvShape, PTL

\* At all times the commands in the control file, carried out again by
\* playlist_resume(), give the tracks, the order and the first track of the list in
\* memory, whatever was added, moved, deleted, shuffled, sorted or stepped over, and
\* however many crashes and resumes came before.
THEOREM ResumeExactHolds ==
  ASSUME Careful
  PROVE  Spec => []ResumeExact
BY Inductive, IInvResumes, PTL

-----------------------------------------------------------------------------
\* What plays goes on.

\* The entries after a track was added, by their places.
LEMMA AddEntries ==
  ASSUME NEW E, NEW p \in Lists(E), InRange(p), Amount(p) < MaxSize,
         NEW pos \in Int, NEW queue, NEW t, NEW line, NEW r, NEW s,
         InsertPosition(p, pos, r, s) \in 0 .. Amount(p),
         Inserted(queue, line, t) \in E
  PROVE  LET q == InsertPosition(p, pos, r, s)
             e == Inserted(queue, line, t)
             a == AddTrack(p, pos, queue, t, line, r, s).pl
         IN  /\ a \in Lists(E) /\ InRange(a) /\ Amount(a) = Amount(p) + 1 /\ a.started = p.started
             /\ a.index = (IF pos < 0 /\ Amount(p) > 0 /\ q <= p.index /\ p.started /\ pos /= LAST_ROTATED
                           THEN p.index + 1 ELSE p.index)
             /\ a.first = (IF Turns(p, pos, q) \/ (pos >= 0 /\ Amount(p) > 0 /\ q < p.first /\ p.started)
                           THEN p.first + 1 ELSE p.first)
             /\ \A k \in 0 .. Amount(p) :
                  EntryAt(a, k) = IF k < q THEN EntryAt(p, k) ELSE IF k = q THEN e ELSE EntryAt(p, k - 1)
<1> DEFINE q == InsertPosition(p, pos, r, s)
           e == Inserted(queue, line, t)
           a == AddTrack(p, pos, queue, t, line, r, s).pl
<1>1. /\ a \in Lists(E) /\ InRange(a) /\ Amount(a) = Amount(p) + 1 /\ a.started = p.started
      /\ a.idx = InsertAt(p.idx, q + 1, e)
      /\ a.index = (IF pos < 0 /\ Amount(p) > 0 /\ q <= p.index /\ p.started /\ pos /= LAST_ROTATED
                    THEN p.index + 1 ELSE p.index)
      /\ a.first = (IF Turns(p, pos, q) \/ (pos >= 0 /\ Amount(p) > 0 /\ q < p.first /\ p.started)
                    THEN p.first + 1 ELSE p.first)
  BY AddShape
<1>2. /\ p.idx \in Seq(E) /\ Amount(p) = Len(p.idx) /\ Amount(p) \in Nat /\ e \in E
      /\ q \in 0 .. Amount(p)
  BY LenProperties DEF Lists, Amount
<1> DEFINE j == q + 1
           i == p.idx
<1>3. j \in 1 .. Len(i) + 1 /\ i \in Seq(E)
  BY <1>2
<1> HIDE DEF a, q, e
<1>4. \A k \in 1 .. Len(i) + 1 :
        InsertAt(i, j, e)[k] = IF k < j THEN i[k] ELSE IF k = j THEN e ELSE i[k - 1]
  <2> HIDE DEF j, i
  <2>1. Put(E, i, j, e)
    BY <1>2, <1>3, InsertAtPuts
  <2> QED BY <2>1 DEF Put
<1>5. ASSUME NEW k \in 0 .. Amount(p)
      PROVE  EntryAt(a, k) = IF k < q THEN EntryAt(p, k) ELSE IF k = q THEN e ELSE EntryAt(p, k - 1)
  <2>1. k + 1 \in 1 .. Len(i) + 1 /\ (k + 1) - 1 = k /\ (k - 1) + 1 = k
    BY <1>2
  <2>2. a.idx[k + 1] = IF k + 1 < j THEN i[k + 1] ELSE IF k + 1 = j THEN e ELSE i[(k + 1) - 1]
    BY <1>1, <1>4, <2>1
  <2>3. (k + 1 < j <=> k < q) /\ (k + 1 = j <=> k = q)
    BY <1>2
  <2>4. EntryAt(a, k) = a.idx[k + 1] /\ EntryAt(p, k) = i[k + 1] /\ EntryAt(p, k - 1) = i[k]
    BY <2>1 DEF EntryAt
  <2> HIDE DEF j, i
  <2> QED BY <2>1, <2>2, <2>3, <2>4
<1> QED BY <1>1, <1>5 DEF a, q, e

\* The entries after a track was removed, by their places.
LEMMA RemoveEntries ==
  ASSUME NEW E, NEW p \in Lists(E), InRange(p), NEW i \in 0 .. Amount(p) - 1
  PROVE  LET a == RemoveTrack(p, i)
         IN  /\ a \in Lists(E) /\ InRange(a) /\ Amount(a) = Amount(p) - 1 /\ a.started = p.started
             /\ a.index = (IF i < p.index THEN p.index - 1 ELSE p.index)
             /\ a.first = (IF i < p.first THEN p.first - 1 ELSE p.first)
             /\ \A k \in 0 .. Amount(p) - 2 :
                  EntryAt(a, k) = IF k < i THEN EntryAt(p, k) ELSE EntryAt(p, k + 1)
<1> DEFINE a == RemoveTrack(p, i)
<1>1. /\ a \in Lists(E) /\ InRange(a) /\ Amount(a) = Amount(p) - 1 /\ a.started = p.started
      /\ a.idx = RemoveAt(p.idx, i + 1)
      /\ a.index = (IF i < p.index THEN p.index - 1 ELSE p.index)
      /\ a.first = (IF i < p.first THEN p.first - 1 ELSE p.first)
  BY RemoveShape
<1>2. p.idx \in Seq(E) /\ Amount(p) = Len(p.idx) /\ Amount(p) \in Nat
  BY LenProperties DEF Lists, Amount
<1> DEFINE j == i + 1
           s == p.idx
<1>3. j \in 1 .. Len(s) /\ s \in Seq(E)
  BY <1>2
<1> HIDE DEF a
<1>4. \A k \in 1 .. Len(s) - 1 : RemoveAt(s, j)[k] = IF k < j THEN s[k] ELSE s[k + 1]
  <2> HIDE DEF j, s
  <2> QED BY <1>3, RemoveAtProps
<1>5. ASSUME NEW k \in 0 .. Amount(p) - 2
      PROVE  EntryAt(a, k) = IF k < i THEN EntryAt(p, k) ELSE EntryAt(p, k + 1)
  <2>1. k + 1 \in 1 .. Len(s) - 1
    BY <1>2
  <2>2. a.idx[k + 1] = IF k + 1 < j THEN s[k + 1] ELSE s[(k + 1) + 1]
    BY <1>1, <1>4, <2>1
  <2>3. k + 1 < j <=> k < i
    BY <1>2
  <2>4. EntryAt(a, k) = a.idx[k + 1] /\ EntryAt(p, k) = s[k + 1] /\ EntryAt(p, k + 1) = s[(k + 1) + 1]
    BY DEF EntryAt
  <2> HIDE DEF j, s
  <2> QED BY <2>2, <2>3, <2>4
<1> QED BY <1>1, <1>5 DEF a

\* Adding a track does not change what plays.
LEMMA AddKeeps ==
  ASSUME NEW E, NEW p \in Lists(E), InRange(p), Amount(p) < MaxSize,
         NEW pos \in Int, pos < 0, pos # LAST_ROTATED, NEW queue, NEW t, NEW line, NEW r, NEW s,
         InsertPosition(p, pos, r, s) \in 0 .. Amount(p),
         Inserted(queue, line, t) \in E, InList(p, p.index)
  PROVE  LET a == AddTrack(p, pos, queue, t, line, r, s).pl
         IN  p.started => Current(a) = Current(p) /\ InList(a, a.index) /\ a.started
<1> DEFINE q == InsertPosition(p, pos, r, s)
           e == Inserted(queue, line, t)
           a == AddTrack(p, pos, queue, t, line, r, s).pl
<1>1. /\ Amount(a) = Amount(p) + 1 /\ a.started = p.started
      /\ a.index = (IF pos < 0 /\ Amount(p) > 0 /\ q <= p.index /\ p.started /\ pos /= LAST_ROTATED
                    THEN p.index + 1 ELSE p.index)
      /\ \A k \in 0 .. Amount(p) :
           EntryAt(a, k) = IF k < q THEN EntryAt(p, k) ELSE IF k = q THEN e ELSE EntryAt(p, k - 1)
  BY AddEntries
<1>2. Amount(p) \in Nat /\ q \in 0 .. Amount(p) /\ p.index \in Int /\ 0 <= p.index /\ p.index < Amount(p)
  BY LenProperties DEF Lists, Amount, InList
<1> HIDE DEF a, q, e
<1> SUFFICES ASSUME p.started PROVE Current(a) = Current(p) /\ InList(a, a.index) /\ a.started
  BY DEF a
<1>3. a.index \in 0 .. Amount(p) /\ EntryAt(a, a.index) = EntryAt(p, p.index)
  <2>1. CASE q <= p.index
    <3>1. a.index = p.index + 1 /\ p.index + 1 \in 0 .. Amount(p) /\ ~(p.index + 1 < q)
          /\ p.index + 1 # q /\ (p.index + 1) - 1 = p.index
      BY <1>1, <1>2, <2>1
    <3> QED BY <1>1, <3>1
  <2>2. CASE ~(q <= p.index)
    <3>1. a.index = p.index /\ p.index \in 0 .. Amount(p) /\ p.index < q
      BY <1>1, <1>2, <2>2
    <3> QED BY <1>1, <3>1
  <2> QED BY <2>1, <2>2
<1>4. InList(a, a.index)
  BY <1>1, <1>2, <1>3 DEF InList
<1> QED BY <1>1, <1>3, <1>4 DEF Current, a

\* Nor does removing another one.
LEMMA RemoveKeeps ==
  ASSUME NEW E, NEW p \in Lists(E), InRange(p), NEW i \in 0 .. Amount(p) - 1,
         i # p.index, InList(p, p.index)
  PROVE  LET a == RemoveTrack(p, i)
         IN  Current(a) = Current(p) /\ InList(a, a.index) /\ a.started = p.started
<1> DEFINE a == RemoveTrack(p, i)
<1>1. /\ Amount(a) = Amount(p) - 1 /\ a.started = p.started
      /\ a.index = (IF i < p.index THEN p.index - 1 ELSE p.index)
      /\ \A k \in 0 .. Amount(p) - 2 :
           EntryAt(a, k) = IF k < i THEN EntryAt(p, k) ELSE EntryAt(p, k + 1)
  BY RemoveEntries
<1>2. Amount(p) \in Nat /\ p.index \in Int /\ 0 <= p.index /\ p.index < Amount(p)
  BY LenProperties DEF Lists, Amount, InList
<1> HIDE DEF a
<1>3. a.index \in 0 .. Amount(p) - 2 /\ EntryAt(a, a.index) = EntryAt(p, p.index)
  <2>1. CASE i < p.index
    <3>1. a.index = p.index - 1 /\ p.index - 1 \in 0 .. Amount(p) - 2 /\ ~(p.index - 1 < i)
          /\ (p.index - 1) + 1 = p.index
      BY <1>1, <1>2, <2>1
    <3> QED BY <1>1, <3>1
  <2>2. CASE ~(i < p.index)
    <3>1. a.index = p.index /\ p.index \in 0 .. Amount(p) - 2 /\ p.index < i
      BY <1>1, <1>2, <2>2
    <3> QED BY <1>1, <3>1
  <2> QED BY <2>1, <2>2
<1>4. InList(a, a.index)
  BY <1>1, <1>2, <1>3 DEF InList
<1> QED BY <1>1, <1>3, <1>4 DEF Current, a

\* A number that goes round once at most.
LEMMA ModOnce ==
  ASSUME NEW n \in Nat, n > 0, NEW x \in Nat, x < n + n
  PROVE  x % n = IF x < n THEN x ELSE x - n
<1> DEFINE k == x \div n
           y == x % n
<1>1. y \in 0 .. n - 1 /\ x = (n * k) + y /\ k \in Nat
  OBVIOUS
<1> HIDE DEF k, y
<1>2. k = 0 \/ k = 1
  <2>1. CASE k >= 2
    <3>1. PICK d \in Nat : k = d + 2
      <4>1. k - 2 \in Nat /\ k = (k - 2) + 2
        BY <1>1, <2>1
      <4> QED BY <4>1
    <3>2. n * k = (n * d) + (n + n) /\ n * d >= 0
      BY <3>1, SMT
    <3>3. n * d \in Int
      BY <3>1
    <3> DEFINE nd == n * d
               nk == n * k
    <3>4. nk = nd + (n + n) /\ nd >= 0 /\ nd \in Int /\ x = nk + y
      BY <1>1, <3>2, <3>3
    <3> HIDE DEF nd, nk
    <3> QED BY <1>1, <3>4
  <2> QED BY <1>1, <2>1
<1>3. CASE k = 0
  <2>1. x = y
    BY <1>1, <1>3
  <2> QED BY <1>1, <2>1 DEF y
<1>4. CASE k = 1
  <2>1. x = n + y
    BY <1>1, <1>4
  <2>2. ~(x < n) /\ y = x - n
    BY <1>1, <2>1
  <2> QED BY <2>2 DEF y
<1> QED BY <1>2, <1>3, <1>4

\* The arithmetic of playlist_move(): with the track at i taken out and put in again at
\* pos, the current one at x moves on exactly when pos is at or before it.
LEMMA Displacing ==
  ASSUME NEW N \in Nat, NEW f \in 0 .. N, NEW i \in 0 .. N - 1, NEW j \in 0 .. N - 1,
         NEW x \in 0 .. N - 1, i # j, i # x,
         NEW ri, ri = (IF i - f < 0 THEN (i - f) + N ELSE i - f),
         NEW rj, rj = (IF j - f < 0 THEN (j - f) + N ELSE j - f),
         NEW rx, rx = (IF x - f < 0 THEN (x - f) + N ELSE x - f),
         NEW g, g = (IF i < f THEN f - 1 ELSE f), NEW c, c = (IF i < x THEN x - 1 ELSE x),
         NEW pos, pos = (IF rj + g < N - 1 THEN rj + g ELSE (rj + g) - (N - 1))
  PROVE  LET D == (ri > rx /\ rj <= rx) \/ (ri < rx /\ rj < rx)
             shifts == IF pos < g /\ pos <= c THEN TRUE ELSE IF pos >= g /\ c < g THEN FALSE ELSE D
         IN  /\ rj = N - 1 => ~D
             /\ rj # 0 /\ rj # N - 1 => (shifts <=> pos <= c)
<1> DEFINE D == (ri > rx /\ rj <= rx) \/ (ri < rx /\ rj < rx)
           shifts == IF pos < g /\ pos <= c THEN TRUE ELSE IF pos >= g /\ c < g THEN FALSE ELSE D
<1>1. /\ N \in Int /\ f \in Int /\ i \in Int /\ j \in Int /\ x \in Int /\ 0 <= f /\ f <= N
      /\ 0 <= i /\ i <= N - 1 /\ 0 <= j /\ j <= N - 1 /\ 0 <= x /\ x <= N - 1
  OBVIOUS
<1>2. ri \in Int /\ rj \in Int /\ rx \in Int /\ g \in Int /\ c \in Int /\ pos \in Int
  BY <1>1
<1>3. rj = N - 1 => ~D
  BY <1>1, <1>2
<1>4. ASSUME rj # 0, rj # N - 1 PROVE shifts <=> pos <= c
  <2>1. CASE pos < g /\ pos <= c
    BY <2>1
  <2>2. CASE pos >= g /\ c < g
    BY <1>2, <2>2
  <2>3. CASE pos < g /\ pos > c
    BY <1>1, <1>2, <1>4, <2>3, SMTT(60)
  <2>4. CASE pos >= g /\ c >= g
    BY <1>1, <1>2, <1>4, <2>4, SMTT(60)
  <2> QED BY <1>2, <2>1, <2>2, <2>3, <2>4
<1> QED BY <1>3, <1>4

\* The entries of a running list, whatever they name.
LEMMA FoundList ==
  ASSUME IInv, Running
  PROVE  /\ pl \in Lists(Entry) /\ InRange(pl) /\ pl.index \in 0 .. Amount(pl) /\ Amount(pl) \in Nat
         /\ pl.first \in 0 .. Amount(pl) /\ Len(ctl) \in Nat /\ Amount(pl) <= MaxSize /\ MaxSize \in Nat
         /\ Settled(pl) /\ pl.last \in -1 .. Amount(pl)
<1>1. /\ pl \in Lists(Named(ctl, Len(ctl), fromFile)) /\ InRange(pl) /\ pl.index \in 0 .. Amount(pl)
      /\ Amount(pl) \in Nat /\ Len(ctl) \in Nat /\ Settled(pl)
  BY Found
<1>2. Named(ctl, Len(ctl), fromFile) \subseteq Entry
  BY DEF Named
<1>3. pl \in Lists(Entry)
  BY <1>1, <1>2, ListsGrow
<1> QED BY <1>1, <1>3, PlaylistAssumption DEF InRange

\* A track of the list is one that can be added again.
LEMMA EntryOf ==
  ASSUME NEW p \in Lists(Entry), NEW i \in Int, InList(p, i)
  PROVE  EntryAt(p, i) \in Entry
<1>1. p.idx \in Seq(Entry) /\ Amount(p) = Len(p.idx) /\ Amount(p) \in Nat
  BY LenProperties DEF Lists, Amount
<1>2. i + 1 \in 1 .. Len(p.idx)
  BY <1>1 DEF InList
<1>3. p.idx[i + 1] \in Entry
  BY <1>1, <1>2, ElementOfSeq
<1> QED BY <1>3 DEF EntryAt

\* What a move makes of the list: where the track goes, and where everything else is.
LEMMA MoveShape ==
  ASSUME NEW i \in Int, NEW j \in Int, Move(i, j), IInv
  PROVE  LET r == Rotate(pl, j)
             N == Amount(pl)
             g == IF i < pl.first THEN pl.first - 1 ELSE pl.first
             c == IF i < pl.index THEN pl.index - 1 ELSE pl.index
             pos == IF r = 0 THEN PREPEND ELSE IF r = N - 1 THEN INSERT_LAST ELSE (r + g) % (N - 1)
             q == IF r = 0 THEN g ELSE IF r = N - 1 THEN IF g > 0 THEN g ELSE N - 1 ELSE pos
             e == EntryAt(pl, i)
             m == RemoveTrack(pl, i)
             a == AddTrack(m, pos, e.queued, e.track, Len(ctl) + 2, 0, 0).pl
         IN  /\ Running /\ i # j /\ i \in 0 .. N - 1 /\ j \in 0 .. N - 1 /\ pl.index \in 0 .. N - 1 /\ N >= 2
             /\ r \in 0 .. N - 1 /\ g \in 0 .. N - 1 /\ q \in 0 .. N - 1 /\ e \in Entry
             /\ r # 0 /\ r # N - 1 => pos \in 0 .. N - 2
             /\ m \in Lists(Entry) /\ InRange(m) /\ Amount(m) = N - 1 /\ m.started = pl.started
             /\ m.first = g /\ m.index = c
             /\ \A k \in 0 .. N - 2 : EntryAt(m, k) = IF k < i THEN EntryAt(pl, k) ELSE EntryAt(pl, k + 1)
             /\ a \in Lists(Entry) /\ InRange(a) /\ Amount(a) = N /\ a.started = pl.started
             /\ a.index = (IF pos < 0 /\ q <= c /\ pl.started THEN c + 1 ELSE c)
             /\ a.first = (IF Turns(m, pos, q) \/ (pos >= 0 /\ q < g /\ pl.started) THEN g + 1 ELSE g)
             /\ EntryAt(a, q).track = e.track
             /\ \A k \in 0 .. N - 1 : k # q => EntryAt(a, k) = IF k < q THEN EntryAt(m, k) ELSE EntryAt(m, k - 1)
<1> DEFINE r == Rotate(pl, j)
           N == Amount(pl)
           g == IF i < pl.first THEN pl.first - 1 ELSE pl.first
           c == IF i < pl.index THEN pl.index - 1 ELSE pl.index
           pos == IF r = 0 THEN PREPEND ELSE IF r = N - 1 THEN INSERT_LAST ELSE (r + g) % (N - 1)
           q == IF r = 0 THEN g ELSE IF r = N - 1 THEN IF g > 0 THEN g ELSE N - 1 ELSE pos
           e == EntryAt(pl, i)
           m == RemoveTrack(pl, i)
           z == 0
           line == Len(ctl) + 2
           queue == e.queued
           t == e.track
           a == AddTrack(m, pos, queue, t, line, z, z).pl
           f == Inserted(queue, line, t)
<1>1. Running /\ i # j /\ InList(pl, i) /\ InList(pl, j) /\ InList(pl, pl.index)
  BY DEF Move
<1>2. /\ pl \in Lists(Entry) /\ InRange(pl) /\ N \in Nat /\ pl.first \in 0 .. N /\ Len(ctl) \in Nat
      /\ N <= MaxSize /\ MaxSize \in Nat /\ pl.index \in Int /\ pl.first \in Int /\ line \in Nat
  BY <1>1, FoundList
<1>3. i \in 0 .. N - 1 /\ j \in 0 .. N - 1 /\ pl.index \in 0 .. N - 1 /\ N >= 2
  BY <1>1, <1>2 DEF InList
<1>4. r \in 0 .. N - 1
  BY <1>1, <1>2, RotateRange
<1>5. e \in Entry /\ queue \in BOOLEAN /\ t \in Names
  BY <1>1, <1>2, EntryOf DEF Entry
<1>6. /\ m \in Lists(Entry) /\ InRange(m) /\ Amount(m) = N - 1 /\ m.started = pl.started
      /\ m.first = g /\ m.index = c
      /\ \A k \in 0 .. N - 2 : EntryAt(m, k) = IF k < i THEN EntryAt(pl, k) ELSE EntryAt(pl, k + 1)
  BY <1>2, <1>3, RemoveEntries
<1> HIDE DEF r, m, queue, t, line
<1>7. g \in 0 .. N - 1 /\ c \in 0 .. N - 1
  <2>1. g <= N - 1
    BY <1>6, <1>2 DEF InRange
  <2> QED BY <1>2, <1>3, <2>1
<1> HIDE DEF g, c
<1>8. r # 0 /\ r # N - 1 => (r + g) % (N - 1) \in 0 .. N - 2
  <2>1. r + g \in Nat /\ N - 1 \in Nat /\ N - 1 > 0 /\ (N - 1) - 1 = N - 2
    BY <1>2, <1>3, <1>4, <1>7
  <2> DEFINE b == r + g
             n == N - 1
  <2>2. b \in Int /\ n \in Nat /\ n > 0 /\ n - 1 = N - 2
    BY <2>1
  <2> HIDE DEF b, n
  <2>3. b % n \in Int /\ 0 <= b % n /\ b % n <= n - 1
    BY <2>2, ModRange
  <2>4. b % n \in 0 .. N - 2
    BY <2>2, <2>3, <1>2
  <2> QED BY <2>4 DEF b, n
<1>9. pos \in Int /\ pos # LAST_ROTATED /\ (r # 0 /\ r # N - 1 => pos \in 0 .. N - 2)
  BY <1>2, <1>3, <1>8 DEF PREPEND, INSERT_LAST, LAST_ROTATED
<1>10. q \in 0 .. N - 1 /\ InsertPosition(m, pos, z, z) = q
  <2>1. CASE r = 0
    <3>1. pos = PREPEND /\ q = g
      BY <2>1
    <3> HIDE DEF pos, q, z
    <3> QED BY <3>1, <1>6, <1>7, Positions
  <2>2. CASE r # 0 /\ r = N - 1
    <3>1. pos = INSERT_LAST /\ q = IF g > 0 THEN g ELSE N - 1
      BY <2>2
    <3> HIDE DEF pos, q, z
    <3>2. q \in 0 .. N - 1
      BY <1>2, <1>3, <1>7, <3>1
    <3> QED BY <3>1, <3>2, <1>6, Positions
  <2>3. CASE r # 0 /\ r # N - 1
    <3>1. pos \in 0 .. N - 2 /\ q = pos
      BY <2>3, <1>9
    <3> HIDE DEF pos, q, z
    <3>2. pos \in Nat /\ q \in 0 .. N - 1
      BY <1>2, <1>3, <3>1
    <3> QED BY <3>1, <3>2, Positions
  <2> QED BY <2>1, <2>2, <2>3
<1>11. f \in Entry /\ f.track = t
  BY <1>2, <1>5 DEF Inserted, Entry
<1>12. q \in 0 .. Amount(m) /\ Amount(m) < MaxSize /\ Amount(m) > 0
  BY <1>2, <1>3, <1>6, <1>10
<1> HIDE DEF pos, q, z
<1>13. /\ a \in Lists(Entry) /\ InRange(a) /\ Amount(a) = Amount(m) + 1 /\ a.started = m.started
       /\ a.index = (IF pos < 0 /\ Amount(m) > 0 /\ q <= m.index /\ m.started /\ pos /= LAST_ROTATED
                     THEN m.index + 1 ELSE m.index)
       /\ a.first = (IF Turns(m, pos, q) \/ (pos >= 0 /\ Amount(m) > 0 /\ q < m.first /\ m.started)
                     THEN m.first + 1 ELSE m.first)
       /\ \A k \in 0 .. Amount(m) :
            EntryAt(a, k) = IF k < q THEN EntryAt(m, k) ELSE IF k = q THEN f ELSE EntryAt(m, k - 1)
  BY <1>6, <1>9, <1>10, <1>11, <1>12, AddEntries
<1> HIDE DEF a, f
<1>14. /\ Amount(a) = N /\ a.started = pl.started
       /\ a.index = (IF pos < 0 /\ q <= c /\ pl.started THEN c + 1 ELSE c)
       /\ a.first = (IF Turns(m, pos, q) \/ (pos >= 0 /\ q < g /\ pl.started) THEN g + 1 ELSE g)
  <2>1. Amount(a) = N
    BY <1>2, <1>6, <1>13
  <2> QED BY <2>1, <1>6, <1>9, <1>12, <1>13
<1>15. EntryAt(a, q).track = t
  <2>1. EntryAt(a, q) = f
    BY <1>12, <1>13
  <2> QED BY <2>1, <1>11
<1>16. ASSUME NEW k \in 0 .. N - 1, k # q
       PROVE  EntryAt(a, k) = IF k < q THEN EntryAt(m, k) ELSE EntryAt(m, k - 1)
  <2>1. k \in 0 .. Amount(m)
    BY <1>6
  <2> QED BY <2>1, <1>13, <1>16
<1> HIDE DEF e
<1> QED
  BY <1>1, <1>3, <1>4, <1>5, <1>6, <1>7, <1>9, <1>10, <1>13, <1>14, <1>15, <1>16
     DEF r, m, queue, t, line, g, c, pos, q, z, a, e

\* The list after a move: the current track's index, in all.
LEMMA MoveResult ==
  ASSUME NEW i \in Int, NEW j \in Int, Move(i, j), IInv
  PROVE  LET r == Rotate(pl, j)
             N == Amount(pl)
             g == IF i < pl.first THEN pl.first - 1 ELSE pl.first
             c == IF i < pl.index THEN pl.index - 1 ELSE pl.index
             pos == IF r = 0 THEN PREPEND ELSE IF r = N - 1 THEN INSERT_LAST ELSE (r + g) % (N - 1)
             q == IF r = 0 THEN g ELSE IF r = N - 1 THEN IF g > 0 THEN g ELSE N - 1 ELSE pos
             e == EntryAt(pl, i)
             m == RemoveTrack(pl, i)
             a == AddTrack(m, pos, e.queued, e.track, Len(ctl) + 2, 0, 0).pl
         IN  /\ pl'.idx = a.idx /\ pl'.first = a.first
             /\ pl.started => pl'.index = IF i = pl.index THEN q ELSE IF q <= c THEN c + 1 ELSE c
<1> DEFINE r == Rotate(pl, j)
           N == Amount(pl)
           g == IF i < pl.first THEN pl.first - 1 ELSE pl.first
           c == IF i < pl.index THEN pl.index - 1 ELSE pl.index
           pos == IF r = 0 THEN PREPEND ELSE IF r = N - 1 THEN INSERT_LAST ELSE (r + g) % (N - 1)
           q == IF r = 0 THEN g ELSE IF r = N - 1 THEN IF g > 0 THEN g ELSE N - 1 ELSE pos
           e == EntryAt(pl, i)
           m == RemoveTrack(pl, i)
           a == AddTrack(m, pos, e.queued, e.track, Len(ctl) + 2, 0, 0).pl
           D == Displaces(i, j)
           shifts == IF pos < 0 THEN D
                     ELSE IF pos < g /\ pos <= c THEN TRUE
                     ELSE IF pos >= g /\ c < g THEN FALSE
                     ELSE D
           back == a.first - 1
           k0 == CASE pos = PREPEND -> a.first
                   [] pos = INSERT_LAST -> IF back < 0 THEN back + Amount(a) ELSE back
                   [] OTHER -> pos
<1>1. /\ Running /\ i # j /\ i \in 0 .. N - 1 /\ j \in 0 .. N - 1 /\ pl.index \in 0 .. N - 1 /\ N >= 2
      /\ r \in 0 .. N - 1 /\ g \in 0 .. N - 1 /\ q \in 0 .. N - 1
      /\ r # 0 /\ r # N - 1 => pos \in 0 .. N - 2
      /\ Amount(m) = N - 1 /\ m.first = g /\ m.index = c
      /\ a \in Lists(Entry) /\ Amount(a) = N /\ a.started = pl.started
      /\ a.index = (IF pos < 0 /\ q <= c /\ pl.started THEN c + 1 ELSE c)
      /\ a.first = (IF Turns(m, pos, q) \/ (pos >= 0 /\ q < g /\ pl.started) THEN g + 1 ELSE g)
      /\ m.started = pl.started
  BY MoveShape
<1>2. N \in Nat /\ pl.first \in 0 .. N
  BY <1>1, FoundList
<1>3. pl' = (IF i = pl.index THEN [a EXCEPT !.index = k0]
             ELSE IF shifts /\ pos /= PREPEND THEN [a EXCEPT !.index = @ + 1]
             ELSE a)
  <2>1. pos = (IF TargetRow(i, j) = 0 THEN PREPEND
               ELSE IF TargetRow(i, j) = Amount(m) THEN INSERT_LAST
               ELSE (TargetRow(i, j) + m.first) % Amount(m))
    <3> HIDE DEF g, N, m
    <3> QED BY <1>1 DEF TargetRow
  <2>2. shifts = (IF pos < 0 THEN Displaces(i, j)
                  ELSE IF pos < m.first /\ pos <= m.index THEN TRUE
                  ELSE IF pos >= m.first /\ m.index < m.first THEN FALSE
                  ELSE Displaces(i, j))
    <3> HIDE DEF g, c, m
    <3> QED BY <1>1
  <2> HIDE DEF pos, shifts, m, g, c, N
  <2>3. pl' = (IF i = pl.index THEN [a EXCEPT !.index = k0]
               ELSE IF (IF pos < 0 THEN Displaces(i, j)
                        ELSE IF pos < m.first /\ pos <= m.index THEN TRUE
                        ELSE IF pos >= m.first /\ m.index < m.first THEN FALSE
                        ELSE Displaces(i, j)) /\ pos /= PREPEND THEN [a EXCEPT !.index = @ + 1]
               ELSE a)
    BY <2>1, SMTT(40) DEF Move, m
  <2> QED BY <2>2, <2>3
<1>4. /\ pl'.idx = a.idx /\ pl'.first = a.first
      /\ pl'.index = IF i = pl.index THEN k0 ELSE IF shifts /\ pos # PREPEND THEN a.index + 1 ELSE a.index
  <2> HIDE DEF a, k0, shifts, pos
  <2> QED BY <1>1, <1>3 DEF Lists
<1> SUFFICES ASSUME pl.started
             PROVE  pl'.index = IF i = pl.index THEN q ELSE IF q <= c THEN c + 1 ELSE c
  BY <1>4
<1>P. PREPEND = -1 /\ INSERT_LAST = -3 
  BY DEF PREPEND, INSERT_LAST
<1> DEFINE ri == Rotate(pl, i)
           rx == Rotate(pl, pl.index)
           pp == IF r + g < N - 1 THEN r + g ELSE (r + g) - (N - 1)
           DD == (ri > rx /\ r <= rx) \/ (ri < rx /\ r < rx)
           sh == IF pp < g /\ pp <= c THEN TRUE ELSE IF pp >= g /\ c < g THEN FALSE ELSE DD
<1>D. D <=> DD
  BY DEF Displaces
<1>5. i # pl.index => (r = N - 1 => ~DD) /\ (r # 0 /\ r # N - 1 => (sh <=> pp <= c))
  <2> SUFFICES ASSUME i # pl.index PROVE (r = N - 1 => ~DD) /\ (r # 0 /\ r # N - 1 => (sh <=> pp <= c))
    OBVIOUS
  <2> DEFINE f == pl.first
             x == pl.index
  <2>1. /\ ri = (IF i - f < 0 THEN (i - f) + N ELSE i - f)
        /\ r = (IF j - f < 0 THEN (j - f) + N ELSE j - f)
        /\ rx = (IF x - f < 0 THEN (x - f) + N ELSE x - f)
    BY DEF Rotate
  <2>2. g = (IF i < f THEN f - 1 ELSE f) /\ c = (IF i < x THEN x - 1 ELSE x)
    OBVIOUS
  <2>3. /\ N \in Nat /\ f \in 0 .. N /\ i \in 0 .. N - 1 /\ j \in 0 .. N - 1 /\ x \in 0 .. N - 1
        /\ i # j /\ i # x
    BY <1>1, <1>2
  <2>4. pp = (IF r + g < N - 1 THEN r + g ELSE (r + g) - (N - 1))
    OBVIOUS
  <2> HIDE DEF ri, r, rx, g, c, f, x, N, pp
  <2> QED BY <2>1, <2>2, <2>3, <2>4, Displacing
<1>6. r # 0 /\ r # N - 1 => pos = pp
  <2> SUFFICES ASSUME r # 0, r # N - 1 PROVE pos = pp
    OBVIOUS
  <2> DEFINE n == N - 1
             x == r + g
  <2>1. n \in Nat /\ n > 0 /\ x \in Nat /\ x < n + n
    <3>1. N - 1 \in Nat /\ N - 1 > 0 /\ r \in 0 .. N - 1 /\ g \in 0 .. N - 1 /\ r # N - 1
      <4> HIDE DEF r, g, N, pp, pos, q, c, m, a
      <4> QED BY <1>1, <1>2
    <3> HIDE DEF r, g, N, pp, pos
    <3> QED BY <3>1
  <2>2. pos = x % n /\ pp = IF x < n THEN x ELSE x - n
    OBVIOUS
  <2> HIDE DEF n, x, pos, pp
  <2> QED BY <2>1, <2>2, ModOnce
<1>7. CASE i = pl.index
  <2>1. CASE r = 0
    <3>1. pos = PREPEND /\ q = g
      BY <2>1
    <3>2. ~Turns(m, pos, q)
      BY <3>1 DEF Turns
    <3>3. a.first = g /\ k0 = a.first
      <4>1. k0 = a.first
        <5> HIDE DEF a, pos, back, q
        <5> QED BY <1>P, <3>1
      <4> HIDE DEF a, pos, q, g, m, k0
      <4> QED BY <4>1, <1>1, <1>P, <3>1, <3>2
    <3> HIDE DEF k0, a, pos, q
    <3> QED BY <1>4, <1>7, <3>1, <3>3
  <2>2. CASE r # 0 /\ r = N - 1
    <3>1. pos = INSERT_LAST /\ q = (IF g > 0 THEN g ELSE N - 1) /\ pos # PREPEND /\ pos = -3
      BY <2>2, <1>P
    <3>2. k0 = IF back < 0 THEN back + Amount(a) ELSE back
      <4> HIDE DEF back, pos, a
      <4> QED BY <3>1
    <3>3. a.first = IF g > 0 THEN g + 1 ELSE g
      <4> HIDE DEF a, m, g, pos, q, N
      <4>1. Turns(m, pos, q) <=> g > 0
        <5>1. Amount(m) > 0 /\ m.started /\ pos < 0
          BY <1>1, <1>2, <3>1
        <5>2. q <= g <=> g > 0
          BY <1>1, <1>2, <3>1
        <5> QED BY <1>1, <3>1, <5>1, <5>2 DEF Turns
      <4> QED BY <1>1, <3>1, <4>1
    <3>4. k0 = q
      <4> HIDE DEF a, m, g, pos, q, N, k0
      <4> QED BY <1>1, <1>2, <3>1, <3>2, <3>3
    <3> HIDE DEF k0, q
    <3> QED BY <1>4, <1>7, <3>4
  <2>3. CASE r # 0 /\ r # N - 1
    <3>1. pos \in 0 .. N - 2 /\ q = pos
      BY <1>1, <2>3
    <3>2. k0 = pos
      <4> HIDE DEF a, pos, back
      <4> QED BY <1>P, <1>2, <3>1
    <3> HIDE DEF k0, q, pos
    <3> QED BY <1>4, <1>7, <3>1, <3>2
  <2> QED BY <2>1, <2>2, <2>3
<1>8. CASE i # pl.index
  <2>1. pl'.index = IF shifts /\ pos # PREPEND THEN a.index + 1 ELSE a.index
    <3> HIDE DEF shifts, pos, a
    <3> QED BY <1>4, <1>8
  <2>2. CASE r = 0
    <3>1. pos = PREPEND /\ pos < 0
      BY <2>2, <1>P
    <3> HIDE DEF shifts, pos, a, q, c
    <3> QED BY <1>1, <1>8, <2>1, <3>1
  <2>3. CASE r # 0 /\ r = N - 1
    <3>1. pos < 0
      BY <2>3, <1>P
    <3>2. ~DD
      <4> HIDE DEF DD, sh, pp, r, N
      <4> QED BY <1>5, <1>8, <2>3
    <3>3. ~shifts
      <4> HIDE DEF DD, D, pos
      <4> QED BY <1>D, <3>1, <3>2
    <3> HIDE DEF shifts, pos, a, q, c
    <3> QED BY <1>1, <1>8, <2>1, <3>1, <3>3
  <2>4. CASE r # 0 /\ r # N - 1
    <3>1. pos \in 0 .. N - 2 /\ q = pos
      BY <1>1, <2>4
    <3>2. pos = pp /\ (sh <=> pp <= c)
      <4> HIDE DEF DD, sh, pp, pos, r, N, c
      <4> QED BY <1>5, <1>6, <1>8, <2>4
    <3>3. shifts <=> sh
      <4>1. ~(pos < 0)
        <5> HIDE DEF pos, N
        <5> QED BY <1>2, <3>1
      <4>2. pos = pp
        BY <3>2
      <4> HIDE DEF D, DD, pos, pp, g, c
      <4> QED BY <1>D, <4>1, <4>2
    <3> HIDE DEF shifts, sh, pos, pp, a, q, c, N
    <3>4. ~(pos < 0) /\ pos # PREPEND
      BY <1>2, <1>P, <3>1
    <3> QED BY <1>1, <1>8, <2>1, <3>1, <3>2, <3>3, <3>4
  <2> QED BY <2>2, <2>3, <2>4
<1> HIDE DEF q, c
<1> QED BY <1>7, <1>8

\* A move takes the current track along, or leaves it where it is.
LEMMA MoveKeeps ==
  ASSUME NEW i \in Int, NEW j \in Int, Move(i, j), IInv
  PROVE  pl.started => Current(pl').track = Current(pl).track
<1> DEFINE r == Rotate(pl, j)
           N == Amount(pl)
           g == IF i < pl.first THEN pl.first - 1 ELSE pl.first
           x == pl.index
           c == IF i < x THEN x - 1 ELSE x
           pos == IF r = 0 THEN PREPEND ELSE IF r = N - 1 THEN INSERT_LAST ELSE (r + g) % (N - 1)
           q == IF r = 0 THEN g ELSE IF r = N - 1 THEN IF g > 0 THEN g ELSE N - 1 ELSE pos
           e == EntryAt(pl, i)
           m == RemoveTrack(pl, i)
           a == AddTrack(m, pos, e.queued, e.track, Len(ctl) + 2, 0, 0).pl
<1>1. /\ i \in 0 .. N - 1 /\ x \in 0 .. N - 1 /\ q \in 0 .. N - 1 /\ Amount(a) = N
      /\ \A k \in 0 .. N - 2 : EntryAt(m, k) = IF k < i THEN EntryAt(pl, k) ELSE EntryAt(pl, k + 1)
      /\ EntryAt(a, q).track = e.track
      /\ \A k \in 0 .. N - 1 : k # q => EntryAt(a, k) = IF k < q THEN EntryAt(m, k) ELSE EntryAt(m, k - 1)
  BY MoveShape
<1>2. N \in Nat
  BY MoveShape, FoundList
<1>3. /\ pl'.idx = a.idx
      /\ pl.started => pl'.index = IF i = x THEN q ELSE IF q <= c THEN c + 1 ELSE c
  BY MoveResult
<1> SUFFICES ASSUME pl.started PROVE Current(pl').track = Current(pl).track
  OBVIOUS
<1> DEFINE k == pl'.index
<1>4. k = IF i = x THEN q ELSE IF q <= c THEN c + 1 ELSE c
  BY <1>3
<1>c. c = IF i < x THEN x - 1 ELSE x
  OBVIOUS
<1>5. Amount(pl') = N /\ \A y : EntryAt(pl', y) = EntryAt(a, y)
  <2> HIDE DEF a
  <2> QED BY <1>1, <1>3 DEF Amount, EntryAt
<1> HIDE DEF a, m, q, e, k, N, x, c
<1>6. k \in 0 .. N - 1 /\ EntryAt(a, k).track = EntryAt(pl, x).track
  <2>1. CASE i = x
    BY <1>1, <1>4, <2>1 DEF e
  <2>2. CASE i # x /\ q <= c
    <3>1. k = c + 1 /\ k \in 0 .. N - 1 /\ k # q /\ ~(k < q) /\ k - 1 = c /\ c \in 0 .. N - 2
      BY <1>1, <1>2, <1>4, <1>c, <2>2
    <3>2. EntryAt(a, k) = EntryAt(m, c)
      BY <1>1, <3>1
    <3>3. EntryAt(m, c) = IF c < i THEN EntryAt(pl, c) ELSE EntryAt(pl, c + 1)
      BY <1>1, <3>1
    <3>4. (IF c < i THEN EntryAt(pl, c) ELSE EntryAt(pl, c + 1)) = EntryAt(pl, x)
      <4>1. CASE i < x
        <5>1. c + 1 = x /\ ~(c < i)
          BY <1>1, <1>2, <1>c, <4>1
        <5> QED BY <5>1
      <4>2. CASE x < i
        <5>1. c = x /\ c < i
          BY <1>1, <1>2, <1>c, <4>2
        <5> QED BY <5>1
      <4> QED BY <1>1, <1>2, <2>2, <4>1, <4>2
    <3> QED BY <3>1, <3>2, <3>3, <3>4
  <2>3. CASE i # x /\ ~(q <= c)
    <3>1. k = c /\ k \in 0 .. N - 1 /\ k # q /\ k < q /\ c \in 0 .. N - 2
      BY <1>1, <1>2, <1>4, <1>c, <2>3
    <3>2. EntryAt(a, k) = EntryAt(m, c)
      BY <1>1, <3>1
    <3>3. EntryAt(m, c) = IF c < i THEN EntryAt(pl, c) ELSE EntryAt(pl, c + 1)
      BY <1>1, <3>1
    <3>4. (IF c < i THEN EntryAt(pl, c) ELSE EntryAt(pl, c + 1)) = EntryAt(pl, x)
      <4>1. CASE i < x
        <5>1. c + 1 = x /\ ~(c < i)
          BY <1>1, <1>2, <1>c, <4>1
        <5> QED BY <5>1
      <4>2. CASE x < i
        <5>1. c = x /\ c < i
          BY <1>1, <1>2, <1>c, <4>2
        <5> QED BY <5>1
      <4> QED BY <1>1, <1>2, <2>3, <4>1, <4>2
    <3> QED BY <3>1, <3>2, <3>3, <3>4
  <2> QED BY <2>1, <2>2, <2>3
<1>7. InList(pl', pl'.index) /\ InList(pl, pl.index)
  BY <1>1, <1>2, <1>5, <1>6 DEF InList, k, x, N
<1>8. Current(pl') = EntryAt(pl', k) /\ Current(pl) = EntryAt(pl, x)
  BY <1>7 DEF Current, k, x
<1> QED BY <1>5, <1>6, <1>8

\* The current track of a list that is played goes on.
GoesOn == pl.started /\ InList(pl, pl.index) => Current(pl').track = Current(pl).track

\* playlist_insert_track() lets the current track play on.
LEMMA InsertGoesOn ==
  ASSUME Careful, NEW pos \in Where, NEW queue \in BOOLEAN, NEW t \in Track, NEW r \in Nat,
         NEW sync \in BOOLEAN, Insert(pos, queue, t, r, sync), IInv
  PROVE  GoesOn
<1> DEFINE s == ShuffledStart
           line == Len(ctl) + 1
           a == AddTrack(pl, pos, queue, t, line, r, s).pl
<1>1. /\ Running /\ MayAdd(pos) /\ Amount(pl) < MaxSize /\ pl' = a
  BY DEF Insert
<1>2. /\ pl \in Lists(Entry) /\ InRange(pl) /\ pl.index \in 0 .. Amount(pl) /\ Len(ctl) \in Nat
      /\ s \in Nat /\ s = End(pl) /\ line \in Nat
  BY <1>1, Found, FoundList
<1>3. Ready(pl, pos)
  BY <1>1 DEF MayAdd, Ready
<1>4. t \in Names /\ pos \in Int /\ pos < 0 /\ pos # LAST_ROTATED
  BY DEF Names, Where, PREPEND, INSERT, INSERT_LAST, INSERT_FIRST, INSERT_SHUFFLED, LAST_SHUFFLED, LAST_ROTATED
<1>5. s <= End(pl)
  BY <1>2
<1> HIDE DEF s, line
<1>6. InsertPosition(pl, pos, r, s) \in 0 .. Amount(pl)
  BY <1>2, <1>3, <1>5, PositionRange
<1>7. Inserted(queue, line, t) \in Entry
  BY <1>2, <1>4 DEF Inserted, Entry
<1>8. InList(pl, pl.index) => (pl.started => Current(a) = Current(pl))
  BY <1>1, <1>2, <1>4, <1>6, <1>7, AddKeeps
<1> HIDE DEF a
<1> QED BY <1>1, <1>8 DEF GoesOn

\* So does deleting another one.
LEMMA DeleteGoesOn ==
  ASSUME NEW i \in 0 .. Amount(pl) - 1, i # pl.index, pl' = RemoveTrack(pl, i), Running, IInv
  PROVE  GoesOn
<1>1. pl \in Lists(Entry) /\ InRange(pl)
  BY FoundList
<1>2. InList(pl, pl.index) => Current(RemoveTrack(pl, i)) = Current(pl)
  BY <1>1, RemoveKeeps
<1> QED BY <1>2 DEF GoesOn

\* Turning shuffle off lets the current track play on.
LEMMA UnshuffleGoesOn ==
  ASSUME Unshuffle, IInv
  PROVE  GoesOn
<1> DEFINE yes == TRUE
           u == SortList(pl, yes, yes)
<1>0. yes = TRUE /\ yes \in BOOLEAN
  OBVIOUS
<1>1. Running /\ InList(pl, pl.index) /\ pl' = u
  BY DEF Unshuffle
<1> HIDE DEF yes
<1>2. pl \in Lists(Entry) /\ InRange(pl) /\ pl.index \in 0 .. Amount(pl)
  BY <1>1, FoundList
<1>3. yes /\ InList(pl, pl.index) => Current(u) = Current(pl)
  BY <1>0, <1>2, SortShape
<1> HIDE DEF u
<1> QED BY <1>0, <1>1, <1>3 DEF GoesOn

\* So does the playing screen's shuffle.
LEMMA SortAndShuffleGoesOn ==
  ASSUME Careful, NEW seed \in Seeds, NEW startCurrent \in BOOLEAN, SortAndShuffle(seed, startCurrent), IInv
  PROVE  GoesOn
<1> DEFINE yes == TRUE
           u == SortList(pl, startCurrent, yes)
           v == Randomise(u, seed, startCurrent)
<1>0. yes \in BOOLEAN
  OBVIOUS
<1>1. Running /\ InList(pl, pl.index) /\ startCurrent /\ pl' = v
  BY DEF SortAndShuffle
<1> HIDE DEF yes
<1>2. pl \in Lists(Entry) /\ InRange(pl) /\ pl.index \in 0 .. Amount(pl)
  BY <1>1, FoundList
<1>3. /\ u \in Lists(Entry) /\ InRange(u) /\ u.index \in 0 .. Amount(u)
      /\ startCurrent /\ InList(pl, pl.index) => InList(u, u.index) /\ Current(u) = Current(pl)
  BY <1>0, <1>2, SortShape
<1> HIDE DEF u
<1>4. u \in Lists(Entry) /\ InRange(u) /\ u.index \in 0 .. Amount(u)
  BY <1>3
<1>5. startCurrent /\ InList(u, u.index) => Current(v) = Current(u)
  BY <1>4, ShuffleShape
<1> HIDE DEF v
<1> QED BY <1>1, <1>3, <1>5 DEF GoesOn

\* So does turning shuffle on.
LEMMA ShuffleOnGoesOn ==
  ASSUME NEW seed \in Seeds, ShuffleOn(seed), IInv
  PROVE  GoesOn
<1> DEFINE yes == TRUE
           v == Randomise(pl, seed, yes)
<1>0. yes = TRUE /\ yes \in BOOLEAN
  OBVIOUS
<1>1. Running /\ InList(pl, pl.index) /\ pl' = v
  BY DEF ShuffleOn
<1> HIDE DEF yes
<1>2. pl \in Lists(Entry) /\ InRange(pl) /\ pl.index \in 0 .. Amount(pl)
  BY <1>1, FoundList
<1>3. yes /\ InList(pl, pl.index) => Current(v) = Current(pl)
  BY <1>0, <1>2, ShuffleShape
<1> HIDE DEF v
<1> QED BY <1>0, <1>1, <1>3 DEF GoesOn

\* The last of the lines that going on writes is no insertion and no shuffle.
LEMMA LogEnds ==
  ASSUME NEW c \in Seq(Command), NEW log \in Seq(Command),
         \A l \in 1 .. Len(log) : log[l].op = "D", Len(c \o log) > Len(c)
  PROVE  Last(c \o log).op = "D"
<1>1. /\ Len(c) \in Nat /\ Len(log) \in Nat /\ Len(c \o log) = Len(c) + Len(log)
      /\ \A i \in 1 .. Len(c) + Len(log) : (c \o log)[i] = IF i <= Len(c) THEN c[i] ELSE log[i - Len(c)]
  BY LenProperties, ConcatProperties
<1> DEFINE d == c \o log
           n == Len(log)
           i == Len(c) + n
<1>2. n \in 1 .. Len(log) /\ i \in 1 .. Len(c) + Len(log) /\ ~(i <= Len(c)) /\ i - Len(c) = n
  BY <1>1
<1> HIDE DEF d
<1>3. d[i] = log[n] /\ Len(d) = i
  <2> HIDE DEF i, n
  <2>1. d[i] = log[i - Len(c)] 
    BY <1>1, <1>2 DEF d
  <2> QED BY <1>1, <1>2, <2>1 DEF d, i, n
<1> HIDE DEF i, n
<1> QED BY <1>2, <1>3 DEF Last, d

\* Two tracks through an insert context let the current track play on.
LEMMA InsertBatchGoesOn ==
  ASSUME Careful, NEW pos \in Where, NEW queue \in BOOLEAN, NEW t \in Track, NEW u \in Track, NEW r \in Nat,
         NEW r2 \in Nat, InsertBatch(pos, queue, t, u, r, r2), IInv
  PROVE  GoesOn
<1> DEFINE s == ShuffledStart
           line == Len(ctl) + 1
           line2 == Len(ctl) + 2
           a == AddTrack(pl, pos, queue, t, line, r, s).pl
           pos2 == IF pos = INSERT_FIRST THEN INSERT ELSE pos
           b == AddTrack(a, pos2, queue, u, line2, r2, s).pl
<1>1. /\ Running /\ MayAdd(pos) /\ Amount(pl) + 1 < MaxSize /\ pl' = b
  BY DEF InsertBatch
<1>2. /\ pl \in Lists(Entry) /\ InRange(pl) /\ pl.index \in 0 .. Amount(pl) /\ Len(ctl) \in Nat
      /\ s \in Nat /\ s = End(pl) /\ line \in Nat /\ line2 \in Nat /\ Amount(pl) \in Nat /\ MaxSize \in Nat
      /\ Mirrors(ctl, fromFile, pl) /\ Settled(pl)
  BY <1>1, Found, FoundList
<1>3. Ready(pl, pos)
  BY <1>1 DEF MayAdd, Ready
<1>4. /\ t \in Names /\ u \in Names /\ pos \in Int /\ pos < 0 /\ pos # LAST_ROTATED
      /\ pos2 \in Int /\ pos2 < 0 /\ pos2 # LAST_ROTATED
  BY DEF Names, Where, PREPEND, INSERT, INSERT_LAST, INSERT_FIRST, INSERT_SHUFFLED, LAST_SHUFFLED, LAST_ROTATED
<1>5. InsertPosition(pl, pos, r, s) \in 0 .. Amount(pl) /\ InsertPosition(a, pos2, r2, s) \in 0 .. Amount(a)
  <2>1. s = End(pl)
    BY <1>2
  <2> HIDE DEF s
  <2> QED BY <1>1, <1>2, <1>3, <1>4, <2>1, BatchRange
<1>6. Inserted(queue, line, t) \in Entry /\ Inserted(queue, line2, u) \in Entry
  BY <1>2, <1>4 DEF Inserted, Entry
<1>7. Amount(pl) < MaxSize
  BY <1>1, <1>2
<1> HIDE DEF s, line, line2, pos2
<1>8. a \in Lists(Entry) /\ InRange(a) /\ Amount(a) = Amount(pl) + 1
  BY <1>2, <1>4, <1>5, <1>6, <1>7, AddEntries
<1>9. InList(pl, pl.index) => (pl.started => Current(a) = Current(pl) /\ InList(a, a.index) /\ a.started)
  <2>1. /\ pl \in Lists(Entry) /\ InRange(pl) /\ InsertPosition(pl, pos, r, s) \in 0 .. Amount(pl)
        /\ pos \in Int /\ pos < 0 /\ pos # LAST_ROTATED
    BY <1>2, <1>4, <1>5
  <2> HIDE DEF b
  <2> QED BY <1>6, <1>7, <2>1, AddKeeps
<1> HIDE DEF a
<1>10. InList(a, a.index) => (a.started => Current(b) = Current(a))
  <2>1. Amount(a) < MaxSize
    BY <1>1, <1>8
  <2> QED BY <1>4, <1>5, <1>6, <1>8, <2>1, AddKeeps
<1> HIDE DEF b
<1> QED BY <1>1, <1>9, <1>10 DEF GoesOn

\* playlist_move() lets the current track play on, moved or not.
LEMMA MoveGoesOn ==
  ASSUME NEW i \in Int, NEW j \in Int, Move(i, j), IInv
  PROVE  GoesOn
BY MoveKeeps DEF GoesOn

\* Going on is told from the operations by the last line it writes.
LEMMA NextWrites ==
  ASSUME NEW steps \in Int, NEW mode \in Modes, NEW manual \in BOOLEAN,
         PlaylistNext(steps, mode, manual), IInv
  PROVE  Len(ctl') <= Len(ctl) \/ Last(ctl').op \in {"D", "R"}
<1> DEFINE m == IF mode = "one" /\ manual THEN "all" ELSE mode
           d == IF steps > 0 /\ m /= "one" THEN DropQueued(pl, steps, mode) ELSE NothingDropped(pl, steps)
           k == NextIndex(d.pl, d.steps, m)
           q == [d.pl EXCEPT !.index = k]
           passed == q.last >= 0 /\ d.steps > 0 /\ Rotate(q, k) > Rotate(q, q.last)
<1>1. /\ Running /\ ctl' = ctl \o (IF passed THEN Append(d.log, CReset) ELSE d.log)
  BY DEF PlaylistNext, Log, NothingDropped
<1>2. /\ Mirrors(ctl, fromFile, pl) /\ Settled(pl)
  BY <1>1, Found
<1>3. mode \in {"off", "all", "one", "shuffle"}
  BY PlaylistAssumption
<1>d. d = NothingDropped(pl, steps) \/ (steps > 0 /\ d = DropQueued(pl, steps, mode))
  OBVIOUS
<1> HIDE DEF m, d
<1>4. /\ d.log \in Seq(Command) /\ Len(d.log) \in Nat /\ \A l \in 1 .. Len(d.log) : d.log[l].op = "D"
      /\ Len(ctl \o d.log) = Len(ctl) + Len(d.log) /\ Len(ctl) \in Nat /\ ctl \in Seq(Command)
  BY <1>2, <1>3, <1>d, LeftBehind
<1> HIDE DEF passed
<1>5. CASE passed
  <2> DEFINE x == CReset
             log == d.log
             c == ctl \o log
  <2>1. x \in Command /\ x.op = "R"
    BY DEF Command, CReset
  <2>2. ctl' = ctl \o Append(log, x) /\ log \in Seq(Command)
    BY <1>1, <1>4, <1>5
  <2> HIDE DEF x, log
  <2>3. ctl' = Append(c, x) /\ c \in Seq(Command)
    BY <1>4, <2>1, <2>2, LogAppend, ConcatProperties
  <2> HIDE DEF c
  <2>4. Last(ctl') = x
    BY <2>1, <2>3, LenProperties, AppendProperties DEF Last
  <2> QED BY <2>1, <2>4
<1>6. CASE ~passed
  <2>1. ctl' = ctl \o d.log
    BY <1>1, <1>6
  <2> DEFINE log == d.log
  <2>2. log \in Seq(Command) /\ \A l \in 1 .. Len(log) : log[l].op = "D"
    BY <1>4
  <2>3. ctl' = ctl \o log
    BY <2>1
  <2> HIDE DEF log
  <2>4. Len(ctl \o log) > Len(ctl) => Last(ctl \o log).op = "D"
    BY <1>4, <2>2, LogEnds
  <2>5. Len(ctl \o log) \in Nat
    BY <1>4, <2>2, LenProperties, ConcatProperties
  <2> QED BY <1>4, <2>3, <2>4, <2>5
<1> QED BY <1>5, <1>6

\* At the end of the list only deletions are written.
LEMMA AtEndWrites ==
  ASSUME Careful, NEW steps \in Int, NEW mode \in Modes, NEW seed, AtEnd(steps, mode, seed), IInv
  PROVE  Len(ctl') <= Len(ctl) \/ Last(ctl').op = "D"
<1> DEFINE d == IF steps > 0 /\ mode /= "one" THEN DropQueued(pl, steps, mode) ELSE NothingDropped(pl, steps)
<1>1. Running /\ ctl' = ctl \o d.log
  BY DEF AtEnd, Log, NothingDropped
<1>2. Mirrors(ctl, fromFile, pl) /\ Settled(pl)
  BY <1>1, Found
<1>3. mode \in {"off", "all", "one", "shuffle"}
  BY PlaylistAssumption
<1>d. d = NothingDropped(pl, steps) \/ (steps > 0 /\ d = DropQueued(pl, steps, mode))
  OBVIOUS
<1> HIDE DEF d
<1>4. /\ d.log \in Seq(Command) /\ \A l \in 1 .. Len(d.log) : d.log[l].op = "D"
      /\ Len(ctl) \in Nat /\ ctl \in Seq(Command)
  BY <1>2, <1>3, <1>d, LeftBehind
<1> DEFINE log == d.log
<1>5. log \in Seq(Command) /\ (\A l \in 1 .. Len(log) : log[l].op = "D") /\ ctl' = ctl \o log
  BY <1>1, <1>4
<1> HIDE DEF log
<1>6. Len(ctl \o log) > Len(ctl) => Last(ctl \o log).op = "D"
  BY <1>4, <1>5, LogEnds
<1>7. Len(ctl \o log) \in Nat
  BY <1>4, <1>5, LenProperties, ConcatProperties
<1> QED BY <1>4, <1>5, <1>6, <1>7

\* remove_all_tracks_unlocked() leaves the current track.
LEMMA RemoveAllGoesOn ==
  ASSUME RemoveAll, IInv
  PROVE  GoesOn
<1> DEFINE x == Left(EntryAt(pl, pl.index))
           s == <<x>>
           l == IF pl.last = 0 THEN -1 ELSE 0
           n == 0
<1>1. Running /\ InList(pl, pl.index)
      /\ pl' = [pl EXCEPT !.idx = s, !.index = n, !.first = n, !.last = l]
  BY DEF RemoveAll
<1>2. pl \in Lists(Entry)
  BY <1>1, FoundList
<1>3. s[1] = x /\ Len(s) = 1 /\ n = 0
  OBVIOUS
<1>4. x.track = EntryAt(pl, pl.index).track
  BY DEF Left, Inserted
<1> HIDE DEF s, x, l, n
<1>5. pl'.idx = s /\ pl'.index = n
  BY <1>1, <1>2 DEF Lists
<1>6. InList(pl', pl'.index) /\ EntryAt(pl', pl'.index) = x
  BY <1>3, <1>5 DEF InList, EntryAt, Amount
<1> QED BY <1>1, <1>4, <1>6 DEF GoesOn, Current

\* playlist_delete() writes a deletion.
LEMMA DeleteWrites ==
  ASSUME NEW i, Delete(i), IInv
  PROVE  Last(ctl').op = "D"
<1> DEFINE x == CDelete(i)
<1>1. Running /\ i \in 0 .. Amount(pl) - 1 /\ ctl' = ctl \o <<x>>
  BY DEF Delete, Log
<1>2. ctl \in Seq(Command) /\ Amount(pl) \in Nat /\ Len(ctl) \in Nat
  BY <1>1, Found
<1>3. x \in Command /\ x.op = "D"
  BY <1>1, <1>2 DEF CDelete, Command
<1> HIDE DEF x
<1>4. ctl' = Append(ctl, x)
  BY <1>1, <1>2, <1>3, LogOne
<1>5. Last(ctl') = x
  BY <1>2, <1>3, <1>4, LenProperties, AppendProperties DEF Last
<1> QED BY <1>3, <1>5

\* Every step that is meant to keep the current track keeps it.
LEMMA TrackStep ==
  ASSUME Careful, IInv, [Next]_vars
  PROVE  KeepsTrack => GoesOn
<1>1. ASSUME NEW i \in 0 .. Amount(pl) - 1, i /= pl.index, Logged(1), pl' = RemoveTrack(pl, i)
      PROVE  GoesOn
  BY <1>1, DeleteGoesOn DEF Logged
<1>2. ASSUME NEW n \in 1 .. 2, Logged(n), Last(ctl').op \in {"A", "Q", "S", "U"}
      PROVE  GoesOn
  <2>1. /\ Running /\ phase = "on" /\ phase' = "on" /\ ctl \in Seq(Command) /\ Len(ctl) \in Nat
        /\ ~(Len(ctl') <= Len(ctl)) /\ ctl' # ctl
    <3>1. Running /\ phase' = "on" /\ Len(ctl') = Len(ctl) + n
      BY <1>2 DEF Logged
    <3>2. ctl \in Seq(Command) /\ Len(ctl) \in Nat
      BY <3>1, Found
    <3> QED BY <3>1, <3>2 DEF Running
  <2>2. Last(ctl').op # "D" /\ Last(ctl').op # "R"
    BY <1>2
  <2>3. ~UNCHANGED vars
    BY <2>1 DEF vars
  <2>4. ~(\E i \in 0 .. Len(Files) - 1 : CreateAndStart(i))
    BY <2>1 DEF CreateAndStart
  <2>5. ~(\E i \in 0 .. Len(Files) - 1, seed \in Seeds, selected \in BOOLEAN : CreateShuffled(i, seed, selected))
    BY <2>1 DEF CreateShuffled
  <2>6. ~CreateEmpty /\ ~Start /\ ~Crash /\ ~Shutdown /\ ~Resume
    BY <2>1 DEF CreateEmpty, Start, Crash, Shutdown, Resume
  <2>r. \A pos : Rolls(pos) \subseteq Nat
    BY PlaylistAssumption DEF Rolls, Dice
  <2>7. CASE Adds
    <3>1. PICK pos \in Where, queue \in BOOLEAN, t \in Track :
            \/ \E r \in Rolls(pos), sync \in BOOLEAN : Insert(pos, queue, t, r, sync)
            \/ \E u \in Track \ {t}, r, r2 \in Rolls(pos) : InsertBatch(pos, queue, t, u, r, r2)
      BY <2>7 DEF Adds
    <3>2. CASE \E r \in Rolls(pos), sync \in BOOLEAN : Insert(pos, queue, t, r, sync)
      <4>1. PICK r \in Nat, sync \in BOOLEAN : Insert(pos, queue, t, r, sync)
        BY <3>2, <2>r
      <4> QED BY <4>1, InsertGoesOn
    <3>3. CASE \E u \in Track \ {t}, r, r2 \in Rolls(pos) : InsertBatch(pos, queue, t, u, r, r2)
      <4>1. PICK u \in Track, r \in Nat, r2 \in Nat : InsertBatch(pos, queue, t, u, r, r2)
        BY <3>3, <2>r
      <4> QED BY <4>1, InsertBatchGoesOn
    <3> QED BY <3>1, <3>2, <3>3
  <2>8. CASE Moves
    <3>1. PICK i \in 0 .. MaxSize - 1, j \in 0 .. MaxSize - 1 : Move(i, j)
      BY <2>8 DEF Moves
    <3>2. i \in Int /\ j \in Int
      BY PlaylistAssumption
    <3> QED BY <3>1, <3>2, MoveGoesOn
  <2>9. ~Deletes
    BY <2>2, DeleteWrites DEF Deletes
  <2>10. CASE Unshuffle
    BY <2>10, UnshuffleGoesOn
  <2>11. CASE \E seed \in Seeds : ShuffleOn(seed)
    BY <2>11, ShuffleOnGoesOn
  <2>12. CASE \E seed \in Seeds : ShuffleNew(seed)
    BY <2>12 DEF ShuffleNew, GoesOn
  <2>13. CASE \E seed \in Seeds, startCurrent \in BOOLEAN : SortAndShuffle(seed, startCurrent)
    BY <2>13, SortAndShuffleGoesOn
  <2>14. CASE RemoveAll
    BY <2>14, RemoveAllGoesOn
  <2>15. ~Steps
    <3>1. SUFFICES ASSUME Steps PROVE FALSE
      OBVIOUS
    <3>2. PICK steps \in {-1, 1, 2}, mode \in Modes :
            \/ \E manual \in BOOLEAN : PlaylistNext(steps, mode, manual)
            \/ \E seed \in Seeds : AtEnd(steps, mode, seed)
      BY <3>1 DEF Steps
    <3>3. steps \in Int
      OBVIOUS
    <3> QED BY <2>1, <2>2, <3>2, <3>3, NextWrites, AtEndWrites
  <2> QED
    BY <2>3, <2>4, <2>5, <2>6, <2>7, <2>8, <2>9, <2>10, <2>11, <2>12, <2>13, <2>14, <2>15
       DEF Next, Shuffles
<1> QED BY <1>1, <1>2 DEF KeepsTrack

\* Adding, moving, deleting another track, shuffling and unshuffling do not change
\* what is playing, for every list, of a user with care.
THEOREM TrackKeptHolds ==
  ASSUME Careful
  PROVE  Spec => TrackKept
<1>1. IInv /\ [Next]_vars =>
        [KeepsTrack /\ pl.started /\ InList(pl, pl.index) => Current(pl').track = Current(pl).track]_vars
  BY TrackStep DEF GoesOn
<1> QED BY <1>1, Inductive, PTL DEF Spec, TrackKept

-----------------------------------------------------------------------------
\* What the screens show.

\* The place of the row k (from 1) of a list of n tracks whose first one is at f.
PlaceOf(k, f, n) == IF f + (k - 1) < n THEN f + (k - 1) ELSE (f + (k - 1)) - n

\* The track a row shows.
LEMMA ShownAt ==
  ASSUME NEW p, Amount(p) \in Nat, p.first \in 0 .. Amount(p), NEW k \in 1 .. Amount(p)
  PROVE  /\ Shown(p)[k] = EntryAt(p, PlaceOf(k, p.first, Amount(p))).track
         /\ PlaceOf(k, p.first, Amount(p)) \in 0 .. Amount(p) - 1
<1> DEFINE n == Amount(p)
           x == p.first + (k - 1)
<1>1. n \in Nat /\ n > 0 /\ x \in Nat /\ x < n + n
  OBVIOUS
<1>2. Shown(p)[k] = EntryAt(p, x % n).track
  BY DEF Shown
<1>3. PlaceOf(k, p.first, n) = IF x < n THEN x ELSE x - n
  BY DEF PlaceOf
<1> HIDE DEF n, x
<1>4. x % n = IF x < n THEN x ELSE x - n
  BY <1>1, ModOnce
<1>5. (IF x < n THEN x ELSE x - n) \in 0 .. n - 1
  BY <1>1
<1> QED BY <1>2, <1>3, <1>4, <1>5 DEF n

\* There is a row for every track.
LEMMA ShownSeq ==
  ASSUME NEW p \in Lists(Entry), p.first \in 0 .. Amount(p)
  PROVE  Shown(p) \in Seq(Names) /\ Len(Shown(p)) = Amount(p)
<1>1. Amount(p) \in Nat
  BY LenProperties DEF Lists, Amount
<1>2. ASSUME NEW k \in 1 .. Amount(p) PROVE Shown(p)[k] \in Names
  <2> DEFINE x == PlaceOf(k, p.first, Amount(p))
  <2>1. Shown(p)[k] = EntryAt(p, x).track /\ x \in 0 .. Amount(p) - 1
    BY <1>1, ShownAt
  <2> HIDE DEF x
  <2>2. x \in Int /\ InList(p, x)
    BY <1>1, <2>1 DEF InList
  <2>3. EntryAt(p, x) \in Entry
    BY <2>2, EntryOf
  <2> QED BY <2>1, <2>3 DEF Entry
<1>3. Shown(p) \in [1 .. Amount(p) -> Names]
  <2> DEFINE F(k) == EntryAt(p, (p.first + (k - 1)) % Amount(p)).track
  <2>1. Shown(p) = [k \in 1 .. Amount(p) |-> F(k)]
    BY DEF Shown
  <2> HIDE DEF F
  <2> QED BY <1>2, <2>1
<1> QED BY <1>1, <1>3, FunSeq

\* The rows of a list that a track was put into: what is known of the places ...
PutGiven(n, f, q, g, R, k, y) ==
  /\ n \in Nat /\ f \in 0 .. n /\ q \in 0 .. n /\ g \in 0 .. n + 1 /\ k \in 1 .. n + 1
  /\ q < f => g = f + 1
  /\ q > f => g = f
  /\ q = f => g = f \/ g = f + 1
  /\ R = (IF q - g < 0 THEN (q - g) + (n + 1) ELSE q - g)
  /\ y = PlaceOf(k, g, n + 1)

\* ... and what follows for the row k.
PutFound(n, f, q, R, k, y) ==
  /\ k = R + 1 => y = q
  /\ k < R + 1 => y # q /\ k \in 1 .. n /\ (IF y < q THEN y ELSE y - 1) = PlaceOf(k, f, n)
  /\ k > R + 1 => y # q /\ k - 1 \in 1 .. n /\ (IF y < q THEN y ELSE y - 1) = PlaceOf(k - 1, f, n)

\* The row of the new track shows it, the rows before it what they showed, those behind it
\* what the row before showed.
LEMMA RowsPut ==
  ASSUME NEW n, NEW f, NEW q, NEW g, NEW R, NEW k, NEW y, PutGiven(n, f, q, g, R, k, y)
  PROVE  PutFound(n, f, q, R, k, y)
<1>1. /\ n \in Int /\ f \in Int /\ q \in Int /\ g \in Int /\ k \in Int /\ R \in Int /\ y \in Int
      /\ 0 <= f /\ f <= n /\ 0 <= q /\ q <= n /\ 1 <= k /\ k <= n + 1
      /\ q < f => g = f + 1
      /\ q > f => g = f
      /\ q = f => g = f \/ g = f + 1
      /\ R = (IF q - g < 0 THEN (q - g) + (n + 1) ELSE q - g)
  BY DEF PutGiven, PlaceOf
<1>2. y = IF g + (k - 1) < n + 1 THEN g + (k - 1) ELSE (g + (k - 1)) - (n + 1)
  BY DEF PutGiven, PlaceOf
<1>3. q < f \/ q > f \/ q = f
  BY <1>1
<1>4. k = R + 1 => y = q
  BY <1>1, <1>2, <1>3
<1>5. ASSUME k < R + 1 PROVE y # q /\ k \in 1 .. n
  BY <1>1, <1>2, <1>3, <1>5
<1>6. ASSUME k < R + 1 PROVE (IF y < q THEN y ELSE y - 1) = PlaceOf(k, f, n)
  BY <1>1, <1>2, <1>3, <1>6 DEF PlaceOf
<1>7. ASSUME k > R + 1 PROVE y # q /\ k - 1 \in 1 .. n
  BY <1>1, <1>2, <1>3, <1>7
<1>8. ASSUME k > R + 1 PROVE (IF y < q THEN y ELSE y - 1) = PlaceOf(k - 1, f, n)
  BY <1>1, <1>2, <1>3, <1>8 DEF PlaceOf
<1> QED BY <1>4, <1>5, <1>6, <1>7, <1>8 DEF PutFound

\* The rows of a list that a track was taken out of: what is known of the places ...
CutGiven(n, f, i, g, R, k, y) ==
  /\ n \in Nat /\ f \in 0 .. n /\ i \in 0 .. n - 1 /\ k \in 1 .. n - 1
  /\ g = (IF i < f THEN f - 1 ELSE f)
  /\ R = (IF i - f < 0 THEN (i - f) + n ELSE i - f)
  /\ y = PlaceOf(k, g, n - 1)

\* ... and what follows for the row k.
CutFound(n, f, i, R, k, y) ==
  /\ y \in 0 .. n - 2
  /\ k < R + 1 => (IF y < i THEN y ELSE y + 1) = PlaceOf(k, f, n)
  /\ k >= R + 1 => (IF y < i THEN y ELSE y + 1) = PlaceOf(k + 1, f, n)

\* The rows before the track that was taken out show what they showed, the others what
\* the next row showed.
LEMMA RowsCut ==
  ASSUME NEW n, NEW f, NEW i, NEW g, NEW R, NEW k, NEW y, CutGiven(n, f, i, g, R, k, y)
  PROVE  CutFound(n, f, i, R, k, y)
<1>1. /\ n \in Int /\ f \in Int /\ i \in Int /\ g \in Int /\ k \in Int /\ R \in Int /\ y \in Int
      /\ 0 <= f /\ f <= n /\ 0 <= i /\ i <= n - 1 /\ 1 <= k /\ k <= n - 1
      /\ g = (IF i < f THEN f - 1 ELSE f)
      /\ R = (IF i - f < 0 THEN (i - f) + n ELSE i - f)
  BY DEF CutGiven, PlaceOf
<1>2. y = IF g + (k - 1) < n - 1 THEN g + (k - 1) ELSE (g + (k - 1)) - (n - 1)
  BY DEF CutGiven, PlaceOf
<1>3. y \in 0 .. n - 2
  BY <1>1, <1>2
<1>4. ASSUME k < R + 1 PROVE (IF y < i THEN y ELSE y + 1) = PlaceOf(k, f, n)
  BY <1>1, <1>2, <1>4 DEF PlaceOf
<1>5. ASSUME k >= R + 1 PROVE (IF y < i THEN y ELSE y + 1) = PlaceOf(k + 1, f, n)
  BY <1>1, <1>2, <1>5 DEF PlaceOf
<1> QED BY <1>3, <1>4, <1>5 DEF CutFound

\* A track put into the list is shown where it was put; the others keep their order.
LEMMA ShownPut ==
  ASSUME NEW p \in Lists(Entry), p.first \in 0 .. Amount(p), NEW a \in Lists(Entry),
         Amount(a) = Amount(p) + 1, NEW q \in 0 .. Amount(p), a.first \in 0 .. Amount(a),
         q < p.first => a.first = p.first + 1, q > p.first => a.first = p.first,
         q = p.first => a.first = p.first \/ a.first = p.first + 1,
         NEW t, t = EntryAt(a, q).track,
         \A k \in 0 .. Amount(p) : k # q => EntryAt(a, k) = IF k < q THEN EntryAt(p, k) ELSE EntryAt(p, k - 1)
  PROVE  /\ Rotate(a, q) \in 0 .. Amount(p)
         /\ Shown(a) = InsertAt(Shown(p), Rotate(a, q) + 1, t)
<1> DEFINE n == Amount(p)
           f == p.first
           g == a.first
           R == Rotate(a, q)
           sp == Shown(p)
           sa == Shown(a)
           j == R + 1
           ins == InsertAt(sp, j, t)
<1>1. /\ n \in Nat /\ f \in 0 .. n /\ q \in 0 .. n /\ g \in 0 .. n + 1 /\ Amount(a) = n + 1
      /\ q < f => g = f + 1
      /\ q > f => g = f
      /\ q = f => g = f \/ g = f + 1
      /\ R = (IF q - g < 0 THEN (q - g) + (n + 1) ELSE q - g)
  BY LenProperties DEF Lists, Amount, Rotate
<1>2. sp \in Seq(Names) /\ Len(sp) = n /\ sa \in Seq(Names) /\ Len(sa) = n + 1
  BY <1>1, ShownSeq
<1>3. t \in Names
  <2>1. q \in Int /\ InList(a, q)
    BY <1>1 DEF InList
  <2>2. EntryAt(a, q) \in Entry
    BY <2>1, EntryOf
  <2> QED BY <2>2 DEF Entry
<1> HIDE DEF n, R, sp, sa
<1>4. R \in 0 .. n
  BY <1>1
<1>5. /\ ins \in Seq(Names) /\ Len(ins) = n + 1
      /\ \A k \in 1 .. n + 1 : ins[k] = IF k < j THEN sp[k] ELSE IF k = j THEN t ELSE sp[k - 1]
  <2>1. j \in 1 .. Len(sp) + 1
    BY <1>1, <1>2, <1>4
  <2> HIDE DEF j
  <2>2. /\ ins \in Seq(Names) /\ Len(ins) = Len(sp) + 1
        /\ \A k \in 1 .. Len(sp) + 1 : ins[k] = IF k < j THEN sp[k] ELSE IF k = j THEN t ELSE sp[k - 1]
    <3>1. sp \in Seq(Names)
      BY <1>2
    <3>2. Put(Names, sp, j, t)
      BY <1>3, <2>1, <3>1, InsertAtPuts
    <3> QED BY <3>2 DEF Put, ins
  <2> QED BY <1>2, <2>2
<1> HIDE DEF ins
<1>6. ASSUME NEW k \in 1 .. n + 1 PROVE sa[k] = ins[k]
  <2> DEFINE y == PlaceOf(k, g, n + 1)
             z == IF y < q THEN y ELSE y - 1
  <2>1. sa[k] = EntryAt(a, y).track /\ y \in 0 .. n
    <3>1. Amount(a) \in Nat /\ k \in 1 .. Amount(a) /\ a.first \in 0 .. Amount(a)
      BY <1>1
    <3>2. /\ Shown(a)[k] = EntryAt(a, PlaceOf(k, a.first, Amount(a))).track
          /\ PlaceOf(k, a.first, Amount(a)) \in 0 .. Amount(a) - 1
      BY <3>1, ShownAt
    <3> QED BY <1>1, <3>2 DEF sa
  <2>2. /\ k = R + 1 => y = q
        /\ k < R + 1 => y # q /\ k \in 1 .. n /\ z = PlaceOf(k, f, n)
        /\ k > R + 1 => y # q /\ k - 1 \in 1 .. n /\ z = PlaceOf(k - 1, f, n)
    <3>1. y = PlaceOf(k, g, n + 1)
      OBVIOUS
    <3>2. /\ n \in Nat /\ f \in 0 .. n /\ q \in 0 .. n /\ g \in 0 .. n + 1
          /\ R = (IF q - g < 0 THEN (q - g) + (n + 1) ELSE q - g)
      BY <1>1
    <3>3. q < f => g = f + 1
      BY <1>1
    <3>4. q > f => g = f
      BY <1>1
    <3>5. q = f => g = f \/ g = f + 1
      BY <1>1
    <3> HIDE DEF y, f, g, j
    <3>6. PutGiven(n, f, q, g, R, k, y)
      BY <1>6, <3>1, <3>2, <3>3, <3>4, <3>5 DEF PutGiven
    <3>7. PutFound(n, f, q, R, k, y)
      BY <3>6, RowsPut
    <3> QED BY <3>7 DEF PutFound, z
  <2>3. y # q => EntryAt(a, y) = EntryAt(p, z)
    <3>1. \A x \in 0 .. n : x # q => EntryAt(a, x) = IF x < q THEN EntryAt(p, x) ELSE EntryAt(p, x - 1)
      BY DEF n
    <3> HIDE DEF y, n
    <3>2. y # q => EntryAt(a, y) = IF y < q THEN EntryAt(p, y) ELSE EntryAt(p, y - 1)
      BY <2>1, <3>1
    <3> QED BY <3>2
  <2>4. \A x \in 1 .. n : sp[x] = EntryAt(p, PlaceOf(x, f, n)).track
    BY <1>1, ShownAt DEF sp, n
  <2> HIDE DEF y, z, f
  <2>5. CASE k < j
    <3>1. sp[k] = EntryAt(p, z).track /\ EntryAt(a, y) = EntryAt(p, z)
      BY <2>2, <2>3, <2>4, <2>5
    <3> QED BY <1>5, <2>1, <2>5, <3>1
  <2>6. CASE k = j
    <3>1. sa[k] = t
      BY <2>1, <2>2, <2>6
    <3>2. ~(k < j)
      BY <1>1, <1>4, <2>6
    <3> QED BY <1>5, <2>6, <3>1, <3>2
  <2>7. CASE k > j
    <3>1. sp[k - 1] = EntryAt(p, z).track /\ EntryAt(a, y) = EntryAt(p, z)
      BY <2>2, <2>3, <2>4, <2>7
    <3>2. ~(k < j) /\ k # j
      BY <1>1, <1>4, <2>7
    <3> QED BY <1>5, <2>1, <3>1, <3>2
  <2> QED BY <1>1, <1>4, <2>5, <2>6, <2>7
<1> HIDE DEF j
<1>7. sa = ins
  BY <1>1, <1>2, <1>5, <1>6, SeqEqual
<1> QED BY <1>4, <1>7 DEF R, sa, sp, ins, j, n

\* A track taken out of the list is no longer shown; the others keep their order.
LEMMA ShownCut ==
  ASSUME NEW p \in Lists(Entry), InRange(p), NEW i \in 0 .. Amount(p) - 1
  PROVE  /\ Rotate(p, i) \in 0 .. Amount(p) - 1
         /\ Shown(RemoveTrack(p, i)) = RemoveAt(Shown(p), Rotate(p, i) + 1)
<1> DEFINE n == Amount(p)
           a == RemoveTrack(p, i)
           f == p.first
           g == a.first
           R == Rotate(p, i)
           sp == Shown(p)
           sa == Shown(a)
           j == R + 1
           cut == RemoveAt(sp, j)
<1>1. /\ a \in Lists(Entry) /\ Amount(a) = n - 1 /\ g = (IF i < f THEN f - 1 ELSE f)
      /\ \A k \in 0 .. n - 2 : EntryAt(a, k) = IF k < i THEN EntryAt(p, k) ELSE EntryAt(p, k + 1)
      /\ g \in 0 .. Amount(a)
  BY RemoveEntries DEF InRange
<1>2. n \in Nat /\ f \in 0 .. n /\ R = (IF i - f < 0 THEN (i - f) + n ELSE i - f)
  BY LenProperties DEF Lists, Amount, Rotate, InRange
<1>3. sp \in Seq(Names) /\ Len(sp) = n /\ sa \in Seq(Names) /\ Len(sa) = n - 1
  <2> HIDE DEF a
  <2> QED BY <1>1, <1>2, ShownSeq
<1> HIDE DEF n, R, sp, sa, a
<1>4. R \in 0 .. n - 1 /\ i \in 0 .. n - 1
  BY <1>2 DEF n
<1>5. /\ cut \in Seq(Names) /\ Len(cut) = n - 1
      /\ \A k \in 1 .. n - 1 : cut[k] = IF k < j THEN sp[k] ELSE sp[k + 1]
  <2>1. j \in 1 .. Len(sp)
    <3> HIDE DEF f, g, cut
    <3> QED BY <1>2, <1>3, <1>4
  <2> HIDE DEF j
  <2> QED BY <1>3, <2>1, RemoveAtProps
<1> HIDE DEF cut
<1>6. ASSUME NEW k \in 1 .. n - 1 PROVE sa[k] = cut[k]
  <2> DEFINE y == PlaceOf(k, g, n - 1)
             z == IF y < i THEN y ELSE y + 1
  <2>1. sa[k] = EntryAt(a, y).track
    <3>1. Amount(a) \in Nat /\ k \in 1 .. Amount(a)
      BY <1>1, <1>2
    <3>2. Shown(a)[k] = EntryAt(a, PlaceOf(k, a.first, Amount(a))).track
      BY <1>1, <3>1, ShownAt
    <3> QED BY <1>1, <3>2 DEF sa
  <2>2. /\ y \in 0 .. n - 2
        /\ k < R + 1 => z = PlaceOf(k, f, n)
        /\ k >= R + 1 => z = PlaceOf(k + 1, f, n)
    <3>1. y = PlaceOf(k, g, n - 1) /\ g = (IF i < f THEN f - 1 ELSE f)
      BY <1>1
    <3>2. n \in Nat /\ f \in 0 .. n /\ R = (IF i - f < 0 THEN (i - f) + n ELSE i - f) /\ i \in 0 .. n - 1
      BY <1>2, <1>4
    <3> HIDE DEF y, f, g, j
    <3>3. CutGiven(n, f, i, g, R, k, y)
      BY <1>6, <3>1, <3>2 DEF CutGiven
    <3>4. CutFound(n, f, i, R, k, y)
      BY <3>3, RowsCut
    <3> QED BY <3>4 DEF CutFound, z
  <2>3. EntryAt(a, y) = EntryAt(p, z)
    <3> HIDE DEF y
    <3> QED BY <1>1, <2>2
  <2>4. \A x \in 1 .. n : sp[x] = EntryAt(p, PlaceOf(x, f, n)).track
    BY <1>2, ShownAt DEF sp, n
  <2>5. k \in 1 .. n /\ k + 1 \in 1 .. n
    BY <1>2
  <2> HIDE DEF y, z, f
  <2>6. CASE k < j
    BY <1>5, <2>1, <2>2, <2>3, <2>4, <2>5, <2>6
  <2>7. CASE ~(k < j)
    <3>1. k >= R + 1
      BY <1>2, <1>4, <2>7
    <3> QED BY <1>5, <2>1, <2>2, <2>3, <2>4, <2>5, <2>7, <3>1
  <2> QED BY <2>6, <2>7
<1> HIDE DEF j
<1>7. sa = cut
  BY <1>2, <1>3, <1>5, <1>6, SeqEqual
<1> QED BY <1>4, <1>7 DEF R, sa, sp, cut, j, n, a

\* Where the first row is after a move to the row r, and which row the track is in: what
\* the code does with the place q it comes to ...
RowGiven(N, r, g, q, h) ==
  /\ N \in Nat /\ N >= 2 /\ r \in 0 .. N - 1 /\ g \in 0 .. N - 1 /\ q \in 0 .. N - 1
  /\ r = 0 => q = g /\ h = g
  /\ r # 0 /\ r = N - 1 => q = (IF g > 0 THEN g ELSE N - 1) /\ h = (IF q <= g THEN g + 1 ELSE g)
  /\ r # 0 /\ r # N - 1 => /\ q = (IF r + g < N - 1 THEN r + g ELSE (r + g) - (N - 1))
                           /\ h = (IF q < g THEN g + 1 ELSE g)

\* ... and what comes of it.
RowFound(N, r, g, q, h) ==
  /\ h \in 0 .. N
  /\ q < g => h = g + 1
  /\ q > g => h = g
  /\ q = g => h = g \/ h = g + 1
  /\ (IF q - h < 0 THEN (q - h) + N ELSE q - h) = r

\* Every move comes to the row it was meant for.
LEMMA MovedRow ==
  ASSUME NEW N, NEW r, NEW g, NEW q, NEW h, RowGiven(N, r, g, q, h)
  PROVE  RowFound(N, r, g, q, h)
<1>1. /\ N \in Int /\ r \in Int /\ g \in Int /\ q \in Int
      /\ 0 <= r /\ r <= N - 1 /\ 0 <= g /\ g <= N - 1 /\ 0 <= q /\ q <= N - 1 /\ N >= 2
  BY DEF RowGiven
<1>2. CASE r = 0
  BY <1>1, <1>2 DEF RowGiven, RowFound
<1>3. CASE r # 0 /\ r = N - 1
  BY <1>1, <1>3 DEF RowGiven, RowFound
<1>4. CASE r # 0 /\ r # N - 1
  BY <1>1, <1>4 DEF RowGiven, RowFound
<1> QED BY <1>2, <1>3, <1>4

\* The rows that playlist_move() leaves.
LEMMA MoveRows ==
  ASSUME NEW i \in Int, NEW j \in Int, Move(i, j), IInv
  PROVE  Shown(pl') = InsertAt(RemoveAt(Shown(pl), Rotate(pl, i) + 1),
                               Rotate(pl, j) + 1, EntryAt(pl, i).track)
<1> DEFINE r == Rotate(pl, j)
           N == Amount(pl)
           g == IF i < pl.first THEN pl.first - 1 ELSE pl.first
           c == IF i < pl.index THEN pl.index - 1 ELSE pl.index
           pos == IF r = 0 THEN PREPEND ELSE IF r = N - 1 THEN INSERT_LAST ELSE (r + g) % (N - 1)
           q == IF r = 0 THEN g ELSE IF r = N - 1 THEN IF g > 0 THEN g ELSE N - 1 ELSE pos
           e == EntryAt(pl, i)
           t == e.track
           m == RemoveTrack(pl, i)
           a == AddTrack(m, pos, e.queued, e.track, Len(ctl) + 2, 0, 0).pl
           h == a.first
           pp == IF r + g < N - 1 THEN r + g ELSE (r + g) - (N - 1)
<1>1. /\ Running /\ i \in 0 .. N - 1 /\ N >= 2
      /\ r \in 0 .. N - 1 /\ g \in 0 .. N - 1 /\ q \in 0 .. N - 1
      /\ r # 0 /\ r # N - 1 => pos \in 0 .. N - 2
      /\ m \in Lists(Entry) /\ InRange(m) /\ Amount(m) = N - 1 /\ m.started = pl.started /\ m.first = g
      /\ a \in Lists(Entry) /\ Amount(a) = N
      /\ h = (IF Turns(m, pos, q) \/ (pos >= 0 /\ q < g /\ pl.started) THEN g + 1 ELSE g)
      /\ EntryAt(a, q).track = t
      /\ \A k \in 0 .. N - 1 : k # q => EntryAt(a, k) = IF k < q THEN EntryAt(m, k) ELSE EntryAt(m, k - 1)
  BY MoveShape
<1>2. N \in Nat /\ pl.first \in 0 .. N /\ Settled(pl) /\ pl \in Lists(Entry) /\ InRange(pl)
  BY <1>1, FoundList
<1>3. pl'.idx = a.idx /\ pl'.first = a.first
  BY MoveResult
<1>4. Shown(pl') = Shown(a)
  <2> HIDE DEF a
  <2> QED BY <1>3 DEF Shown, Amount, EntryAt
<1>P. PREPEND = -1 /\ INSERT_LAST = -3
  BY DEF PREPEND, INSERT_LAST
<1>5. ~pl.started => g = 0
  <2>1. ~pl.started => pl.first = 0
    BY <1>2 DEF Settled
  <2>2. ~(i < 0)
    BY <1>1
  <2> QED BY <2>1, <2>2
<1>6. r = 0 => q = g /\ h = g
  <2> SUFFICES ASSUME r = 0 PROVE q = g /\ h = g
    OBVIOUS
  <2>1. pos = PREPEND /\ q = g
    OBVIOUS
  <2>2. ~Turns(m, pos, q)
    BY <2>1 DEF Turns
  <2> HIDE DEF a, h, m, pos, q, g, N
  <2> QED BY <1>1, <1>P, <2>1, <2>2
<1>7. r # 0 /\ r = N - 1 => q = (IF g > 0 THEN g ELSE N - 1) /\ h = (IF q <= g THEN g + 1 ELSE g)
  <2> SUFFICES ASSUME r # 0, r = N - 1
               PROVE  q = (IF g > 0 THEN g ELSE N - 1) /\ h = (IF q <= g THEN g + 1 ELSE g)
    OBVIOUS
  <2>1. pos = INSERT_LAST /\ q = (IF g > 0 THEN g ELSE N - 1)
    OBVIOUS
  <2>2. pos # PREPEND /\ pos < 0 /\ ~(pos >= 0)
    BY <1>P, <2>1
  <2> HIDE DEF a, h, m, pos, q, g, N, r
  <2>3. Amount(m) > 0
    BY <1>1, <1>2
  <2>4. ~pl.started => ~(q <= g)
    BY <1>1, <1>2, <1>5, <2>1
  <2>5. Turns(m, pos, q) <=> q <= g
    BY <1>1, <2>2, <2>3, <2>4 DEF Turns
  <2> QED BY <1>1, <2>1, <2>2, <2>5
<1>8. r # 0 /\ r # N - 1 => q = pp /\ h = (IF q < g THEN g + 1 ELSE g)
  <2> SUFFICES ASSUME r # 0, r # N - 1 PROVE q = pp /\ h = (IF q < g THEN g + 1 ELSE g)
    OBVIOUS
  <2>1. pos = (r + g) % (N - 1) /\ q = pos
    OBVIOUS
  <2>2. pos \in 0 .. N - 2
    BY <1>1
  <2>3. pos = pp
    <3> DEFINE n == N - 1
               x == r + g
    <3>1. n \in Nat /\ n > 0 /\ x \in Nat /\ x < n + n
      <4>1. N - 1 \in Nat /\ N - 1 > 0 /\ r \in 0 .. N - 1 /\ g \in 0 .. N - 1 /\ r # N - 1
        <5> HIDE DEF r, g, N, pp, pos, q, c, m, a
        <5> QED BY <1>1, <1>2
      <4> HIDE DEF r, g, N, pp, pos
      <4> QED BY <4>1
    <3>2. pos = x % n /\ pp = IF x < n THEN x ELSE x - n
      OBVIOUS
    <3> HIDE DEF n, x, pos, pp
    <3> QED BY <3>1, <3>2, ModOnce
  <2> HIDE DEF a, h, m, pos, q, g, N, r, pp
  <2>4. ~(pos < 0) /\ pos >= 0
    BY <1>2, <2>2
  <2>5. ~Turns(m, pos, q)
    BY <2>4 DEF Turns
  <2>6. ~pl.started => ~(q < g)
    BY <1>1, <1>2, <1>5, <2>1, <2>2
  <2> QED BY <1>1, <2>1, <2>3, <2>4, <2>5, <2>6
<1>9. /\ h \in 0 .. N
      /\ q < g => h = g + 1
      /\ q > g => h = g
      /\ q = g => h = g \/ h = g + 1
      /\ (IF q - h < 0 THEN (q - h) + N ELSE q - h) = r
  <2>1. /\ N \in Nat /\ N >= 2 /\ r \in 0 .. N - 1 /\ g \in 0 .. N - 1 /\ q \in 0 .. N - 1
    BY <1>1, <1>2
  <2>2. r # 0 /\ r # N - 1 => /\ q = (IF r + g < N - 1 THEN r + g ELSE (r + g) - (N - 1))
                              /\ h = (IF q < g THEN g + 1 ELSE g)
    BY <1>8
  <2> HIDE DEF N, r, g, q, h, pp
  <2>3. RowGiven(N, r, g, q, h)
    BY <1>6, <1>7, <2>1, <2>2 DEF RowGiven
  <2>4. RowFound(N, r, g, q, h)
    BY <2>3, MovedRow
  <2> QED BY <2>4 DEF RowFound
<1>10. Rotate(a, q) = r
  <2> HIDE DEF a, N, q, r
  <2> QED BY <1>1, <1>9 DEF Rotate, h
<1>11. Shown(a) = InsertAt(Shown(m), Rotate(a, q) + 1, t)
  <2>1. /\ m.first \in 0 .. Amount(m) /\ Amount(a) = Amount(m) + 1 /\ q \in 0 .. Amount(m)
        /\ a.first \in 0 .. Amount(a) /\ m \in Lists(Entry) /\ a \in Lists(Entry)
    <3> HIDE DEF m, a, N, q, g, pos, r
    <3> QED BY <1>1, <1>2, <1>9 DEF InRange, h
  <2>2. /\ q < m.first => a.first = m.first + 1
        /\ q > m.first => a.first = m.first
        /\ q = m.first => a.first = m.first \/ a.first = m.first + 1
    <3> HIDE DEF m, a, N, q, g, pos, r
    <3> QED BY <1>1, <1>9 DEF h
  <2>3. \A k \in 0 .. Amount(m) : k # q =>
          EntryAt(a, k) = IF k < q THEN EntryAt(m, k) ELSE EntryAt(m, k - 1)
    <3> HIDE DEF m, a, N, q, g, pos, r
    <3> QED BY <1>1
  <2>4. t = EntryAt(a, q).track
    BY <1>1
  <2> HIDE DEF m, a, N, q, g, pos, r, t, h
  <2> QED BY <2>1, <2>2, <2>3, <2>4, ShownPut
<1>12. Shown(m) = RemoveAt(Shown(pl), Rotate(pl, i) + 1)
  BY <1>1, <1>2, ShownCut
<1> HIDE DEF a, m, q, r, t
<1> QED BY <1>4, <1>10, <1>11, <1>12 DEF r, t

\* The rows that a move leaves, whatever the step was.
LEMMA RowsMoved ==
  ASSUME IInv
  PROVE  \A i, j \in 0 .. Amount(pl) - 1 : Moved(i) /\ Move(i, j) =>
           Shown(pl') = InsertAt(RemoveAt(Shown(pl), Rotate(pl, i) + 1),
                                 Rotate(pl, j) + 1, EntryAt(pl, i).track)
<1> SUFFICES ASSUME NEW i \in 0 .. Amount(pl) - 1, NEW j \in 0 .. Amount(pl) - 1, Move(i, j)
             PROVE  Shown(pl') = InsertAt(RemoveAt(Shown(pl), Rotate(pl, i) + 1),
                                          Rotate(pl, j) + 1, EntryAt(pl, i).track)
  OBVIOUS
<1>1. i \in Int /\ j \in Int
  OBVIOUS
<1> QED BY <1>1, MoveRows

\* A track that is moved is shown in the row it was moved to, and the other rows keep
\* their order: the delete and the add of playlist_move(), and the way it turns the row
\* into a position, fit together for every list and every first_index.
THEOREM MoveShowsHolds ==
  ASSUME Careful
  PROVE  Spec => MoveShows
<1>1. IInv => [\A i, j \in 0 .. Amount(pl) - 1 : Moved(i) /\ Move(i, j) =>
                 Shown(pl') = InsertAt(RemoveAt(Shown(pl), Rotate(pl, i) + 1),
                                       Rotate(pl, j) + 1, EntryAt(pl, i).track)]_vars
  BY RowsMoved
<1> QED BY <1>1, Inductive, PTL DEF MoveShows

\* InsertAt, at either end.
LEMMA InsertAtEnds ==
  ASSUME NEW S, NEW s \in Seq(S), NEW t \in S
  PROVE  InsertAt(s, 1, t) = <<t>> \o s /\ InsertAt(s, Len(s) + 1, t) = Append(s, t)
<1> DEFINE n == Len(s)
           o == n + 1
           j == 1
           a == InsertAt(s, j, t)
           b == InsertAt(s, o, t)
           e == <<t>>
<1>1. n \in Nat /\ o \in 1 .. n + 1 /\ j \in 1 .. n + 1 /\ j = 1
  BY LenProperties
<1>2. e \in Seq(S) /\ Len(e) = 1 /\ e[1] = t
  OBVIOUS
<1> HIDE DEF e, o, j
<1>3. /\ a \in Seq(S) /\ Len(a) = n + 1
      /\ \A k \in 1 .. n + 1 : a[k] = IF k < j THEN s[k] ELSE IF k = j THEN t ELSE s[k - 1]
  <2>1. j \in 1 .. Len(s) + 1
    BY <1>1
  <2>2. Put(S, s, j, t)
    BY <2>1, InsertAtPuts
  <2> QED BY <2>2 DEF Put
<1>4. /\ b \in Seq(S) /\ Len(b) = n + 1
      /\ \A k \in 1 .. n + 1 : b[k] = IF k < o THEN s[k] ELSE IF k = o THEN t ELSE s[k - 1]
  <2>1. o \in 1 .. Len(s) + 1
    BY <1>1
  <2>2. Put(S, s, o, t)
    BY <2>1, InsertAtPuts
  <2> QED BY <2>2 DEF Put
<1>5. /\ e \o s \in Seq(S) /\ Len(e \o s) = Len(e) + n
      /\ \A k \in 1 .. Len(e) + n : (e \o s)[k] = IF k <= Len(e) THEN e[k] ELSE s[k - Len(e)]
  BY <1>2, ConcatProperties
<1>6. /\ Append(s, t) \in Seq(S) /\ Len(Append(s, t)) = n + 1
      /\ \A k \in 1 .. n : Append(s, t)[k] = s[k]
      /\ Append(s, t)[n + 1] = t
  BY AppendProperties
<1> DEFINE c == e \o s
           d == Append(s, t)
<1> HIDE DEF n, a, b, c, d
<1>7. a = c
  <2>1. /\ c \in Seq(S) /\ Len(c) = n + 1
        /\ \A k \in 1 .. n + 1 : c[k] = IF k <= 1 THEN e[k] ELSE s[k - 1]
    BY <1>1, <1>2, <1>5 DEF c
  <2>2. ASSUME NEW k \in 1 .. n + 1 PROVE a[k] = c[k]
    <3>1. k \in Int /\ k >= 1
      BY <1>1
    <3>2. CASE k = 1
      <4>1. a[k] = t
        BY <1>1, <1>3, <3>2
      <4>2. c[k] = t
        BY <1>2, <2>1, <3>2
      <4> QED BY <4>1, <4>2
    <3>3. CASE k # 1
      <4>1. ~(k < j) /\ k # j /\ ~(k <= 1)
        BY <1>1, <3>1, <3>3
      <4>2. a[k] = s[k - 1]
        BY <1>3, <4>1
      <4>3. c[k] = s[k - 1]
        BY <2>1, <4>1
      <4> QED BY <4>2, <4>3
    <3> QED BY <3>2, <3>3
  <2> QED BY <1>3, <2>1, <2>2, SeqEqual
<1>8. b = d
  <2>1. /\ d \in Seq(S) /\ Len(d) = n + 1
        /\ \A k \in 1 .. n : d[k] = s[k]
        /\ d[n + 1] = t
    BY <1>6 DEF d
  <2>2. ASSUME NEW k \in 1 .. n + 1 PROVE b[k] = d[k]
    <3>1. k \in Int /\ k >= 1 /\ k <= n + 1 /\ n \in Int /\ o = n + 1
      BY <1>1 DEF o
    <3>2. CASE k = n + 1
      <4>1. ~(k < o) /\ k = o
        BY <3>1, <3>2
      <4>2. b[k] = t
        BY <1>4, <4>1
      <4> QED BY <2>1, <3>2, <4>2
    <3>3. CASE k # n + 1
      <4>1. k < o /\ k \in 1 .. n
        BY <3>1, <3>3
      <4>2. b[k] = s[k]
        BY <1>4, <4>1
      <4> QED BY <2>1, <4>1, <4>2
    <3> QED BY <3>2, <3>3
  <2> QED BY <1>4, <2>1, <2>2, SeqEqual
<1> QED BY <1>7, <1>8 DEF a, b, c, d, e, o, j, n

\* The rows of a list with a track added at its start or at its end.
LEMMA EndRows ==
  ASSUME NEW pos \in {PREPEND, INSERT_LAST}, NEW queue \in BOOLEAN, NEW t \in Names, NEW sync,
         Insert(pos, queue, t, 0, sync), IInv
  PROVE  /\ pos = INSERT_LAST => Shown(pl') = Append(Shown(pl), t)
         /\ pos = PREPEND => Shown(pl') = <<t>> \o Shown(pl)
<1> DEFINE s == ShuffledStart
           z == 0
           line == Len(ctl) + 1
           n == Amount(pl)
           f == pl.first
           a == AddTrack(pl, pos, queue, t, line, z, s).pl
           q == InsertPosition(pl, pos, z, s)
           e == Inserted(queue, line, t)
           g == a.first
<1>1. Running /\ n < MaxSize /\ pl' = a
  BY DEF Insert
<1>2. /\ pl \in Lists(Entry) /\ InRange(pl) /\ Len(ctl) \in Nat /\ n \in Nat /\ f \in 0 .. n /\ Settled(pl)
      /\ line \in Nat
  BY <1>1, FoundList
<1>P. PREPEND = -1 /\ INSERT_LAST = -3
  BY DEF PREPEND, INSERT_LAST
<1>3. pos \in Int /\ pos < 0 /\ ~(pos >= 0)
  BY <1>P
<1>4. q = IF pos = PREPEND THEN f ELSE IF f > 0 THEN f ELSE n
  BY DEF InsertPosition, PREPEND, INSERT, INSERT_LAST, INSERT_FIRST, INSERT_SHUFFLED, LAST_SHUFFLED, LAST_ROTATED
<1> HIDE DEF s, z, line, q
<1>5. q \in 0 .. n
  BY <1>2, <1>4
<1>6. e \in Entry /\ e.track = t
  BY <1>2 DEF Inserted, Entry
<1> HIDE DEF e
<1>7. /\ a \in Lists(Entry) /\ InRange(a) /\ Amount(a) = n + 1
      /\ g = (IF Turns(pl, pos, q) \/ (pos >= 0 /\ n > 0 /\ q < f /\ pl.started) THEN f + 1 ELSE f)
      /\ \A k \in 0 .. n : EntryAt(a, k) = IF k < q THEN EntryAt(pl, k) ELSE IF k = q THEN e ELSE EntryAt(pl, k - 1)
  BY <1>1, <1>2, <1>3, <1>5, <1>6, AddEntries DEF q, e
<1> HIDE DEF a, n, f, g
<1>8. pos = INSERT_LAST => g = (IF f > 0 THEN f + 1 ELSE f)
  <2> SUFFICES ASSUME pos = INSERT_LAST PROVE g = (IF f > 0 THEN f + 1 ELSE f)
    OBVIOUS
  <2>1. pos # PREPEND
    BY <1>P
  <2>2. f > 0 => pl.started /\ n > 0
    BY <1>2 DEF Settled, f
  <2>3. Turns(pl, pos, q) <=> f > 0
    BY <1>2, <1>3, <1>4, <2>1, <2>2 DEF Turns, f, n
  <2> QED BY <1>3, <1>7, <2>3
<1>9. pos = PREPEND => g = f
  <2>1. pos = PREPEND => ~Turns(pl, pos, q)
    BY DEF Turns
  <2> QED BY <1>3, <1>7, <2>1
<1>10. /\ g \in 0 .. n + 1
       /\ q < f => g = f + 1
       /\ q > f => g = f
       /\ q = f => g = f \/ g = f + 1
       /\ (IF q - g < 0 THEN (q - g) + (n + 1) ELSE q - g) = IF pos = PREPEND THEN 0 ELSE n
  <2>1. CASE pos = PREPEND
    BY <1>2, <1>4, <1>9, <2>1
  <2>2. CASE pos = INSERT_LAST
    BY <1>2, <1>4, <1>8, <1>P, <2>2
  <2> QED BY <2>1, <2>2
<1>11. Rotate(a, q) = IF pos = PREPEND THEN 0 ELSE n
  BY <1>7, <1>10 DEF Rotate, g
<1>12. Shown(a) = InsertAt(Shown(pl), Rotate(a, q) + 1, t)
  <2>1. /\ pl.first \in 0 .. Amount(pl) /\ Amount(a) = Amount(pl) + 1 /\ q \in 0 .. Amount(pl)
        /\ a.first \in 0 .. Amount(a)
    BY <1>2, <1>5, <1>7, <1>10 DEF f, g, n
  <2>2. /\ q < pl.first => a.first = pl.first + 1
        /\ q > pl.first => a.first = pl.first
        /\ q = pl.first => a.first = pl.first \/ a.first = pl.first + 1
    BY <1>10 DEF f, g
  <2>3. \A k \in 0 .. Amount(pl) : k # q =>
          EntryAt(a, k) = IF k < q THEN EntryAt(pl, k) ELSE EntryAt(pl, k - 1)
    BY <1>7 DEF n
  <2>4. t = EntryAt(a, q).track
    BY <1>5, <1>6, <1>7
  <2> QED BY <1>2, <1>7, <2>1, <2>2, <2>3, <2>4, ShownPut
<1>13. Shown(pl) \in Seq(Names) /\ Len(Shown(pl)) = n
  BY <1>2, ShownSeq DEF n, f
<1>14. InsertAt(Shown(pl), 1, t) = <<t>> \o Shown(pl) /\ InsertAt(Shown(pl), n + 1, t) = Append(Shown(pl), t)
  BY <1>13, InsertAtEnds
<1>15. pos = PREPEND => Shown(a) = <<t>> \o Shown(pl)
  <2> SUFFICES ASSUME pos = PREPEND PROVE Shown(a) = <<t>> \o Shown(pl)
    OBVIOUS
  <2>1. Rotate(a, q) + 1 = 1
    BY <1>11
  <2> QED BY <1>12, <1>14, <2>1
<1>16. pos = INSERT_LAST => Shown(a) = Append(Shown(pl), t)
  <2> SUFFICES ASSUME pos = INSERT_LAST PROVE Shown(a) = Append(Shown(pl), t)
    OBVIOUS
  <2>1. Rotate(a, q) = n
    BY <1>11, <1>P
  <2> QED BY <1>12, <1>14, <2>1
<1> QED BY <1>1, <1>15, <1>16

\* The rows that an addition at an end leaves, whatever the step was.
LEMMA EndsRows ==
  ASSUME IInv, IInv', Logged(1), Last(ctl').op \in {"A", "Q"}
  PROVE  LET t == Last(ctl').track
             Did(pos) == \E queue, sync \in BOOLEAN : Insert(pos, queue, t, 0, sync)
         IN  /\ Did(INSERT_LAST) => Shown(pl') = Append(Shown(pl), t)
             /\ Did(PREPEND) => Shown(pl') = <<t>> \o Shown(pl)
<1> DEFINE t == Last(ctl').track
<1>1. ctl \in Seq(Command) /\ ctl' \in Seq(Command) /\ Len(ctl) \in Nat /\ Len(ctl') = Len(ctl) + 1
  BY LenProperties DEF IInv, Logged
<1>2. Last(ctl') \in Command
  <2> DEFINE d == ctl'
             k == Len(d)
  <2>1. k \in 1 .. Len(d)
    BY <1>1
  <2>2. d \in Seq(Command)
    BY <1>1
  <2> HIDE DEF d, k
  <2>3. d[k] \in Command
    BY <2>1, <2>2, ElementOfSeq
  <2> QED BY <2>3 DEF Last, d, k
<1>3. t \in Names
  <2> DEFINE x == Last(ctl')
  <2>1. x \in Command /\ x.op \in {"A", "Q"}
    BY <1>2
  <2> HIDE DEF x
  <2>2. x.track \in Names
    BY <2>1 DEF Command
  <2> QED BY <2>2 DEF x
<1> HIDE DEF t
<1>4. ASSUME NEW queue \in BOOLEAN, NEW sync \in BOOLEAN, Insert(INSERT_LAST, queue, t, 0, sync)
      PROVE  Shown(pl') = Append(Shown(pl), t)
  <2> DEFINE pos == INSERT_LAST
  <2>1. pos \in {PREPEND, INSERT_LAST} /\ Insert(pos, queue, t, 0, sync)
    BY <1>4
  <2> HIDE DEF pos
  <2>2. pos = INSERT_LAST => Shown(pl') = Append(Shown(pl), t)
    BY <1>3, <2>1, EndRows
  <2> QED BY <2>2 DEF pos
<1>5. ASSUME NEW queue \in BOOLEAN, NEW sync \in BOOLEAN, Insert(PREPEND, queue, t, 0, sync)
      PROVE  Shown(pl') = <<t>> \o Shown(pl)
  <2> DEFINE pos == PREPEND
  <2>1. pos \in {PREPEND, INSERT_LAST} /\ Insert(pos, queue, t, 0, sync)
    BY <1>5
  <2> HIDE DEF pos
  <2>2. pos = PREPEND => Shown(pl') = <<t>> \o Shown(pl)
    BY <1>3, <2>1, EndRows
  <2> QED BY <2>2 DEF pos
<1> QED BY <1>4, <1>5 DEF t

\* PLAYLIST_INSERT_LAST shows the track last and PLAYLIST_PREPEND shows it first, wherever
\* in the array the list begins.
THEOREM EndsMeantHolds ==
  ASSUME Careful
  PROVE  Spec => EndsMeant
<1>1. IInv /\ IInv' =>
        [Logged(1) /\ Last(ctl').op \in {"A", "Q"} =>
           LET t == Last(ctl').track
               Did(pos) == \E queue, sync \in BOOLEAN : Insert(pos, queue, t, 0, sync)
           IN  /\ Did(INSERT_LAST) => Shown(pl') = Append(Shown(pl), t)
               /\ Did(PREPEND) => Shown(pl') = <<t>> \o Shown(pl)]_vars
  BY EndsRows
<1> QED BY <1>1, Inductive, PTL DEF EndsMeant

\* A step along the rows.
LEMMA NextRow ==
  ASSUME NEW p \in Lists(Entry), InRange(p), p.index \in 0 .. Amount(p), NEW steps \in Int,
         NEW mode \in {"off", "shuffle"}, mode = "shuffle" => Amount(p) > 1,
         NextIndex(p, steps, mode) >= 0
  PROVE  /\ Amount(p) \in Nat \ {0} /\ Rotate(p, p.index) + steps \in 0 .. Amount(p) - 1
         /\ NextIndex(p, steps, mode) = PlaceOf((Rotate(p, p.index) + steps) + 1, p.first, Amount(p))
<1> DEFINE n == Amount(p)
           R == Rotate(p, p.index)
           s == R + steps
           x == NextIndex(p, steps, mode)
           f == p.first
           next == IF s < 0 \/ s >= n THEN -1 ELSE (s + f) % n
<1>1. n \in Nat /\ f \in 0 .. n /\ p.index \in Int /\ f \in Int
  BY LenProperties DEF Lists, Amount, InRange
<1>2. R \in Int
  BY <1>1 DEF Rotate
<1>3. x = IF n = 0 \/ ~InList(p, next) THEN -1 ELSE next
  BY <1>1 DEF NextIndex
<1>4. x >= 0
  OBVIOUS
<1> HIDE DEF n, R, f, x, next
<1>5. n # 0 /\ x = next /\ next >= 0
  BY <1>3, <1>4
<1>6. s \in 0 .. n - 1 /\ next = (s + f) % n
  BY <1>1, <1>2, <1>5 DEF next
<1> HIDE DEF s
<1>7. (s + f) % n = IF s + f < n THEN s + f ELSE (s + f) - n
  <2> DEFINE y == s + f
  <2>1. n \in Nat /\ n > 0 /\ y \in Nat /\ y < n + n
    BY <1>1, <1>5, <1>6
  <2> HIDE DEF y
  <2>2. y % n = IF y < n THEN y ELSE y - n
    BY <2>1, ModOnce
  <2> QED BY <2>2 DEF y
<1>8. PlaceOf(s + 1, f, n) = IF s + f < n THEN s + f ELSE (s + f) - n
  <2>1. f + ((s + 1) - 1) = s + f
    BY <1>1, <1>6
  <2> QED BY <2>1 DEF PlaceOf
<1> QED BY <1>1, <1>5, <1>6, <1>7, <1>8 DEF n, s, R, x, f

\* A step around the list.
LEMMA NextRound ==
  ASSUME NEW p \in Lists(Entry), InRange(p), p.index \in 0 .. Amount(p), NEW steps \in Int,
         NEW mode \in {"all", "shuffle"}, mode = "shuffle" => Amount(p) <= 1,
         NextIndex(p, steps, mode) >= 0
  PROVE  /\ Amount(p) \in Nat \ {0}
         /\ steps < Amount(p) => NextIndex(p, steps, mode) = (p.index + steps) % Amount(p)
         /\ Amount(p) = 1 /\ steps >= 1 => ~EntryAt(p, 0).queued
<1> DEFINE n == Amount(p)
           x == NextIndex(p, steps, mode)
           round == (p.index + steps) % n
           kept == {k \in 0 .. n - 1 : ~EntryAt(p, (round + k) % n).queued}
           least == CHOOSE k \in kept : \A l \in kept : k <= l
           next == IF steps < n THEN round
                   ELSE IF kept = {} THEN -1
                   ELSE (round + least) % n
<1>1. n \in Nat /\ p.index \in Int
  BY LenProperties DEF Lists, Amount
<1>2. x = IF n = 0 \/ ~InList(p, next) THEN -1 ELSE next
  BY <1>1 DEF NextIndex
<1>3. x >= 0
  OBVIOUS
<1> HIDE DEF n, x, next
<1>4. n # 0 /\ x = next /\ next >= 0
  BY <1>2, <1>3
<1>5. steps < n => x = round
  <2> HIDE DEF round, kept, least
  <2> QED BY <1>4 DEF next
<1>6. ASSUME n = 1, steps >= 1 PROVE ~EntryAt(p, 0).queued
  <2>1. ~(steps < n)
    BY <1>6
  <2>2. kept # {}
    <3> HIDE DEF round, kept, least
    <3> QED BY <1>4, <2>1 DEF next
  <2> HIDE DEF round
  <2>3. PICK k \in 0 .. n - 1 : ~EntryAt(p, (round + k) % n).queued
    BY <2>2
  <2>4. (round + k) % n = 0
    <3> DEFINE a == round + k
               y == p.index + steps
    <3>1. y \in Int /\ n \in Nat /\ n > 0
      BY <1>1, <1>6
    <3> HIDE DEF y
    <3>2. y % n \in Int
      BY <3>1, ModRange
    <3>3. a \in Int
      BY <1>1, <2>3, <3>2 DEF round, y
    <3> HIDE DEF a
    <3>4. a % n \in Int /\ 0 <= a % n /\ a % n <= n - 1
      BY <3>1, <3>3, ModRange
    <3> QED BY <1>6, <3>4 DEF a
  <2> QED BY <2>3, <2>4
<1> HIDE DEF round
<1> QED BY <1>1, <1>4, <1>5, <1>6 DEF n, x, round

\* The row after a queued track that is deleted becomes its row.
LEMMA LandsRow ==
  ASSUME NEW p \in Lists(Entry), InRange(p), p.index \in 0 .. Amount(p),
         NEW mode \in {"off", "shuffle"}, mode = "shuffle" => Amount(p) > 2,
         NEW i, i = NextIndex(p, 0, mode), i >= 0, NextIndex(p, 1, mode) >= 0,
         NextIndex(RemoveTrack(p, i), 0, mode) >= 0
  PROVE  EntryAt(RemoveTrack(p, i), NextIndex(RemoveTrack(p, i), 0, mode)) = EntryAt(p, NextIndex(p, 1, mode))
<1> DEFINE n == Amount(p)
           m == RemoveTrack(p, i)
           z == 0
           o == 1
           R == Rotate(p, p.index)
           x == p.index
           f == p.first
           g == m.first
           c == m.index
           RM == Rotate(m, c)
<1>0. z = 0 /\ o = 1 /\ z \in Int /\ o \in Int
  OBVIOUS
<1>1. i = NextIndex(p, z, mode) /\ NextIndex(p, o, mode) >= 0 /\ NextIndex(p, z, mode) >= 0 /\ NextIndex(m, z, mode) >= 0
  OBVIOUS
<1> HIDE DEF z, o
<1>2. mode = "shuffle" => Amount(p) > 1
  BY LenProperties DEF Lists, Amount
<1>3. n \in Nat \ {0} /\ R + z \in 0 .. n - 1 /\ i = PlaceOf((R + z) + 1, f, n)
  BY <1>0, <1>1, <1>2, NextRow
<1>4. R + o \in 0 .. n - 1 /\ NextIndex(p, o, mode) = PlaceOf((R + o) + 1, f, n)
  BY <1>0, <1>1, <1>2, NextRow
<1>5. /\ f \in 0 .. n /\ x \in 0 .. n /\ R = (IF x - f < 0 THEN (x - f) + n ELSE x - f) /\ R \in Int
  BY <1>3 DEF InRange, Rotate
<1>6. i \in 0 .. n - 1
  <2> HIDE DEF n, R, f, x
  <2> QED BY <1>0, <1>3, <1>5 DEF PlaceOf
<1>7. /\ m \in Lists(Entry) /\ InRange(m) /\ Amount(m) = n - 1
      /\ c = (IF i < x THEN x - 1 ELSE x)
      /\ g = (IF i < f THEN f - 1 ELSE f)
      /\ \A k \in 0 .. n - 2 : EntryAt(m, k) = IF k < i THEN EntryAt(p, k) ELSE EntryAt(p, k + 1)
  BY <1>6, RemoveEntries
<1>R. RM = (IF c - g < 0 THEN (c - g) + (n - 1) ELSE c - g)
  <2> HIDE DEF m, n
  <2> QED BY <1>7 DEF Rotate
<1> HIDE DEF m, n, R, x, f, g, c, RM
<1>8. /\ n \in Int /\ f \in Int /\ x \in Int /\ R \in Int /\ i \in Int /\ 0 <= f /\ f <= n /\ 0 <= x /\ x <= n
      /\ 0 <= R /\ R + 1 <= n - 1
      /\ i = (IF f + R < n THEN f + R ELSE (f + R) - n)
  <2>1. (R + z) + 1 = R + 1 /\ f + ((R + 1) - 1) = f + R
    BY <1>0, <1>5
  <2> QED BY <1>0, <1>3, <1>4, <1>5, <1>6, <2>1 DEF PlaceOf
<1>9. c \in 0 .. n - 1 /\ RM = R
  BY <1>5, <1>7, <1>8, <1>R
<1>10. /\ RM + z \in 0 .. n - 2 /\ NextIndex(m, z, mode) = PlaceOf((RM + z) + 1, g, n - 1)
  <2>1. m.index \in 0 .. Amount(m)
    BY <1>7, <1>9 DEF c
  <2>2. mode = "shuffle" => Amount(m) > 1
    BY <1>3, <1>7 DEF n
  <2>3. /\ Rotate(m, m.index) + z \in 0 .. Amount(m) - 1
        /\ NextIndex(m, z, mode) = PlaceOf((Rotate(m, m.index) + z) + 1, m.first, Amount(m))
    BY <1>0, <1>1, <1>7, <2>1, <2>2, NextRow
  <2>4. (n - 1) - 1 = n - 2
    BY <1>8
  <2> QED BY <1>7, <2>3, <2>4 DEF RM, c, g
<1> DEFINE k == R + 1
           y == PlaceOf(k, g, n - 1)
<1>11. NextIndex(m, z, mode) = y
  <2>1. (RM + z) + 1 = k
    BY <1>0, <1>8, <1>9
  <2> QED BY <1>10, <2>1
<1>12. NextIndex(p, o, mode) = PlaceOf(k + 1, f, n)
  <2>1. (R + o) + 1 = k + 1
    BY <1>0, <1>8
  <2> QED BY <1>4, <2>1
<1>13. /\ k \in 1 .. n - 1 /\ k >= R + 1
  BY <1>8
<1>14. R = (IF i - f < 0 THEN (i - f) + n ELSE i - f)
  BY <1>8
<1> HIDE DEF k, y
<1>15. CutGiven(n, f, i, g, R, k, y)
  BY <1>3, <1>5, <1>6, <1>7, <1>13, <1>14 DEF CutGiven, y
<1>16. CutFound(n, f, i, R, k, y)
  BY <1>15, RowsCut
<1>17. y \in 0 .. n - 2 /\ (IF y < i THEN y ELSE y + 1) = PlaceOf(k + 1, f, n)
  BY <1>13, <1>16 DEF CutFound
<1>18. EntryAt(m, y) = EntryAt(p, PlaceOf(k + 1, f, n))
  BY <1>7, <1>17
<1> QED BY <1>11, <1>12, <1>18 DEF m, z, o

\* Of two tracks the other one is left.
LEMMA LandsOther ==
  ASSUME NEW p \in Lists(Entry), InRange(p), p.index \in 0 .. Amount(p), Amount(p) = 2,
         NEW mode \in {"shuffle"}, NEW i, i = NextIndex(p, 0, mode), i >= 0, NextIndex(p, 1, mode) >= 0,
         NEW k, k = NextIndex(RemoveTrack(p, i), 0, mode), InList(RemoveTrack(p, i), k), k \in Int
  PROVE  EntryAt(RemoveTrack(p, i), k) = EntryAt(p, NextIndex(p, 1, mode))
<1> DEFINE m == RemoveTrack(p, i)
           z == 0
           o == 1
           R == Rotate(p, p.index)
           f == p.first
           x == NextIndex(p, o, mode)
<1>0. z = 0 /\ o = 1 /\ z \in Int /\ o \in Int
  OBVIOUS
<1>1. i = NextIndex(p, z, mode) /\ x >= 0 /\ NextIndex(p, z, mode) >= 0
  OBVIOUS
<1> HIDE DEF z, o, x
<1>2. mode = "shuffle" => Amount(p) > 1
  OBVIOUS
<1>3. R + z \in 0 .. Amount(p) - 1 /\ i = PlaceOf((R + z) + 1, f, Amount(p))
  BY <1>0, <1>1, <1>2, NextRow
<1>4. R + o \in 0 .. Amount(p) - 1 /\ x = PlaceOf((R + o) + 1, f, Amount(p))
  BY <1>0, <1>1, <1>2, NextRow DEF x
<1>5. f \in 0 .. 2 /\ p.index \in 0 .. 2
  BY DEF InRange
<1>6. R \in Int
  BY <1>5 DEF Rotate
<1> HIDE DEF R, f
<1>7. R = 0
  BY <1>0, <1>3, <1>4, <1>6
<1>8. i \in 0 .. 1 /\ x \in 0 .. 1 /\ i # x
  <2>1. i = (IF f < 2 THEN f ELSE f - 2) /\ x = (IF f + 1 < 2 THEN f + 1 ELSE (f + 1) - 2)
    BY <1>0, <1>3, <1>4, <1>5, <1>7 DEF PlaceOf
  <2> QED BY <1>5, <2>1
<1>9. /\ Amount(m) = 1
      /\ \A l \in 0 .. 0 : EntryAt(m, l) = IF l < i THEN EntryAt(p, l) ELSE EntryAt(p, l + 1)
  <2>1. i \in 0 .. Amount(p) - 1
    BY <1>8
  <2>2. /\ Amount(m) = Amount(p) - 1
        /\ \A l \in 0 .. Amount(p) - 2 : EntryAt(m, l) = IF l < i THEN EntryAt(p, l) ELSE EntryAt(p, l + 1)
    BY <2>1, RemoveEntries
  <2> QED BY <2>2
<1> HIDE DEF m
<1>10. k = 0
  BY <1>9 DEF InList, m
<1>11. EntryAt(m, k) = EntryAt(p, x)
  BY <1>8, <1>9, <1>10
<1> QED BY <1>11 DEF m, x, o

\* The track after a queued one that is deleted takes its place in the list.
LEMMA LandsRound ==
  ASSUME NEW p \in Lists(Entry), InRange(p), p.index \in 0 .. Amount(p),
         NEW mode \in {"all", "shuffle"}, mode = "shuffle" => Amount(p) <= 1,
         NEW i, i = NextIndex(p, 0, mode), i >= 0, EntryAt(p, i).queued, NextIndex(p, 1, mode) >= 0,
         NextIndex(RemoveTrack(p, i), 0, mode) >= 0
  PROVE  EntryAt(RemoveTrack(p, i), NextIndex(RemoveTrack(p, i), 0, mode)) = EntryAt(p, NextIndex(p, 1, mode))
<1> DEFINE n == Amount(p)
           m == RemoveTrack(p, i)
           z == 0
           o == 1
           x == p.index
           c == m.index
           k == NextIndex(p, o, mode)
           y == NextIndex(m, z, mode)
<1>0. z = 0 /\ o = 1 /\ z \in Int /\ o \in Int
  OBVIOUS
<1>1. i = NextIndex(p, z, mode) /\ k >= 0 /\ NextIndex(p, z, mode) >= 0 /\ y >= 0
  OBVIOUS
<1> HIDE DEF z, o, k, y
<1>2. n \in Nat \ {0} /\ (z < n => i = (x + z) % n)
  BY <1>0, <1>1, NextRound
<1>3. (o < n => k = (x + o) % n) /\ (n = 1 /\ o >= 1 => ~EntryAt(p, 0).queued)
  BY <1>0, <1>1, NextRound DEF k
<1>4. x \in 0 .. n
  OBVIOUS
<1>5. i = IF x < n THEN x ELSE 0
  <2>1. n \in Nat /\ n > 0 /\ x \in Nat /\ x < n + n
    BY <1>2, <1>4
  <2> HIDE DEF n, x
  <2>2. x % n = IF x < n THEN x ELSE x - n
    BY <2>1, ModOnce
  <2>3. i = x % n
    <3>1. x + z = x /\ z < n
      BY <1>0, <2>1
    <3> QED BY <1>2, <3>1
  <2> QED BY <1>2, <1>4, <2>2, <2>3
<1>6. n >= 2
  <2>1. n # 1
    <3>1. n = 1 => i = 0
      BY <1>4, <1>5
    <3> QED BY <1>0, <1>3, <3>1
  <2> HIDE DEF n
  <2> QED BY <1>2, <2>1
<1>7. k = IF x + 1 < n THEN x + 1 ELSE (x + 1) - n
  <2> DEFINE a == x + o
  <2>1. n \in Nat /\ n > 0 /\ a \in Nat /\ a < n + n /\ o < n /\ a = x + 1
    BY <1>0, <1>2, <1>4, <1>6
  <2>2. o < n => k = a % n
    BY <1>3
  <2> HIDE DEF n, x, a
  <2>3. a % n = IF a < n THEN a ELSE a - n
    BY <2>1, ModOnce
  <2> QED BY <2>1, <2>2, <2>3
<1>8. i \in 0 .. n - 1
  <2>1. n \in Nat
    BY <1>2
  <2> HIDE DEF n, x
  <2> QED BY <2>1, <1>4, <1>5, <1>6
<1>9. /\ m \in Lists(Entry) /\ InRange(m) /\ Amount(m) = n - 1
      /\ c = (IF i < x THEN x - 1 ELSE x)
      /\ \A l \in 0 .. n - 2 : EntryAt(m, l) = IF l < i THEN EntryAt(p, l) ELSE EntryAt(p, l + 1)
  BY <1>8, RemoveEntries
<1> HIDE DEF m, n, x, c
<1>10. c \in 0 .. n - 1
  BY <1>2, <1>4, <1>5, <1>6, <1>9
<1>11. y = IF c < n - 1 THEN c ELSE 0
  <2>1. m.index \in 0 .. Amount(m)
    BY <1>9, <1>10 DEF c
  <2>2. mode = "shuffle" => Amount(m) <= 1
    BY <1>2, <1>6 DEF n
  <2>3. z < Amount(m) => y = (m.index + z) % Amount(m)
    BY <1>0, <1>1, <1>9, <2>1, <2>2, NextRound DEF y
  <2>4. y = (c + z) % (n - 1)
    BY <1>0, <1>2, <1>6, <1>9, <2>3 DEF c
  <2> DEFINE b == n - 1
  <2>5. b \in Nat /\ b > 0 /\ c \in Nat /\ c < b + b /\ c + z = c /\ c <= b
    BY <1>0, <1>2, <1>6, <1>10
  <2>6. y = c % b
    BY <2>4, <2>5
  <2> HIDE DEF b
  <2>7. c % b = IF c < b THEN c ELSE c - b
    BY <2>5, ModOnce
  <2>8. y = IF c < b THEN c ELSE 0
    BY <2>5, <2>6, <2>7
  <2> QED BY <2>8 DEF b
<1>12. y \in 0 .. n - 2 /\ (IF y < i THEN y ELSE y + 1) = k
  BY <1>2, <1>4, <1>5, <1>6, <1>7, <1>9, <1>10, <1>11
<1>13. EntryAt(m, y) = EntryAt(p, k)
  BY <1>9, <1>12
<1> QED BY <1>13 DEF m, y, k, z, o

\* One step on, with what it leaves behind deleted.
LEMMA DropsOne ==
  ASSUME NEW p, NEW mode
  PROVE  LET i == NextIndex(p, 0, mode)
             d == DropQueued(p, 1, mode)
         IN  IF i >= 0 /\ EntryAt(p, i).queued
             THEN d.pl = RemoveTrack(p, i) /\ d.steps = 0
             ELSE d.pl = p /\ d.steps = 1
<1> DEFINE z == 0
           o == 1
           s == [pl |-> p, steps |-> o, log |-> << >>]
           i == NextIndex(p, z, mode)
           w == DropQueued(p, o, mode)
<1>1. o \in Nat /\ o = 1 /\ z = 0 /\ o - 1 = z
  OBVIOUS
<1> HIDE DEF o, z, s
<1>2. w = DropOne(s, o, mode)
  <2>1. /\ w = Drops(p, o, mode)[o] /\ Drops(p, o, mode)[0] = s
        /\ \A k \in 1 .. o : Drops(p, o, mode)[k] = DropOne(Drops(p, o, mode)[k - 1], k, mode)
    BY <1>1, DropsDef DEF s
  <2>2. o \in 1 .. o /\ o - 1 = 0
    BY <1>1
  <2>3. Drops(p, o, mode)[o] = DropOne(Drops(p, o, mode)[o - 1], o, mode)
    BY <2>1, <2>2
  <2> HIDE DEF w
  <2> QED BY <2>1, <2>2, <2>3
<1>3. s.pl = p /\ s.steps = 1
  BY <1>1 DEF s
<1> HIDE DEF w
<1>4. w = IF i >= 0 /\ EntryAt(p, i).queued
          THEN [pl |-> RemoveTrack(p, i), steps |-> s.steps - 1, log |-> Append(s.log, CDelete(i))]
          ELSE s
  BY <1>1, <1>2, <1>3 DEF DropOne
<1> HIDE DEF i
<1>5. IF i >= 0 /\ EntryAt(p, i).queued
      THEN w.pl = RemoveTrack(p, i) /\ w.steps = 0
      ELSE w.pl = p /\ w.steps = 1
  BY <1>3, <1>4
<1> QED BY <1>5 DEF i, w, o, z

\* What is announced is what a step comes to.
LEMMA Lands ==
  ASSUME NEW steps \in {-1, 1}, NEW mode \in Modes, NextIndex(pl, steps, mode) >= 0,
         PlaylistNext(steps, mode, FALSE), IInv
  PROVE  Current(pl').track = EntryAt(pl, NextIndex(pl, steps, mode)).track
<1> DEFINE no == FALSE
           M == IF mode = "one" /\ no THEN "all" ELSE mode
           d == IF steps > 0 /\ M /= "one" THEN DropQueued(pl, steps, mode) ELSE NothingDropped(pl, steps)
           k == NextIndex(d.pl, d.steps, M)
           q == [d.pl EXCEPT !.index = k]
           passed == q.last >= 0 /\ d.steps > 0 /\ Rotate(q, k) > Rotate(q, q.last)
           x == NextIndex(pl, steps, mode)
           i == NextIndex(pl, 0, mode)
<1>1. /\ Running /\ k >= 0 /\ pl' = IF passed THEN [q EXCEPT !.last = -1] ELSE q
  BY DEF PlaylistNext, NothingDropped
<1>2. /\ pl \in Lists(Entry) /\ InRange(pl) /\ pl.index \in 0 .. Amount(pl) /\ Amount(pl) \in Nat
  BY <1>1, FoundList
<1>3. mode \in {"off", "all", "one", "shuffle"}
  BY PlaylistAssumption
<1>4. M = mode /\ x >= 0
  OBVIOUS
<1>5. ASSUME NEW p \in Lists(Entry), InRange(p), p.index \in 0 .. Amount(p), d.pl = p
      PROVE  Current(pl').track = EntryAt(p, k).track /\ InList(p, k) /\ k \in Int
  <2> HIDE DEF d, M, passed, x, i
  <2>0. d.steps \in Int
    <3>1. CASE steps > 0 /\ mode /= "one"
      <4>1. steps = 1
        BY <3>1
      <4>2. d = DropQueued(pl, 1, mode)
        BY <1>4, <3>1, <4>1 DEF d
      <4> QED BY <4>2, DropsOne
    <3>2. CASE ~(steps > 0 /\ mode /= "one")
      BY <1>4, <3>2 DEF d, NothingDropped
    <3> QED BY <3>1, <3>2
  <2>1. k \in Int /\ (k = -1 \/ InList(p, k))
    <3> DEFINE s == d.steps
    <3>1. k = NextIndex(p, s, mode) /\ s \in Int
      BY <1>4, <1>5, <2>0
    <3> HIDE DEF k, s
    <3> QED BY <1>3, <1>5, <3>1, NextRange
  <2>2. k \in Int /\ InList(p, k)
    <3> HIDE DEF k, q
    <3> QED BY <1>1, <2>1
  <2> HIDE DEF k
  <2>3. q.idx = p.idx /\ q.index = k /\ q \in Lists(Entry)
    BY <1>5, <2>2 DEF Lists
  <2> HIDE DEF q
  <2>4. pl'.idx = p.idx /\ pl'.index = k
    BY <1>1, <2>3 DEF Lists
  <2>5. InList(pl', pl'.index) /\ EntryAt(pl', pl'.index) = EntryAt(p, k)
    BY <2>2, <2>4 DEF InList, EntryAt, Amount
  <2> QED BY <2>2, <2>5 DEF Current
<1>6. CASE ~(steps > 0 /\ mode /= "one")
  <2>1. d.pl = pl /\ d.steps = steps
    BY <1>4, <1>6 DEF NothingDropped
  <2>2. k = x
    <3> HIDE DEF d, M
    <3> QED BY <1>4, <2>1
  <2> HIDE DEF d, M, k, x
  <2> QED BY <1>2, <1>5, <2>1, <2>2 DEF x
<1>7. CASE steps > 0 /\ mode /= "one"
  <2>1. steps = 1 /\ d = DropQueued(pl, 1, mode) /\ mode \in {"off", "all", "shuffle"}
    BY <1>3, <1>4, <1>7
  <2> HIDE DEF d, M
  <2>2. IF i >= 0 /\ EntryAt(pl, i).queued
        THEN d.pl = RemoveTrack(pl, i) /\ d.steps = 0
        ELSE d.pl = pl /\ d.steps = 1
    BY <2>1, DropsOne
  <2>3. CASE ~(i >= 0 /\ EntryAt(pl, i).queued)
    <3>1. d.pl = pl /\ d.steps = steps
      <4> HIDE DEF i
      <4> QED BY <2>1, <2>2, <2>3
    <3>2. k = x
      BY <1>4, <3>1
    <3> HIDE DEF k, x
    <3> QED BY <1>2, <1>5, <3>1, <3>2 DEF x
  <2>4. CASE i >= 0 /\ EntryAt(pl, i).queued
    <3> DEFINE m == RemoveTrack(pl, i)
    <3>1. d.pl = m /\ d.steps = 0
      <4> HIDE DEF i
      <4> QED BY <2>2, <2>4
    <3>2. k = NextIndex(m, 0, mode) /\ x = NextIndex(pl, 1, mode)
      BY <1>4, <2>1, <3>1
    <3>3. i = -1 \/ InList(pl, i)
      <4> DEFINE z == 0
      <4>1. z \in Int /\ i = NextIndex(pl, z, mode)
        OBVIOUS
      <4> HIDE DEF z, i
      <4> QED BY <1>2, <1>3, <4>1, NextRange
    <3> HIDE DEF i, k, x
    <3>4. i \in 0 .. Amount(pl) - 1
      <4>1. i \in Int
        <5> DEFINE z == 0
        <5>1. z \in Int /\ i = NextIndex(pl, z, mode)
          BY DEF i
        <5> HIDE DEF z
        <5> QED BY <1>2, <1>3, <5>1, NextRange
      <4> QED BY <1>2, <2>4, <3>3, <4>1 DEF InList
    <3>5. m \in Lists(Entry) /\ InRange(m) /\ m.index \in 0 .. Amount(m)
      <4> DEFINE n == Amount(pl)
                 c == pl.index
      <4>1. /\ m \in Lists(Entry) /\ InRange(m) /\ Amount(m) = n - 1
            /\ m.index = (IF i < c THEN c - 1 ELSE c)
        BY <1>2, <3>4, RemoveEntries
      <4>2. c \in 0 .. n /\ n \in Nat /\ i \in 0 .. n - 1
        BY <1>2, <3>4
      <4>3. c = n => i < c
        BY <4>2
      <4> HIDE DEF m, n, c
      <4>4. m.index \in 0 .. n - 1
        BY <4>1, <4>2, <4>3
      <4> QED BY <4>1, <4>4
    <3>6. Current(pl').track = EntryAt(m, k).track /\ InList(m, k) /\ k \in Int
      <4> HIDE DEF m
      <4> QED BY <1>5, <3>1, <3>5
    <3>7. k >= 0
      BY <1>1
    <3>8. EntryAt(m, k) = EntryAt(pl, x)
      <4>1. i = NextIndex(pl, 0, mode)
        BY DEF i
      <4>2. NextIndex(pl, 1, mode) >= 0 /\ NextIndex(m, 0, mode) >= 0
        BY <1>4, <3>2, <3>7
      <4>3. CASE mode = "off" \/ (mode = "shuffle" /\ Amount(pl) > 2)
        <5>1. mode \in {"off", "shuffle"} /\ (mode = "shuffle" => Amount(pl) > 2)
          BY <4>3
        <5> QED BY <1>2, <2>4, <3>2, <4>1, <4>2, <5>1, LandsRow
      <4>4. CASE mode = "shuffle" /\ Amount(pl) = 2
        <5>1. mode \in {"shuffle"} /\ Amount(pl) = 2
          BY <4>4
        <5> QED BY <1>2, <2>4, <3>2, <3>6, <4>1, <4>2, <5>1, LandsOther
      <4>5. CASE mode = "all" \/ (mode = "shuffle" /\ Amount(pl) <= 1)
        <5>1. mode \in {"all", "shuffle"} /\ (mode = "shuffle" => Amount(pl) <= 1)
          BY <4>5
        <5> QED BY <1>2, <2>4, <3>2, <4>1, <4>2, <5>1, LandsRound
      <4>6. Amount(pl) > 2 \/ Amount(pl) = 2 \/ Amount(pl) <= 1
        BY <1>2
      <4> QED BY <2>1, <4>3, <4>4, <4>5, <4>6
    <3> QED BY <3>6, <3>8 DEF x
  <2> QED BY <2>3, <2>4
<1> QED BY <1>6, <1>7

\* playlist_next() comes to the track playlist_peek() announced, also when the track that
\* is left was queued and is deleted under its feet.
THEOREM NextLandsHolds ==
  ASSUME Careful
  PROVE  Spec => NextLands
<1>1. IInv => [Stepped => \A steps \in {-1, 1}, mode \in Modes :
                 LET k == NextIndex(pl, steps, mode)
                 IN  k >= 0 /\ PlaylistNext(steps, mode, FALSE)
                       => Current(pl').track = EntryAt(pl, k).track]_vars
  BY Lands
<1> QED BY <1>1, Inductive, PTL DEF NextLands
=============================================================================
