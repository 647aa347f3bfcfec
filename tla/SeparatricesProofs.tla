------------------------- MODULE SeparatricesProofs -------------------------
(***************************************************************************)
(* For every field, every number of nulls, of iterations and of points in  *)
(* a ring: the edges find_separatrices returns are edges between points of *)
(* its list, those between two rings follow the field lines and none of    *)
(* them is missing, and those along a ring stop where points were removed. *)
(***************************************************************************)
EXTENDS Separatrices, TLAPS, FiniteSetTheorems

\* Ranks in a finite set of numbers.
Below(S, p) == {q \in S : q < p}

LEMMA BelowFinite ==
  ASSUME NEW S, IsFiniteSet(S), NEW p
  PROVE  /\ IsFiniteSet(Below(S, p)) /\ Cardinality(Below(S, p)) \in Nat
         /\ Cardinality(Below(S, p)) <= Cardinality(S) /\ Cardinality(S) \in Nat
<1>1. Below(S, p) \in SUBSET S
  BY DEF Below
<1>2. IsFiniteSet(Below(S, p)) /\ Cardinality(Below(S, p)) <= Cardinality(S)
  BY <1>1, FS_Subset
<1>3. Cardinality(Below(S, p)) \in Nat
  BY <1>2, FS_CardinalityType
<1>4. Cardinality(S) \in Nat
  BY FS_CardinalityType
<1> QED BY <1>2, <1>3, <1>4

LEMMA ProperSubset ==
  ASSUME NEW S, IsFiniteSet(S), NEW T \in SUBSET S, NEW x \in S, x \notin T
  PROVE  Cardinality(T) < Cardinality(S)
<1>1. IsFiniteSet(T) /\ Cardinality(T) <= Cardinality(S) /\ Cardinality(T) # Cardinality(S)
  BY FS_Subset
<1>2. Cardinality(T) \in Nat
  BY <1>1, FS_CardinalityType
<1>3. Cardinality(S) \in Nat
  BY FS_CardinalityType
<1> QED BY <1>1, <1>2, <1>3

LEMMA RankGrows ==
  ASSUME NEW S \in SUBSET Int, IsFiniteSet(S), NEW p \in S, NEW q \in Int, p < q
  PROVE  Cardinality(Below(S, p)) < Cardinality(Below(S, q))
<1>1. Below(S, p) \in SUBSET Below(S, q)
  <2>1. \A r \in S : r < p => r < q
    <3> SUFFICES ASSUME NEW r \in S, r < p PROVE r < q
      OBVIOUS
    <3>1. r \in Int /\ p \in Int
      OBVIOUS
    <3> QED BY <3>1
  <2> QED BY <2>1 DEF Below
<1>2. p \in Below(S, q)
  BY DEF Below
<1>3. p \notin Below(S, p)
  BY DEF Below
<1>4. IsFiniteSet(Below(S, q))
  BY BelowFinite
<1> QED BY <1>1, <1>2, <1>3, <1>4, ProperSubset

LEMMA RankGrowsWeakly ==
  ASSUME NEW S \in SUBSET Int, IsFiniteSet(S), NEW p \in Int, NEW q \in Int, p <= q
  PROVE  Cardinality(Below(S, p)) <= Cardinality(Below(S, q))
<1>1. Below(S, p) \in SUBSET Below(S, q)
  <2>1. \A r \in S : r < p => r < q
    <3> SUFFICES ASSUME NEW r \in S, r < p PROVE r < q
      OBVIOUS
    <3>1. r \in Int /\ p \in Int
      OBVIOUS
    <3> QED BY <3>1
  <2> QED BY <2>1 DEF Below
<1>2. IsFiniteSet(Below(S, q))
  BY BelowFinite
<1> QED BY <1>1, <1>2, FS_Subset

LEMMA RankBound ==
  ASSUME NEW S \in SUBSET Int, IsFiniteSet(S), NEW p \in S
  PROVE  Cardinality(Below(S, p)) \in 0 .. Cardinality(S) - 1
<1>1. Below(S, p) \in SUBSET S
  BY DEF Below
<1>2. p \notin Below(S, p)
  BY DEF Below
<1>3. Cardinality(Below(S, p)) < Cardinality(S)
  BY <1>1, <1>2, ProperSubset
<1>4. Cardinality(Below(S, p)) \in Nat /\ Cardinality(S) \in Nat
  BY BelowFinite
<1> QED BY <1>3, <1>4

\* Every rank is taken.
LEMMA RankOnto ==
  ASSUME NEW S \in SUBSET Int, IsFiniteSet(S), NEW i \in 1 .. Cardinality(S)
  PROVE  \E p \in S : Cardinality(Below(S, p)) = i - 1
<1> DEFINE T == 0 .. Cardinality(S) - 1
           f == [p \in S |-> Cardinality(Below(S, p))]
<1>1. Cardinality(S) \in Nat
  BY FS_CardinalityType
<1>2. IsFiniteSet(T) /\ Cardinality(T) = Cardinality(S)
  <2> DEFINE c == Cardinality(S)
  <2> HIDE DEF c
  <2>1. c \in Nat
    BY <1>1 DEF c
  <2>2. IsFiniteSet(0 .. c - 1) /\ Cardinality(0 .. c - 1) = IF 0 > c - 1 THEN 0 ELSE (c - 1) - 0 + 1
    BY <2>1, FS_Interval
  <2>3. Cardinality(0 .. c - 1) = c
    BY <2>1, <2>2
  <2> QED BY <2>2, <2>3 DEF c
<1>3. f \in [S -> T]
  BY RankBound
<1>4. \A p, q \in S : f[p] = f[q] => p = q
  <2> SUFFICES ASSUME NEW p \in S, NEW q \in S, f[p] = f[q], p # q PROVE FALSE
    OBVIOUS
  <2>0. p \in Int /\ q \in Int /\ Cardinality(Below(S, p)) \in Nat /\ Cardinality(Below(S, q)) \in Nat
    BY BelowFinite
  <2>3. Cardinality(Below(S, p)) = Cardinality(Below(S, q))
    OBVIOUS
  <2>1. CASE p < q
    <3>1. Cardinality(Below(S, p)) < Cardinality(Below(S, q))
      BY <2>0, <2>1, RankGrows
    <3> QED BY <3>1, <2>0, <2>3
  <2>2. CASE q < p
    <3>1. Cardinality(Below(S, q)) < Cardinality(Below(S, p))
      BY <2>0, <2>2, RankGrows
    <3> QED BY <3>1, <2>0, <2>3
  <2> QED BY <2>0, <2>1, <2>2
<1>5. f \in Injection(S, T)
  BY <1>3, <1>4 DEF Injection, IsInjective
<1>6. f \in Surjection(S, T)
  BY <1>2, <1>5, FS_Injection
<1>7. i - 1 \in T
  BY <1>1
<1>8. \E p \in S : f[p] = i - 1
  BY <1>6, <1>7 DEF Surjection
<1> QED BY <1>8

\* The numbers below p are those in S and those not in S.
LEMMA RankSum ==
  ASSUME NEW n \in Nat, NEW S \in SUBSET (1 .. n), NEW p \in 1 .. n
  PROVE  p - 1 = Cardinality(Below(S, p)) + Cardinality(Below((1 .. n) \ S, p))
<1> DEFINE R == (1 .. n) \ S
<1>1. IsFiniteSet(1 .. n)
  BY FS_Interval
<1>2. IsFiniteSet(S) /\ IsFiniteSet(R)
  <2>1. R \in SUBSET (1 .. n)
    OBVIOUS
  <2> QED BY <1>1, <2>1, FS_Subset
<1> HIDE DEF R
<1>3. IsFiniteSet(Below(S, p)) /\ IsFiniteSet(Below(R, p))
  BY <1>2, BelowFinite
<1>4. Below(S, p) \cup Below(R, p) = 1 .. p - 1 /\ Below(S, p) \cap Below(R, p) = {}
  <2>1. \A r : r \in Below(S, p) \cup Below(R, p) <=> r \in 1 .. n /\ r < p
    BY DEF Below, R
  <2>2. \A r : r \in 1 .. n /\ r < p <=> r \in 1 .. p - 1
    OBVIOUS
  <2>3. Below(S, p) \cap Below(R, p) = {}
    BY DEF Below, R
  <2> QED BY <2>1, <2>2, <2>3
<1>5. Cardinality(1 .. p - 1) = p - 1
  BY FS_Interval
<1>6. Cardinality({}) = 0
  BY FS_EmptySet
<1>7. Cardinality(Below(S, p)) \in Nat /\ Cardinality(Below(R, p)) \in Nat
  BY <1>2, BelowFinite
<1>8. Cardinality(Below(S, p) \cup Below(R, p))
        = Cardinality(Below(S, p)) + Cardinality(Below(R, p)) - Cardinality(Below(S, p) \cap Below(R, p))
  BY <1>3, FS_Union
<1>9. p - 1 = Cardinality(Below(S, p)) + Cardinality(Below(R, p))
  <2>1. p - 1 = Cardinality(Below(S, p)) + Cardinality(Below(R, p)) - 0
    BY <1>4, <1>5, <1>6, <1>8
  <2> QED BY <1>7, <2>1
<1> QED BY <1>9 DEF R
-----------------------------------------------------------------------------
(* Points put into a ring, and points removed from it. *)

LEMMA PartOfInterval ==
  ASSUME NEW n \in Nat, NEW S \in SUBSET (1 .. n)
  PROVE  IsFiniteSet(S) /\ Cardinality(S) \in Nat /\ S \in SUBSET Int
<1>1. IsFiniteSet(1 .. n)
  BY FS_Interval
<1>2. IsFiniteSet(S)
  BY <1>1, FS_Subset
<1>3. Cardinality(S) \in Nat
  BY <1>2, FS_CardinalityType
<1>4. S \in SUBSET Int
  OBVIOUS
<1> QED BY <1>2, <1>3, <1>4

LEMMA MovedRank ==
  ASSUME NEW ins, NEW i
  PROVE  Moved(i, ins) = i + Cardinality(Below(ins, i))
BY DEF Moved, Below

LEMMA MovedBound ==
  ASSUME NEW n \in Nat, NEW ins \in SUBSET (1 .. n), NEW i \in 1 .. n
  PROVE  Moved(i, ins) \in 1 .. n + Cardinality(ins)
<1>1. Cardinality(ins) \in Nat /\ IsFiniteSet(ins)
  BY PartOfInterval
<1>2. Cardinality(Below(ins, i)) \in Nat /\ Cardinality(Below(ins, i)) <= Cardinality(ins)
  BY <1>1, BelowFinite
<1> QED BY <1>1, <1>2, MovedRank

LEMMA MovedGrows ==
  ASSUME NEW n \in Nat, NEW ins \in SUBSET (1 .. n), NEW i \in 1 .. n, NEW j \in 1 .. n, i < j
  PROVE  Moved(i, ins) < Moved(j, ins)
<1>1. IsFiniteSet(ins) /\ ins \in SUBSET Int
  BY PartOfInterval
<1>2. Cardinality(Below(ins, i)) \in Nat /\ Cardinality(Below(ins, j)) \in Nat
  BY <1>1, BelowFinite
<1>3. i \in Int /\ j \in Int /\ i <= j
  OBVIOUS
<1>4. Cardinality(Below(ins, i)) <= Cardinality(Below(ins, j))
  BY <1>1, <1>3, RankGrowsWeakly
<1>5. Moved(i, ins) = i + Cardinality(Below(ins, i)) /\ Moved(j, ins) = j + Cardinality(Below(ins, j))
  BY MovedRank
<1> QED BY <1>2, <1>4, <1>5

LEMMA WidenedRing ==
  ASSUME ring \in Seq(Nat \ {0}), lines \in Nat, NEW ins \in SUBSET (1 .. Len(ring))
  PROVE  /\ Cardinality(ins) \in Nat
         /\ Widened(ins) \in Seq(Nat \ {0})
         /\ Len(Widened(ins)) = Len(ring) + Cardinality(ins)
         /\ \A i \in 1 .. Len(ring) :
              /\ Moved(i, ins) \in 1 .. Len(Widened(ins))
              /\ Widened(ins)[Moved(i, ins)] = ring[i]
<1> DEFINE n == Len(ring)
           m == n + Cardinality(ins)
<1>1. n \in Nat /\ Cardinality(ins) \in Nat
  <2>1. n \in Nat
    OBVIOUS
  <2> QED BY <2>1, PartOfInterval
<1>2. \A p \in 1 .. m : Widened(ins)[p] \in Nat \ {0}
  <2> SUFFICES ASSUME NEW p \in 1 .. m PROVE Widened(ins)[p] \in Nat \ {0}
    OBVIOUS
  <2>1. CASE \E i \in 1 .. n : Moved(i, ins) = p
    <3>1. PICK i \in 1 .. n : i = CHOOSE j \in 1 .. n : Moved(j, ins) = p
      BY <2>1
    <3>2. Widened(ins)[p] = ring[i]
      BY <2>1, <3>1 DEF Widened
    <3> QED BY <3>2
  <2>2. CASE ~\E i \in 1 .. n : Moved(i, ins) = p
    <3>1. Widened(ins)[p] = lines + p
      BY <2>2 DEF Widened
    <3> QED BY <1>1, <3>1
  <2> QED BY <2>1, <2>2
<1>3. Widened(ins) \in Seq(Nat \ {0}) /\ Len(Widened(ins)) = m
  <2>1. Widened(ins) \in [1 .. m -> Nat \ {0}]
    BY <1>2 DEF Widened
  <2> QED BY <1>1, <2>1
<1>4. ASSUME NEW i \in 1 .. n
      PROVE  Moved(i, ins) \in 1 .. m /\ Widened(ins)[Moved(i, ins)] = ring[i]
  <2>1. Moved(i, ins) \in 1 .. m
    BY <1>1, MovedBound
  <2>2. \A j \in 1 .. n : Moved(j, ins) = Moved(i, ins) => j = i
    <3> SUFFICES ASSUME NEW j \in 1 .. n, Moved(j, ins) = Moved(i, ins), j # i PROVE FALSE
      OBVIOUS
    <3>0. Moved(i, ins) \in Int /\ Moved(j, ins) \in Int
      <4>1. Moved(j, ins) \in 1 .. m
        BY <1>1, MovedBound
      <4> QED BY <2>1, <4>1, <1>1
    <3>1. CASE i < j
      <4>1. Moved(i, ins) < Moved(j, ins)
        BY <1>1, <3>1, MovedGrows
      <4> QED BY <3>0, <4>1
    <3>2. CASE j < i
      <4>1. Moved(j, ins) < Moved(i, ins)
        BY <1>1, <3>2, MovedGrows
      <4> QED BY <3>0, <4>1
    <3> QED BY <3>1, <3>2
  <2>3. (CHOOSE j \in 1 .. n : Moved(j, ins) = Moved(i, ins)) = i
    BY <2>2
  <2> QED BY <2>1, <2>3 DEF Widened
<1> QED BY <1>1, <1>3, <1>4

LEMMA RemainingRing ==
  ASSUME wide \in Seq(Nat \ {0}), NEW o \in SUBSET DOMAIN wide
  PROVE  /\ Cardinality(Kept(o)) \in Nat /\ (Kept(o) # {} => Cardinality(Kept(o)) > 0)
         /\ Remaining(o) \in Seq(Nat \ {0}) /\ Len(Remaining(o)) = Cardinality(Kept(o))
         /\ \A p \in 1 .. Len(wide) : p \notin o =>
              /\ p - Cardinality({q \in o : q < p}) \in 1 .. Cardinality(Kept(o))
              /\ Remaining(o)[p - Cardinality({q \in o : q < p})] = wide[p]
<1> DEFINE n == Len(wide)
           K == Kept(o)
           c == Cardinality(K)
<1>1. n \in Nat /\ DOMAIN wide = 1 .. n /\ K = (1 .. n) \ o
  BY DEF Kept
<1>2. IsFiniteSet(K) /\ c \in Nat /\ K \in SUBSET Int
  <2>1. K \in SUBSET (1 .. n)
    BY <1>1
  <2> QED BY <1>1, <2>1, PartOfInterval
<1>3. IsFiniteSet(o)
  BY <1>1, PartOfInterval
<1>4. K # {} => c > 0
  <2>1. c = 0 <=> K = {}
    BY <1>2, FS_EmptySet
  <2> QED BY <1>2, <2>1
<1>5. \A p : Before(p, o) = Cardinality(Below(K, p))
  BY DEF Before, Below
<1> HIDE DEF K, c, n
<1>6. ASSUME NEW p \in K
      PROVE  /\ Before(p, o) + 1 \in 1 .. c
             /\ Remaining(o)[Before(p, o) + 1] = wide[p]
             /\ p - Cardinality({q \in o : q < p}) = Before(p, o) + 1
  <2>1. Before(p, o) \in 0 .. c - 1
    <3>1. Cardinality(Below(K, p)) \in 0 .. Cardinality(K) - 1
      BY <1>2, RankBound
    <3> QED BY <3>1, <1>5 DEF c
  <2>2. \A q \in K : Before(q, o) = Before(p, o) => q = p
    <3> SUFFICES ASSUME NEW q \in K, Before(q, o) = Before(p, o), q # p PROVE FALSE
      OBVIOUS
    <3>0. p \in Int /\ q \in Int
      BY <1>2
    <3>3. Cardinality(Below(K, p)) = Cardinality(Below(K, q)) /\ Cardinality(Below(K, p)) \in Int
      BY <1>2, <1>5, <2>1
    <3>1. CASE p < q
      <4>1. Cardinality(Below(K, p)) < Cardinality(Below(K, q))
        BY <1>2, <3>0, <3>1, RankGrows
      <4> QED BY <3>3, <4>1
    <3>2. CASE q < p
      <4>1. Cardinality(Below(K, q)) < Cardinality(Below(K, p))
        BY <1>2, <3>0, <3>2, RankGrows
      <4> QED BY <3>3, <4>1
    <3> QED BY <3>0, <3>1, <3>2
  <2>3. (CHOOSE q \in K : Before(q, o) = (Before(p, o) + 1) - 1) = p
    <3>1. (Before(p, o) + 1) - 1 = Before(p, o)
      BY <1>2, <2>1
    <3> QED BY <2>2, <3>1
  <2>4. Before(p, o) + 1 \in 1 .. c
    BY <1>2, <2>1
  <2>5. Remaining(o)[Before(p, o) + 1] = wide[p]
    BY <2>3, <2>4 DEF Remaining, K, c
  <2>6. p - 1 = Cardinality(Below(o, p)) + Cardinality(Below(K, p))
    <3>1. o \in SUBSET (1 .. n) /\ p \in 1 .. n
      BY <1>1
    <3>2. p - 1 = Cardinality(Below(o, p)) + Cardinality(Below((1 .. n) \ o, p))
      BY <1>1, <3>1, RankSum
    <3> QED BY <3>2, <1>1
  <2>7. Cardinality(Below(o, p)) \in Nat
    BY <1>3, BelowFinite
  <2>8. Cardinality(Below(K, p)) \in Nat
    BY <1>2, BelowFinite
  <2>9. {q \in o : q < p} = Below(o, p)
    BY DEF Below
  <2>10. p \in Int
    BY <1>2
  <2>11. p - Cardinality(Below(o, p)) = Before(p, o) + 1
    BY <1>5, <2>6, <2>7, <2>8, <2>10
  <2> QED BY <2>4, <2>5, <2>9, <2>11
<1>7. \A i \in 1 .. c : Remaining(o)[i] \in Nat \ {0}
  <2> SUFFICES ASSUME NEW i \in 1 .. c PROVE Remaining(o)[i] \in Nat \ {0}
    OBVIOUS
  <2>1. \E p \in K : Before(p, o) = i - 1
    BY <1>2, <1>5, RankOnto DEF c
  <2>2. PICK p \in K : p = CHOOSE q \in K : Before(q, o) = i - 1
    BY <2>1
  <2>3. Remaining(o)[i] = wide[p]
    BY <2>2 DEF Remaining, K, c
  <2>4. p \in DOMAIN wide
    BY DEF K, Kept
  <2> QED BY <2>3, <2>4
<1>8. Remaining(o) \in Seq(Nat \ {0}) /\ Len(Remaining(o)) = c
  <2>1. Remaining(o) \in [1 .. c -> Nat \ {0}]
    BY <1>7 DEF Remaining, K, c
  <2> QED BY <1>2, <2>1
<1>9. \A p \in 1 .. n : p \notin o => p \in K
  BY <1>1
<1> QED BY <1>2, <1>4, <1>6, <1>8, <1>9 DEF n, K, c
-----------------------------------------------------------------------------
(* The edges *)

Points == [null : Nat, line : Nat, ring : Nat]

LEMMA Joined ==
  ASSUME NEW S, NEW s \in Seq(S), NEW t \in Seq(S)
  PROVE  /\ s \o t \in Seq(S) /\ Len(s \o t) = Len(s) + Len(t)
         /\ Len(s) \in Nat /\ Len(t) \in Nat
         /\ \A i \in 1 .. Len(s) : (s \o t)[i] = s[i]
         /\ \A i \in 1 .. Len(t) : (s \o t)[Len(s) + i] = t[i]
<1>1. s \o t \in Seq(S) /\ Len(s \o t) = Len(s) + Len(t) /\ Len(s) \in Nat /\ Len(t) \in Nat
  OBVIOUS
<1>2. \A i \in 1 .. Len(s) : (s \o t)[i] = s[i]
  OBVIOUS
<1>3. \A i \in 1 .. Len(t) : (s \o t)[Len(s) + i] = t[i]
  OBVIOUS
<1> QED BY <1>1, <1>2, <1>3

LEMMA EdgeKept ==
  ASSUME separatrices \in Seq(Points), separatrices' \in Seq(Points),
         Len(separatrices) <= Len(separatrices)',
         \A i \in 1 .. Len(separatrices) : separatrices'[i] = separatrices[i],
         NEW e, EdgeRight(e)
  PROVE  EdgeRight(e)'
<1>1. e.a \in 1 .. Len(separatrices)' /\ e.b \in 1 .. Len(separatrices)'
  BY DEF EdgeRight
<1>2. Pt(e.a)' = Pt(e.a) /\ Pt(e.b)' = Pt(e.b)
  BY DEF EdgeRight, Pt
<1> QED BY <1>1, <1>2 DEF EdgeRight

LEMMA EdgesKept ==
  ASSUME TypeOK, TypeOK', EdgesRight, NEW new,
         connectivity' = connectivity \cup new,
         Len(separatrices) <= Len(separatrices)',
         \A i \in 1 .. Len(separatrices) : separatrices'[i] = separatrices[i],
         \A e \in new : EdgeRight(e)'
  PROVE  EdgesRight'
<1>1. \A e \in connectivity : EdgeRight(e)'
  BY EdgeKept DEF TypeOK, EdgesRight, Points
<1> QED BY <1>1 DEF EdgesRight

LEMMA Initially == Init => SeparatricesInv
<1> SUFFICES ASSUME Init PROVE SeparatricesInv
  OBVIOUS
<1>1. TypeOK
  BY DEF Init, TypeOK
<1>2. RingsInPlace /\ ConnFollows /\ EdgesRight
  BY DEF Init, RingsInPlace, ConnFollows, EdgesRight
<1> QED BY <1>1, <1>2 DEF SeparatricesInv

LEMMA SkipNullKeeps == SeparatricesInv /\ SkipNull => SeparatricesInv'
<1> SUFFICES ASSUME SeparatricesInv, SkipNull PROVE SeparatricesInv'
  OBVIOUS
<1> USE DEF SeparatricesInv, SkipNull, work
<1>1. Point(0, 0) \in Points
  BY DEF Point, TypeOK, Points
<1>2. TypeOK'
  BY <1>1 DEF TypeOK, Points
<1>3. EdgesRight'
  <2>1. Len(separatrices') = Len(separatrices) + 1
        /\ \A i \in 1 .. Len(separatrices) : separatrices'[i] = separatrices[i]
    BY DEF TypeOK
  <2>2. connectivity' = connectivity \cup {} /\ Len(separatrices) \in Nat
    BY DEF TypeOK
  <2> QED BY <1>2, <2>1, <2>2, EdgesKept, SMTT(20)
<1>4. RingsInPlace' /\ ConnFollows'
  BY DEF RingsInPlace, ConnFollows
<1> QED BY <1>2, <1>3, <1>4

LEMMA FirstRingKeeps == SeparatricesInv /\ FirstRing => SeparatricesInv'
<1> SUFFICES ASSUME SeparatricesInv, FirstRing PROVE SeparatricesInv'
  OBVIOUS
<1> DEFINE first == [i \in 1 .. RingDensity |-> lines + i]
           added == [i \in 1 .. RingDensity |-> Point(first[i], 0)]
<1>a. PICK all \in Nat : all = Len(separatrices)
  BY DEF SeparatricesInv, TypeOK
<1>0. RingDensity \in Nat \ {0} /\ lines \in Nat /\ null \in Nat /\ all \in Nat
  BY RingAssumption DEF SeparatricesInv, TypeOK
<1>1. /\ null' = null + 1 /\ iteration' = 0 /\ pc' = "grow" /\ ring' = first
      /\ lines' = lines + RingDensity
      /\ separatrices' = Append(separatrices, Point(0, 0)) \o added
      /\ connectivity' = connectivity \cup FirstEdges(all + 1)
      /\ ring_old' = ring_old /\ wide' = wide /\ conn' = conn
  BY <1>a DEF FirstRing
<1>2. first \in Seq(Nat \ {0}) /\ Len(first) = RingDensity
  <2>1. first \in [1 .. RingDensity -> Nat \ {0}]
    BY <1>0
  <2> QED BY <1>0, <2>1
<1>3. added \in Seq(Points) /\ Len(added) = RingDensity
      /\ \A i \in 1 .. RingDensity : added[i] = [null |-> null + 1, line |-> lines + i, ring |-> 0]
  <2>1. \A i \in 1 .. RingDensity : added[i] = [null |-> null + 1, line |-> lines + i, ring |-> 0]
    BY <1>1 DEF Point
  <2>2. \A i \in 1 .. RingDensity : added[i] \in Points
    <3>1. \A i \in 1 .. RingDensity : [null |-> null + 1, line |-> lines + i, ring |-> 0] \in Points
      BY <1>0 DEF Points
    <3> QED BY <2>1, <3>1
  <2>3. added \in [1 .. RingDensity -> Points]
    BY <2>2
  <2> HIDE DEF added
  <2>4. added \in Seq(Points) /\ Len(added) = RingDensity
    BY <1>0, <2>3
  <2> QED BY <2>1, <2>4
<1>4. Point(0, 0) \in Points /\ Point(0, 0) = [null |-> null + 1, line |-> 0, ring |-> 0]
  BY <1>0, <1>1 DEF Point, Points
<1> HIDE DEF added, first
<1>5. /\ separatrices' \in Seq(Points) /\ Len(separatrices') = all + 1 + RingDensity
      /\ \A i \in 1 .. all : separatrices'[i] = separatrices[i]
      /\ separatrices'[all + 1] = Point(0, 0)
      /\ \A i \in 1 .. RingDensity : separatrices'[all + 1 + i] = added[i]
  <2> DEFINE head == Append(separatrices, Point(0, 0))
  <2>1. /\ head \in Seq(Points) /\ Len(head) = all + 1 /\ head[all + 1] = Point(0, 0)
        /\ \A i \in 1 .. all : head[i] = separatrices[i]
    BY <1>4, <1>a DEF SeparatricesInv, TypeOK, Points
  <2> HIDE DEF head
  <2>2. /\ head \o added \in Seq(Points) /\ Len(head \o added) = all + 1 + RingDensity
        /\ \A i \in 1 .. all + 1 : (head \o added)[i] = head[i]
        /\ \A i \in 1 .. RingDensity : (head \o added)[all + 1 + i] = added[i]
    <3>1. /\ head \o added \in Seq(Points) /\ Len(head \o added) = Len(head) + Len(added)
          /\ \A i \in 1 .. Len(head) : (head \o added)[i] = head[i]
          /\ \A i \in 1 .. Len(added) : (head \o added)[Len(head) + i] = added[i]
      <4>1. head \in Seq(Points) /\ added \in Seq(Points)
        BY <1>3, <2>1
      <4> QED BY <4>1, Joined
    <3> QED BY <1>3, <2>1, <3>1
  <2>3. separatrices' = head \o added
    BY <1>1 DEF head
  <2> QED BY <1>0, <2>1, <2>2, <2>3
<1>6. TypeOK'
  BY <1>0, <1>1, <1>2, <1>5 DEF SeparatricesInv, TypeOK, Points
<1>7. RingsInPlace'
  <2>1. Listed(ring, iteration, all + 1)'
    <3>1. \A i \in 1 .. RingDensity : first[i] = lines + i
      BY DEF first
    <3>2. \A i \in 1 .. RingDensity :
            separatrices'[all + 1 + i] = [null |-> null', line |-> first[i], ring |-> 0]
      BY <1>1, <1>3, <1>5, <3>1
    <3>3. all + 1 \in Nat /\ all + 1 + RingDensity <= Len(separatrices')
      BY <1>0, <1>5
    <3>4. Len(ring') = RingDensity /\ ring' = first /\ iteration' = 0
      BY <1>1, <1>2
    <3> QED BY <3>2, <3>3, <3>4 DEF Listed, Pt
  <2>2. (Len(separatrices) - Len(ring))' = all + 1
    BY <1>0, <1>1, <1>2, <1>5
  <2>3. Listed(ring, iteration, Len(separatrices) - Len(ring))'
    BY <2>1, <2>2
  <2>4. pc' = "grow"
    BY <1>1
  <2> QED BY <2>3, <2>4 DEF RingsInPlace
<1>8. ConnFollows'
  BY <1>1 DEF ConnFollows
<1>9. \A e \in FirstEdges(all + 1) : EdgeRight(e)'
  <2> SUFFICES ASSUME NEW e \in FirstEdges(all + 1) PROVE EdgeRight(e)'
    OBVIOUS
  <2>1. CASE \E i \in 1 .. RingDensity : e = [kind |-> "null", a |-> all + 1, b |-> all + 1 + i]
    <3>1. PICK i \in 1 .. RingDensity : e = [kind |-> "null", a |-> all + 1, b |-> all + 1 + i]
      BY <2>1
    <3>2. Pt(e.a)' = [null |-> null + 1, line |-> 0, ring |-> 0]
      BY <1>4, <1>5, <3>1 DEF Pt
    <3>3. Pt(e.b)' = [null |-> null + 1, line |-> lines + i, ring |-> 0]
      BY <1>3, <1>5, <3>1 DEF Pt
    <3>4. lines + i # 0 /\ all + 1 \in 1 .. Len(separatrices)' /\ all + 1 + i \in 1 .. Len(separatrices)'
      BY <1>0, <1>5
    <3> QED BY <3>1, <3>2, <3>3, <3>4 DEF EdgeRight
  <2>2. CASE \E i, j \in 1 .. RingDensity : e = [kind |-> "ring", a |-> all + 1 + i, b |-> all + 1 + j]
    <3>1. PICK i \in 1 .. RingDensity, j \in 1 .. RingDensity :
            e = [kind |-> "ring", a |-> all + 1 + i, b |-> all + 1 + j]
      BY <2>2
    <3>2. Pt(e.a)' = [null |-> null + 1, line |-> lines + i, ring |-> 0]
      BY <1>3, <1>5, <3>1 DEF Pt
    <3>3. Pt(e.b)' = [null |-> null + 1, line |-> lines + j, ring |-> 0]
      BY <1>3, <1>5, <3>1 DEF Pt
    <3>4. /\ lines + i # 0 /\ lines + j # 0
          /\ all + 1 + i \in 1 .. Len(separatrices)' /\ all + 1 + j \in 1 .. Len(separatrices)'
      BY <1>0, <1>5
    <3> QED BY <3>1, <3>2, <3>3, <3>4 DEF EdgeRight
  <2>3. \/ \E i \in 1 .. RingDensity : e = [kind |-> "null", a |-> all + 1, b |-> all + 1 + i]
        \/ \E i \in 1 .. RingDensity - 1 :
             e = [kind |-> "ring", a |-> all + 1 + i, b |-> all + 1 + i + 1]
        \/ e = [kind |-> "ring", a |-> all + 1 + 1, b |-> all + 1 + RingDensity]
    BY DEF FirstEdges, Edges
  <2>4. ASSUME NEW i \in 1 .. RingDensity - 1,
               e = [kind |-> "ring", a |-> all + 1 + i, b |-> all + 1 + i + 1]
        PROVE  \E k, j \in 1 .. RingDensity : e = [kind |-> "ring", a |-> all + 1 + k, b |-> all + 1 + j]
    <3>1. i \in 1 .. RingDensity /\ i + 1 \in 1 .. RingDensity /\ all + 1 + i + 1 = all + 1 + (i + 1)
      BY <1>0
    <3> QED BY <2>4, <3>1
  <2>5. 1 \in 1 .. RingDensity /\ RingDensity \in 1 .. RingDensity
    BY <1>0
  <2> QED BY <2>1, <2>2, <2>3, <2>4, <2>5
<1>10. EdgesRight'
  <2>1. all <= Len(separatrices)'
    BY <1>0, <1>5
  <2> QED BY <1>a, <1>1, <1>5, <1>6, <1>9, <2>1, EdgesKept DEF SeparatricesInv
<1> QED BY <1>6, <1>7, <1>8, <1>10 DEF SeparatricesInv

LEMMA NoNewPoints ==
  ASSUME SeparatricesInv, UNCHANGED separatrices, UNCHANGED connectivity
  PROVE  EdgesRight'
<1>1. \A e : EdgeRight(e) => EdgeRight(e)'
  BY DEF EdgeRight, Pt
<1> QED BY <1>1 DEF SeparatricesInv, EdgesRight

LEMMA StopIteratingKeeps == SeparatricesInv /\ StopIterating => SeparatricesInv'
<1> SUFFICES ASSUME SeparatricesInv, StopIterating PROVE SeparatricesInv'
  OBVIOUS
<1>1. TypeOK'
  BY DEF SeparatricesInv, TypeOK, StopIterating, work, results
<1>2. EdgesRight'
  BY NoNewPoints DEF StopIterating, results
<1>3. RingsInPlace' /\ ConnFollows'
  BY DEF StopIterating, RingsInPlace, ConnFollows
<1> QED BY <1>1, <1>2, <1>3 DEF SeparatricesInv

LEMMA GrowKeeps == SeparatricesInv /\ Grow => SeparatricesInv'
<1> SUFFICES ASSUME SeparatricesInv, Grow PROVE SeparatricesInv'
  OBVIOUS
<1>1. PICK ins \in SUBSET Gaps :
        conn' = Shifted(ins) /\ wide' = Widened(ins) /\ lines' = lines + Len(ring) + Cardinality(ins)
  BY DEF Grow
<1>2. /\ pc = "grow" /\ pc' = "remove" /\ ring_old' = ring /\ null' = null /\ iteration' = iteration
      /\ separatrices' = separatrices /\ connectivity' = connectivity /\ ring' = ring
  BY DEF Grow, results
<1>3. ring \in Seq(Nat \ {0}) /\ lines \in Nat
  BY DEF SeparatricesInv, TypeOK
<1>4. ins \in SUBSET (1 .. Len(ring))
  BY DEF Gaps
<1>5. /\ Cardinality(ins) \in Nat
      /\ Widened(ins) \in Seq(Nat \ {0})
      /\ Len(Widened(ins)) = Len(ring) + Cardinality(ins)
      /\ \A i \in 1 .. Len(ring) :
           /\ Moved(i, ins) \in 1 .. Len(Widened(ins))
           /\ Widened(ins)[Moved(i, ins)] = ring[i]
  BY <1>3, <1>4, WidenedRing
<1>6. /\ conn' \in Seq(Nat) /\ Len(conn') = Len(ring)
      /\ \A i \in 1 .. Len(ring) : conn'[i] = Moved(i, ins)
  <2>0. Len(ring) \in Nat
    BY <1>3
  <2>1. \A i \in 1 .. Len(ring) : Moved(i, ins) \in Nat
    BY <1>5
  <2>2. conn' \in [1 .. Len(ring) -> Nat]
    BY <1>1, <2>1 DEF Shifted
  <2>3. conn' \in Seq(Nat) /\ Len(conn') = Len(ring)
    BY <2>0, <2>2
  <2> QED BY <1>1, <2>3 DEF Shifted
<1>7. TypeOK'
  <2>1. lines' \in Nat
    BY <1>1, <1>3, <1>5
  <2> QED BY <1>1, <1>2, <1>5, <1>6, <2>1 DEF SeparatricesInv, TypeOK
<1>8. EdgesRight'
  BY <1>2, NoNewPoints
<1>9. RingsInPlace'
  <2>1. Listed(ring, iteration, Len(separatrices) - Len(ring))
    BY <1>2 DEF SeparatricesInv, RingsInPlace
  <2>2. Listed(ring_old, iteration, Len(separatrices) - Len(ring_old))'
    BY <1>2, <2>1 DEF Listed, Pt
  <2> QED BY <1>2, <2>2 DEF RingsInPlace
<1>10. ConnFollows'
  <2>1. \A i \in 1 .. Len(ring_old') : conn'[i] \in DOMAIN wide' /\ wide'[conn'[i]] = ring_old'[i]
    BY <1>1, <1>2, <1>5, <1>6
  <2>2. Len(conn') = Len(ring_old')
    BY <1>2, <1>6
  <2> QED BY <1>2, <2>1, <2>2 DEF ConnFollows
<1> QED BY <1>7, <1>8, <1>9, <1>10 DEF SeparatricesInv

LEMMA RemoveKeeps == SeparatricesInv /\ Remove => SeparatricesInv'
<1> SUFFICES ASSUME SeparatricesInv, Remove PROVE SeparatricesInv'
  OBVIOUS
<1>a. PICK all \in Nat : all = Len(separatrices)
  BY DEF SeparatricesInv, TypeOK
<1>1. PICK o \in SUBSET DOMAIN wide :
        /\ ring' = Remaining(o)
        /\ separatrices' = separatrices
             \o [i \in 1 .. Cardinality(Kept(o)) |->
                   [null |-> null, line |-> Remaining(o)[i], ring |-> iteration + 1]]
        /\ conn' = Left(o)
        /\ pc' = IF Kept(o) = {} THEN "null" ELSE "connect"
  BY DEF Remove
<1>2. /\ pc = "remove" /\ null' = null /\ iteration' = iteration /\ lines' = lines
      /\ connectivity' = connectivity /\ ring_old' = ring_old /\ wide' = wide
  BY DEF Remove
<1>3. /\ wide \in Seq(Nat \ {0}) /\ null \in Nat /\ iteration \in Nat /\ ring_old \in Seq(Nat \ {0})
      /\ separatrices \in Seq(Points) /\ conn \in Seq(Nat)
  BY DEF SeparatricesInv, TypeOK, Points
<1> DEFINE c == Cardinality(Kept(o))
           added == [i \in 1 .. c |-> [null |-> null, line |-> Remaining(o)[i], ring |-> iteration + 1]]
           shift(p) == Cardinality({q \in o : q < p})
<1>4. /\ c \in Nat /\ (Kept(o) # {} => c > 0)
      /\ Remaining(o) \in Seq(Nat \ {0}) /\ Len(Remaining(o)) = c
      /\ \A p \in 1 .. Len(wide) : p \notin o =>
           p - shift(p) \in 1 .. c /\ Remaining(o)[p - shift(p)] = wide[p]
  BY <1>3, RemainingRing
<1>b. separatrices' = separatrices \o added
  BY <1>1
<1>5. added \in Seq(Points) /\ Len(added) = c
      /\ \A i \in 1 .. c : added[i] = [null |-> null, line |-> Remaining(o)[i], ring |-> iteration + 1]
  <2>1. \A i \in 1 .. c : added[i] = [null |-> null, line |-> Remaining(o)[i], ring |-> iteration + 1]
    OBVIOUS
  <2>2. \A i \in 1 .. c : added[i] \in Points
    <3>1. \A i \in 1 .. c : Remaining(o)[i] \in Nat
      BY <1>4
    <3> QED BY <1>3, <2>1, <3>1 DEF Points
  <2>3. added \in [1 .. c -> Points]
    BY <2>2
  <2> HIDE DEF added
  <2>4. added \in Seq(Points) /\ Len(added) = c
    BY <1>4, <2>3
  <2> QED BY <2>1, <2>4
<1> HIDE DEF added, c
<1>6. /\ separatrices' \in Seq(Points) /\ Len(separatrices') = all + c
      /\ \A i \in 1 .. all : separatrices'[i] = separatrices[i]
      /\ \A i \in 1 .. c : separatrices'[all + i] = added[i]
  BY <1>a, <1>b, <1>3, <1>5, Joined
<1>c. Len(ring') = c /\ c \in Nat
  BY <1>1, <1>4
<1>7. /\ conn' \in Seq(Nat) /\ Len(conn') = Len(ring_old)
      /\ \A i \in 1 .. Len(ring_old) :
           conn'[i] >= 1 => conn'[i] \in 1 .. c /\ Remaining(o)[conn'[i]] = ring_old[i]
  <2>1. Len(conn) = Len(ring_old) /\ Len(ring_old) \in Nat /\ DOMAIN conn = 1 .. Len(ring_old)
        /\ \A i \in 1 .. Len(ring_old) : conn[i] \in 1 .. Len(wide) /\ wide[conn[i]] = ring_old[i]
    BY <1>2, <1>3, SMTT(20) DEF SeparatricesInv, ConnFollows
  <2>2. \A i \in 1 .. Len(ring_old) :
          /\ conn'[i] \in Nat
          /\ conn'[i] >= 1 => conn'[i] \in 1 .. c /\ Remaining(o)[conn'[i]] = ring_old[i]
    <3> SUFFICES ASSUME NEW i \in 1 .. Len(ring_old)
                 PROVE  /\ conn'[i] \in Nat
                        /\ conn'[i] >= 1 => conn'[i] \in 1 .. c /\ Remaining(o)[conn'[i]] = ring_old[i]
      OBVIOUS
    <3>1. CASE conn[i] \in o
      <4>1. conn'[i] = 0
        BY <1>1, <2>1, <3>1 DEF Left
      <4> QED BY <4>1
    <3>2. CASE conn[i] \notin o
      <4>1. conn'[i] = conn[i] - shift(conn[i])
        BY <1>1, <2>1, <3>2 DEF Left
      <4> HIDE DEF shift
      <4>2. conn[i] - shift(conn[i]) \in 1 .. c /\ Remaining(o)[conn[i] - shift(conn[i])] = wide[conn[i]]
        BY <1>4, <2>1, <3>2
      <4> QED BY <1>4, <2>1, <4>1, <4>2
    <3> QED BY <3>1, <3>2
  <2>3. conn' \in [1 .. Len(ring_old) -> Nat]
    BY <1>1, <2>1, <2>2 DEF Left
  <2>4. conn' \in Seq(Nat) /\ Len(conn') = Len(ring_old)
    BY <2>1, <2>3
  <2> QED BY <2>2, <2>4
<1>8. TypeOK'
  BY <1>1, <1>2, <1>3, <1>4, <1>6, <1>7 DEF SeparatricesInv, TypeOK, Points
<1>9. EdgesRight'
  <2>1. connectivity' = connectivity \cup {} /\ all <= Len(separatrices)'
    BY <1>2, <1>4, <1>6
  <2>2. TypeOK /\ EdgesRight /\ Len(separatrices) <= Len(separatrices)'
    BY <1>a, <2>1 DEF SeparatricesInv
  <2>3. \A i \in 1 .. Len(separatrices) : separatrices'[i] = separatrices[i]
    BY <1>a, <1>6
  <2>4. \A e \in {} : EdgeRight(e)'
    OBVIOUS
  <2> QED BY <1>8, <2>1, <2>2, <2>3, <2>4, EdgesKept
<1>10. RingsInPlace'
  <2>1. Listed(ring, iteration + 1, all)'
    <3>1. \A i \in 1 .. c :
            separatrices'[all + i] = [null |-> null', line |-> ring'[i], ring |-> iteration' + 1]
      BY <1>1, <1>2, <1>5, <1>6
    <3>2. Len(ring') = c /\ all + c <= Len(separatrices')
      BY <1>c, <1>6
    <3> QED BY <3>1, <3>2 DEF Listed, Pt
  <2>2. (Len(separatrices) - Len(ring))' = all
    BY <1>c, <1>6
  <2>3. PICK k \in Nat : k = Len(ring_old)
    BY <1>3
  <2>4. Listed(ring_old, iteration, all - k)
    BY <1>a, <1>2, <2>3 DEF SeparatricesInv, RingsInPlace
  <2>5. Listed(ring_old, iteration, all - k)'
    <3>1. /\ all - k \in Nat /\ all - k + k <= all
          /\ \A i \in 1 .. k :
               separatrices[all - k + i] = [null |-> null, line |-> ring_old[i], ring |-> iteration]
      BY <1>a, <2>3, <2>4 DEF Listed, Pt
    <3>2. \A i \in 1 .. k : all - k + i \in 1 .. all
      BY <2>3, <3>1
    <3>3. \A i \in 1 .. k :
            separatrices'[all - k + i] = [null |-> null', line |-> ring_old'[i], ring |-> iteration']
      BY <1>2, <1>6, <3>1, <3>2
    <3>4. all - k + k <= Len(separatrices')
      BY <1>4, <1>6, <3>1
    <3> QED BY <1>2, <2>3, <3>1, <3>3, <3>4 DEF Listed, Pt
  <2>6. (Len(separatrices) - Len(ring) - Len(ring_old))' = all - k
    BY <1>2, <2>2, <2>3
  <2>7. pc' = "connect" => Len(ring') >= 1
    BY <1>1, <1>4
  <2> QED BY <1>1, <2>1, <2>2, <2>5, <2>6, <2>7 DEF RingsInPlace
<1>11. ConnFollows'
  BY <1>1, <1>2, <1>4, <1>7 DEF ConnFollows
<1> QED BY <1>8, <1>9, <1>10, <1>11 DEF SeparatricesInv

LEMMA ConnectKeeps == SeparatricesInv /\ Connect => SeparatricesInv'
<1> SUFFICES ASSUME SeparatricesInv, Connect PROVE SeparatricesInv'
  OBVIOUS
<1> DEFINE new == Edges("ring", RingEdges) \cup Edges("closing", ClosingEdge) \cup Edges("line", LineEdges)
<1>1. /\ pc = "connect" /\ pc' = "grow" /\ iteration' = iteration + 1
      /\ connectivity' = connectivity \cup new
      /\ null' = null /\ lines' = lines /\ separatrices' = separatrices
      /\ ring' = ring /\ ring_old' = ring_old /\ wide' = wide /\ conn' = conn
  BY DEF Connect, work
<1>2. PICK all \in Nat, n \in Nat, old \in Nat :
        all = Len(separatrices) /\ n = Len(ring) /\ old = Len(ring_old)
  BY DEF SeparatricesInv, TypeOK
<1>3. /\ null \in Nat /\ iteration \in Nat /\ n >= 1 /\ ring \in Seq(Nat \ {0}) /\ ring_old \in Seq(Nat \ {0})
      /\ conn \in Seq(Nat) /\ Len(conn) = old
  BY <1>1, <1>2 DEF SeparatricesInv, TypeOK, RingsInPlace, ConnFollows
<1>4. /\ all - n \in Nat
      /\ \A i \in 1 .. n : Pt(all - n + i) = [null |-> null, line |-> ring[i], ring |-> iteration + 1]
  BY <1>1, <1>2 DEF SeparatricesInv, RingsInPlace, Listed
<1>5. /\ all - n - old \in Nat
      /\ \A i \in 1 .. old :
           Pt(all - n - old + i) = [null |-> null, line |-> ring_old[i], ring |-> iteration]
  BY <1>1, <1>2 DEF SeparatricesInv, RingsInPlace, Listed
<1>6. \A i \in 1 .. old : conn[i] \in Nat /\ (conn[i] >= 1 => conn[i] \in 1 .. n /\ ring[conn[i]] = ring_old[i])
  BY <1>1, <1>2, <1>3 DEF SeparatricesInv, ConnFollows
<1>7. ASSUME NEW e, NEW i \in 1 .. n, NEW j \in 1 .. n, e.kind \in {"ring", "closing"},
             e.a = all - n + i, e.b = all - n + j
      PROVE  EdgeRight(e)
  <2>1. Pt(e.a) = [null |-> null, line |-> ring[i], ring |-> iteration + 1]
    BY <1>4, <1>7
  <2>2. Pt(e.b) = [null |-> null, line |-> ring[j], ring |-> iteration + 1]
    BY <1>4, <1>7
  <2>3. e.a \in 1 .. Len(separatrices) /\ e.b \in 1 .. Len(separatrices)
    BY <1>2, <1>4, <1>7
  <2>4. ring[i] # 0 /\ ring[j] # 0
    BY <1>2, <1>3
  <2> QED BY <1>7, <2>1, <2>2, <2>3, <2>4, SMTT(20) DEF EdgeRight
<1>8. ASSUME NEW e \in Edges("ring", RingEdges) PROVE EdgeRight(e)
  <2>0. PICK pair \in RingEdges : e = [kind |-> "ring", a |-> pair[1], b |-> pair[2]]
    BY DEF Edges
  <2>1. PICK p \in 1 .. n - 1 : e = [kind |-> "ring", a |-> all - n + p, b |-> all - n + p + 1]
    <3>1. PICK p \in (1 .. Len(ring) - 1) \ not_next :
            pair = <<Len(separatrices) - Len(ring) + p, Len(separatrices) - Len(ring) + p + 1>>
      BY <2>0 DEF RingEdges
    <3>2. e = [kind |-> "ring", a |-> all - n + p, b |-> all - n + p + 1] /\ p \in 1 .. n - 1
      BY <1>2, <2>0, <3>1
    <3> QED BY <3>2
  <2>2. p \in 1 .. n /\ p + 1 \in 1 .. n /\ all - n + p + 1 = all - n + (p + 1)
    BY <1>2, <1>4
  <2> QED BY <1>7, <2>1, <2>2
<1>9. ASSUME NEW e \in Edges("closing", ClosingEdge) PROVE EdgeRight(e)
  <2>1. e = [kind |-> "closing", a |-> all - n + 1, b |-> all - n + n]
    BY <1>2 DEF Edges, ClosingEdge
  <2>2. 1 \in 1 .. n /\ n \in 1 .. n
    BY <1>2, <1>3
  <2> QED BY <1>7, <2>1, <2>2
<1>10. ASSUME NEW e \in Edges("line", LineEdges) PROVE EdgeRight(e)
  <2>1. PICK i \in 1 .. old : /\ conn[i] >= 1
                              /\ e = [kind |-> "line", a |-> i + all - old - n, b |-> conn[i] + all - n]
    BY <1>2 DEF Edges, LineEdges
  <2>2. conn[i] \in 1 .. n /\ ring[conn[i]] = ring_old[i]
    BY <1>6, <2>1
  <2>3. /\ i + all - old - n = all - n - old + i /\ conn[i] + all - n = all - n + conn[i]
        /\ i + all - old - n \in 1 .. all /\ conn[i] + all - n \in 1 .. all
    BY <1>2, <1>4, <1>5, <2>2
  <2>4. Pt(e.a) = [null |-> null, line |-> ring_old[i], ring |-> iteration]
    BY <1>5, <2>1, <2>3
  <2>5. Pt(e.b) = [null |-> null, line |-> ring_old[i], ring |-> iteration + 1]
    BY <1>4, <2>1, <2>2, <2>3
  <2> QED BY <1>2, <2>1, <2>3, <2>4, <2>5 DEF EdgeRight
<1>11. TypeOK'
  BY <1>1 DEF SeparatricesInv, TypeOK
<1>12. EdgesRight'
  <2>1. \A e \in new : EdgeRight(e)
    BY <1>8, <1>9, <1>10
  <2>2. \A e \in connectivity' : EdgeRight(e)
    BY <1>1, <2>1 DEF SeparatricesInv, EdgesRight
  <2>3. \A e : EdgeRight(e) => EdgeRight(e)'
    BY <1>1 DEF EdgeRight, Pt
  <2> QED BY <2>2, <2>3 DEF EdgesRight
<1>13. RingsInPlace' /\ ConnFollows'
  <2>1. Listed(ring, iteration + 1, Len(separatrices) - Len(ring))
    BY <1>1 DEF SeparatricesInv, RingsInPlace
  <2>2. Listed(ring, iteration, Len(separatrices) - Len(ring))'
    BY <1>1, <2>1 DEF Listed, Pt
  <2> QED BY <1>1, <2>2 DEF RingsInPlace, ConnFollows
<1> QED BY <1>11, <1>12, <1>13 DEF SeparatricesInv

\* Whatever the field, the nulls and the bounds: the edges find_separatrices returns join
\* points of its list, as the kind of the edge says, also after points have been put into
\* a ring and removed from it (field_skeleton.py:705-773).
THEOREM EdgesStayRight == Spec => []SeparatricesInv
<1>1. SeparatricesInv /\ UNCHANGED vars => SeparatricesInv'
  <2> SUFFICES ASSUME SeparatricesInv, UNCHANGED vars PROVE SeparatricesInv'
    OBVIOUS
  <2>1. TypeOK'
    BY DEF vars, input, results, work, SeparatricesInv, TypeOK
  <2>2. RingsInPlace'
    BY DEF vars, input, results, work, SeparatricesInv, RingsInPlace, Listed, Pt
  <2>3. ConnFollows'
    BY DEF vars, input, results, work, SeparatricesInv, ConnFollows
  <2>4. EdgesRight'
    BY DEF vars, input, results, work, SeparatricesInv, EdgesRight, EdgeRight, Pt
  <2> QED
    BY <2>1, <2>2, <2>3, <2>4 DEF SeparatricesInv
<1>2. SeparatricesInv /\ [Next]_vars => SeparatricesInv'
  BY <1>1, SkipNullKeeps, FirstRingKeeps, StopIteratingKeeps, GrowKeeps, RemoveKeeps, ConnectKeeps
     DEF Next
<1> QED BY Initially, <1>2, PTL DEF Spec
-----------------------------------------------------------------------------
(***************************************************************************)
(* No edge is missing: of two points on one field line, in rings that      *)
(* follow each other, the second is where connectivity_rings says.         *)
(***************************************************************************)
Distinct(r) == \A i, j \in 1 .. Len(r) : r[i] = r[j] => i = j
KnownIn(r)  == \A i \in 1 .. Len(r) : r[i] <= lines

\* The first o points of the list that lie on a line of r are of rings before k.
OlderOnLine(r, k, o) ==
  \A i \in 1 .. o, j \in 1 .. Len(r) : Pt(i).line = r[j] => Pt(i).ring < k

\* Of the first o points, those on one line in rings that follow each other are joined.
CompleteTo(o) ==
  \A i, j \in 1 .. o :
    Pt(i).line = Pt(j).line /\ Pt(i).line # 0 /\ Pt(j).ring = Pt(i).ring + 1 =>
      [kind |-> "line", a |-> i, b |-> j] \in connectivity

\* A line number is given once, and a ring has a line once.
LinesOnce ==
  LET n == Len(ring)  old == Len(ring_old)  all == Len(separatrices)
  IN /\ \A i \in 1 .. all : Pt(i).line <= lines
     /\ pc = "grow"    => Distinct(ring) /\ KnownIn(ring) /\ OlderOnLine(ring, iteration, all - n)
     /\ pc = "remove"  => Distinct(wide) /\ KnownIn(wide) /\ OlderOnLine(wide, iteration, all - old)
     /\ pc = "connect" => Distinct(ring) /\ KnownIn(ring)
                          /\ OlderOnLine(ring, iteration, all - n - old)

\* A point without a successor has none in the ring, and so far no edge goes to the ring.
NothingMissed ==
  LET n == Len(ring)  old == Len(ring_old)  all == Len(separatrices)
  IN /\ pc # "connect" => CompleteTo(all)
     /\ pc = "connect" =>
          /\ CompleteTo(all - n)
          /\ \A i \in 1 .. old, j \in 1 .. n : conn[i] = 0 => ring[j] # ring_old[i]
          /\ \A e \in connectivity : e.b <= all - n

\* not_connect_to_next has the places of the new ring behind which points were removed.
GapsMarked ==
  pc = "connect" =>
    \A i \in 1 .. Len(ring) - 1 :
      i \notin not_next <=> \E p \in Neighbours(i) : p + 1 \in Neighbours(i + 1)

LinesInv == LinesOnce /\ NothingMissed /\ GapsMarked /\ NoEdgeOverGap

\* A line of the widened ring is one of the ring, or new.
LEMMA WidenedLines ==
  ASSUME ring \in Seq(Nat \ {0}), lines \in Nat, Distinct(ring), KnownIn(ring),
         NEW ins \in SUBSET (1 .. Len(ring))
  PROVE  /\ Distinct(Widened(ins))
         /\ \A p \in 1 .. Len(Widened(ins)) :
              /\ Widened(ins)[p] <= lines + Len(ring) + Cardinality(ins)
              /\ (\E i \in 1 .. Len(ring) : Widened(ins)[p] = ring[i]) \/ Widened(ins)[p] > lines
<1> DEFINE W == Widened(ins)
<1>1. PICK n \in Nat, c \in Nat : n = Len(ring) /\ c = Cardinality(ins) /\ Len(W) = n + c
  BY WidenedRing
<1>2. \A i \in 1 .. n : W[Moved(i, ins)] = ring[i]
  BY <1>1, WidenedRing
<1>3. ASSUME NEW p \in 1 .. n + c
      PROVE  (\E i \in 1 .. n : Moved(i, ins) = p /\ W[p] = ring[i]) \/ W[p] = lines + p
  BY <1>1, <1>2 DEF Widened
<1>4. \A i \in 1 .. n : ring[i] \in Nat /\ ring[i] <= lines
  BY <1>1 DEF KnownIn
<1>5. \A i, j \in 1 .. n : ring[i] = ring[j] => i = j
  BY <1>1 DEF Distinct
<1> HIDE DEF W
<1>6. ASSUME NEW p \in 1 .. n + c, NEW q \in 1 .. n + c, W[p] = W[q] PROVE p = q
  <2>1. CASE W[p] = lines + p /\ W[q] = lines + q
    <3>1. lines + p = lines + q
      BY <1>6, <2>1
    <3>2. p \in Int /\ q \in Int
      OBVIOUS
    <3> QED BY <3>1, <3>2
  <2>2. ASSUME NEW i \in 1 .. n, Moved(i, ins) = p, W[p] = ring[i] PROVE p = q
    <3>1. W[q] # lines + q
      BY <1>4, <1>6, <2>2
    <3>2. PICK j \in 1 .. n : Moved(j, ins) = q /\ W[q] = ring[j]
      BY <1>3, <3>1
    <3>3. i = j
      BY <1>5, <1>6, <2>2, <3>2
    <3> QED BY <2>2, <3>2, <3>3
  <2>3. ASSUME NEW i \in 1 .. n, Moved(i, ins) = q, W[q] = ring[i] PROVE p = q
    <3>1. W[p] # lines + p
      BY <1>4, <1>6, <2>3
    <3>2. PICK j \in 1 .. n : Moved(j, ins) = p /\ W[p] = ring[j]
      BY <1>3, <3>1
    <3>3. i = j
      BY <1>5, <1>6, <2>3, <3>2
    <3> QED BY <2>3, <3>2, <3>3
  <2> QED BY <1>3, <2>1, <2>2, <2>3
<1>7. Distinct(W)
  BY <1>1, <1>6 DEF Distinct
<1>8. ASSUME NEW p \in 1 .. n + c
      PROVE  W[p] <= lines + n + c /\ ((\E i \in 1 .. n : W[p] = ring[i]) \/ W[p] > lines)
  <2>1. CASE W[p] = lines + p
    BY <2>1
  <2>2. ASSUME NEW i \in 1 .. n, W[p] = ring[i] PROVE W[p] <= lines + n + c
    BY <1>4, <2>2
  <2> QED BY <1>3, <2>1, <2>2
<1> QED BY <1>1, <1>7, <1>8 DEF W

LEMMA RemainingFrom ==
  ASSUME wide \in Seq(Nat \ {0}), NEW o \in SUBSET DOMAIN wide,
         NEW i \in 1 .. Len(Remaining(o))
  PROVE  \E p \in Kept(o) : Before(p, o) = i - 1 /\ Remaining(o)[i] = wide[p]
<1>1. /\ Len(wide) \in Nat /\ DOMAIN wide = 1 .. Len(wide) /\ Kept(o) \in SUBSET (1 .. Len(wide))
  BY DEF Kept
<1>2. IsFiniteSet(Kept(o)) /\ Kept(o) \in SUBSET Int
  BY <1>1, PartOfInterval
<1>3. i \in 1 .. Cardinality(Kept(o))
  BY RemainingRing
<1>4. \E p \in Kept(o) : Cardinality(Below(Kept(o), p)) = i - 1
  BY <1>2, <1>3, RankOnto
<1>5. \E p \in Kept(o) : Before(p, o) = i - 1
  BY <1>4 DEF Before, Below
<1>6. PICK p \in Kept(o) : p = CHOOSE q \in Kept(o) : Before(q, o) = i - 1
  BY <1>5
<1>7. Before(p, o) = i - 1
  BY <1>5, <1>6
<1>8. Remaining(o)[i] = wide[p]
  BY <1>3, <1>6 DEF Remaining
<1> QED BY <1>7, <1>8

\* The lines of the points that are left: none twice, none of a point that is removed.
LEMMA RemainingLines ==
  ASSUME wide \in Seq(Nat \ {0}), Distinct(wide), NEW o \in SUBSET DOMAIN wide
  PROVE  /\ Distinct(Remaining(o))
         /\ \A i \in 1 .. Len(Remaining(o)) : \E p \in 1 .. Len(wide) : Remaining(o)[i] = wide[p]
         /\ \A p \in o, i \in 1 .. Len(Remaining(o)) : Remaining(o)[i] # wide[p]
<1>1. DOMAIN wide = 1 .. Len(wide) /\ Kept(o) = (1 .. Len(wide)) \ o
  BY DEF Kept
<1>2. \A p, q \in 1 .. Len(wide) : wide[p] = wide[q] => p = q
  BY DEF Distinct
<1>3. ASSUME NEW i \in 1 .. Len(Remaining(o)), NEW j \in 1 .. Len(Remaining(o)),
             Remaining(o)[i] = Remaining(o)[j]
      PROVE  i = j
  <2>1. PICK p \in Kept(o) : Before(p, o) = i - 1 /\ Remaining(o)[i] = wide[p]
    BY RemainingFrom
  <2>2. PICK q \in Kept(o) : Before(q, o) = j - 1 /\ Remaining(o)[j] = wide[q]
    BY RemainingFrom
  <2>3. p = q
    BY <1>1, <1>2, <1>3, <2>1, <2>2
  <2> QED BY <2>1, <2>2, <2>3
<1>4. \A i \in 1 .. Len(Remaining(o)) : \E p \in Kept(o) : Remaining(o)[i] = wide[p]
  BY RemainingFrom
<1> QED BY <1>1, <1>2, <1>3, <1>4 DEF Distinct

\* A place of the new ring is marked if and only if points were removed behind it.
LEMMA MarkedGap ==
  ASSUME wide \in Seq(Nat \ {0}), Distinct(wide), NEW o \in SUBSET DOMAIN wide,
         NEW i \in 1 .. Len(Remaining(o)) - 1
  PROVE  i \notin {Before(p, o) : p \in o}
           <=> \E p \in Kept(o) : /\ wide[p] = Remaining(o)[i]
                                  /\ p + 1 \in Kept(o) /\ wide[p + 1] = Remaining(o)[i + 1]
<1> DEFINE K == Kept(o)
           R == Remaining(o)
<1>0. Len(R) \in Nat /\ i \in 1 .. Len(R) /\ i + 1 \in 1 .. Len(R)
  BY RemainingRing
<1>1. /\ Len(wide) \in Nat /\ DOMAIN wide = 1 .. Len(wide) /\ K = (1 .. Len(wide)) \ o
  BY DEF Kept
<1>2. IsFiniteSet(K) /\ K \in SUBSET Int
  <2>1. K \in SUBSET (1 .. Len(wide))
    BY <1>1
  <2> QED BY <1>1, <2>1, PartOfInterval
<1>3. \A p : Before(p, o) = Cardinality(Below(K, p)) /\ Before(p, o) \in Nat
  <2>1. \A p : Before(p, o) = Cardinality(Below(K, p))
    BY DEF Before, Below
  <2> HIDE DEF K
  <2> QED BY <1>2, <2>1, BelowFinite
<1>4. PICK a \in K : Before(a, o) = i - 1 /\ R[i] = wide[a]
  BY <1>0, RemainingFrom
<1>5. PICK b \in K : Before(b, o) = (i + 1) - 1 /\ R[i + 1] = wide[b]
  BY <1>0, RemainingFrom
<1>6. \A p, q \in 1 .. Len(wide) : wide[p] = wide[q] => p = q
  BY DEF Distinct
<1> HIDE DEF K, R
<1>7. \A p \in K, q \in Int : p < q => Before(p, o) < Before(q, o)
  <2> SUFFICES ASSUME NEW p \in K, NEW q \in Int, p < q PROVE Before(p, o) < Before(q, o)
    OBVIOUS
  <2>1. Cardinality(Below(K, p)) < Cardinality(Below(K, q))
    BY <1>2, RankGrows
  <2> QED BY <1>3, <2>1
<1>8. \A p, q \in Int : p <= q => Before(p, o) <= Before(q, o)
  <2> SUFFICES ASSUME NEW p \in Int, NEW q \in Int, p <= q PROVE Before(p, o) <= Before(q, o)
    OBVIOUS
  <2>1. Cardinality(Below(K, p)) <= Cardinality(Below(K, q))
    BY <1>2, RankGrowsWeakly
  <2> QED BY <1>3, <2>1
<1>9. /\ a \in 1 .. Len(wide) /\ b \in 1 .. Len(wide) /\ a \in Int /\ b \in Int
      /\ a + 1 \in Int /\ i \in Int
  BY <1>0, <1>1
<1>10. a < b
  <2>1. ~(b <= a)
    BY <1>3, <1>4, <1>5, <1>8, <1>9
  <2> QED BY <1>9, <2>1
<1>11. a + 1 <= b /\ a < a + 1 /\ a + 1 \in 1 .. Len(wide)
  BY <1>1, <1>9, <1>10
<1>12. Before(a + 1, o) = i
  <2>1. Before(a, o) < Before(a + 1, o)
    BY <1>7, <1>9, <1>11
  <2>2. Before(a + 1, o) <= Before(b, o)
    BY <1>8, <1>9, <1>11
  <2>3. Before(a, o) = i - 1 /\ Before(b, o) = i /\ Before(a + 1, o) \in Nat
    BY <1>3, <1>4, <1>5, <1>9
  <2> QED BY <1>9, <2>1, <2>2, <2>3
<1>13. ASSUME i \notin {Before(p, o) : p \in o}
       PROVE  a + 1 \in K /\ wide[a + 1] = R[i + 1]
  <2>1. a + 1 \notin o
    BY <1>12, <1>13
  <2>2. a + 1 \in K
    BY <1>1, <1>11, <2>1
  <2>3. ~(a + 1 < b)
    <3>1. a + 1 < b => Before(a + 1, o) < Before(b, o)
      BY <1>7, <1>9, <2>2
    <3>2. Before(b, o) = i
      BY <1>5, <1>9
    <3> QED BY <1>9, <1>12, <3>1, <3>2
  <2>4. a + 1 = b
    BY <1>9, <1>11, <2>3
  <2> QED BY <1>5, <2>2, <2>4
<1>14. ASSUME NEW p \in K, wide[p] = R[i], p + 1 \in K, wide[p + 1] = R[i + 1],
              NEW q \in o, i = Before(q, o)
       PROVE  FALSE
  <2>1. p = a /\ p + 1 = b
    BY <1>1, <1>4, <1>5, <1>6, <1>14
  <2>2. q \in Int /\ q # a /\ q # b
    BY <1>1, <1>9
  <2>3. ~(q <= a)
    BY <1>4, <1>8, <1>9, <1>14, <2>2
  <2>4. ~(b < q)
    <3>1. b < q => Before(b, o) < Before(q, o)
      BY <1>7, <2>2
    <3>2. Before(b, o) = i
      BY <1>5, <1>9
    <3> QED BY <1>9, <1>14, <3>1, <3>2
  <2> QED BY <1>9, <2>1, <2>2, <2>3, <2>4
<1> QED BY <1>4, <1>13, <1>14 DEF K, R

LEMMA Longer ==
  ASSUME NEW s \in Seq(Points), NEW c \in Nat, NEW t \in [1 .. c -> Points]
  PROVE  /\ Len(s) \in Nat /\ s \o t \in Seq(Points) /\ Len(s \o t) = Len(s) + c
         /\ \A i \in 1 .. Len(s) : (s \o t)[i] = s[i]
         /\ \A i \in 1 .. c : (s \o t)[Len(s) + i] = t[i]
<1>1. t \in Seq(Points) /\ Len(t) = c
  OBVIOUS
<1>2. Len(s) \in Nat /\ s \o t \in Seq(Points) /\ Len(s \o t) = Len(s) + c
  BY <1>1
<1>3. \A i \in 1 .. Len(s) : (s \o t)[i] = s[i]
  BY <1>1
<1>4. \A i \in 1 .. c : (s \o t)[Len(s) + i] = t[i]
  BY <1>1
<1> QED BY <1>2, <1>3, <1>4

LEMMA LinesInitially == Init => LinesInv
<1> SUFFICES ASSUME Init PROVE LinesInv
  OBVIOUS
<1>1. Len(separatrices) = 0 /\ pc = "null"
  BY DEF Init
<1>2. LinesOnce
  BY <1>1 DEF LinesOnce
<1>3. NothingMissed
  BY <1>1 DEF NothingMissed, CompleteTo
<1> QED BY <1>1, <1>2, <1>3 DEF LinesInv, GapsMarked, NoEdgeOverGap

\* What every step adds to the list lies behind what is there.
LEMMA SkipNullLines == SeparatricesInv /\ LinesInv /\ SkipNull => LinesInv'
<1> SUFFICES ASSUME SeparatricesInv, LinesInv, SkipNull PROVE LinesInv'
  OBVIOUS
<1>1. PICK all \in Nat : all = Len(separatrices)
  BY DEF SeparatricesInv, TypeOK
<1>2. /\ pc = "null" /\ pc' = "null" /\ lines' = lines /\ connectivity' = connectivity /\ lines \in Nat
      /\ separatrices' = Append(separatrices, Point(0, 0)) /\ separatrices \in Seq(Points)
  BY DEF SkipNull, SeparatricesInv, TypeOK, Points
<1>3. Point(0, 0).line = 0
  BY DEF Point
<1>4. Point(0, 0) \in Points
  BY DEF Point, SkipNull, SeparatricesInv, TypeOK, Points
<1>5. /\ Len(separatrices') = all + 1
      /\ \A i \in 1 .. all : Pt(i)' = Pt(i)
      /\ Pt(all + 1)' = Point(0, 0)
  BY <1>1, <1>2, <1>4 DEF Pt
<1>6. \A i \in 1 .. all + 1 : i \in 1 .. all \/ i = all + 1
  BY <1>1
<1>7. /\ \A i \in 1 .. all : Pt(i).line <= lines
      /\ CompleteTo(all)
  BY <1>1, <1>2 DEF LinesInv, LinesOnce, NothingMissed
<1>8. LinesOnce'
  <2>1. \A i \in 1 .. all + 1 : Pt(i)'.line <= lines
    BY <1>2, <1>3, <1>5, <1>6, <1>7
  <2> QED BY <1>2, <1>5, <2>1 DEF LinesOnce
<1>9. NothingMissed'
  <2>1. CompleteTo(all + 1)'
    <3> SUFFICES ASSUME NEW i \in 1 .. all + 1, NEW j \in 1 .. all + 1,
                        Pt(i)'.line = Pt(j)'.line, Pt(i)'.line # 0, Pt(j)'.ring = Pt(i)'.ring + 1
                 PROVE  [kind |-> "line", a |-> i, b |-> j] \in connectivity
      BY <1>2 DEF CompleteTo
    <3>1. i \in 1 .. all /\ j \in 1 .. all
      BY <1>3, <1>5, <1>6
    <3>2. Pt(i)' = Pt(i) /\ Pt(j)' = Pt(j)
      BY <1>5, <3>1
    <3> QED BY <1>7, <3>1, <3>2 DEF CompleteTo
  <2> QED BY <1>2, <1>5, <2>1 DEF NothingMissed
<1> QED BY <1>2, <1>8, <1>9 DEF LinesInv, GapsMarked, NoEdgeOverGap

\* The first ring is of lines that no point of the list has.
LEMMA FirstRingLines == SeparatricesInv /\ LinesInv /\ FirstRing => LinesInv'
<1> SUFFICES ASSUME SeparatricesInv, LinesInv, FirstRing PROVE LinesInv'
  OBVIOUS
<1> DEFINE first == [i \in 1 .. RingDensity |-> lines + i]
           added == [i \in 1 .. RingDensity |-> Point(first[i], 0)]
           head  == Append(separatrices, Point(0, 0))
<1>1. PICK all \in Nat, n \in Nat, l \in Nat : all = Len(separatrices) /\ n = RingDensity /\ l = lines
  BY RingAssumption DEF SeparatricesInv, TypeOK
<1>2. /\ pc = "null" /\ pc' = "grow" /\ lines' = l + n /\ iteration' = 0 /\ ring' = first
      /\ separatrices' = head \o added /\ separatrices \in Seq(Points) /\ null' \in Nat
      /\ connectivity \subseteq connectivity'
  BY <1>1 DEF FirstRing, SeparatricesInv, TypeOK, Points
<1>3. /\ first \in Seq(Nat \ {0}) /\ Len(first) = n /\ \A i \in 1 .. n : first[i] = l + i
  <2>1. first \in [1 .. n -> Nat \ {0}] /\ \A i \in 1 .. n : first[i] = l + i
    BY <1>1
  <2> HIDE DEF first
  <2> QED BY <1>1, <2>1
<1>4. /\ added \in [1 .. n -> Points]
      /\ \A i \in 1 .. n : added[i].line = l + i /\ added[i].ring = 0
  <2>1. \A i \in 1 .. n : added[i] = [null |-> null', line |-> l + i, ring |-> 0]
    BY <1>1, <1>3 DEF Point
  <2>2. \A i \in 1 .. n : added[i] \in Points
    <3>1. \A i \in 1 .. n : [null |-> null', line |-> l + i, ring |-> 0] \in Points
      BY <1>2 DEF Points
    <3> QED BY <2>1, <3>1
  <2>3. added \in [1 .. n -> Points]
    BY <1>1, <2>2
  <2> HIDE DEF added
  <2> QED BY <2>1, <2>3
<1>5. Point(0, 0).line = 0 /\ Point(0, 0) \in Points
  BY <1>2 DEF Point, Points
<1> HIDE DEF first, added
<1>6. /\ head \in Seq(Points) /\ Len(head) = all + 1 /\ head[all + 1] = Point(0, 0)
      /\ \A i \in 1 .. all : head[i] = separatrices[i]
  BY <1>1, <1>2, <1>5
<1> HIDE DEF head
<1>7. /\ Len(separatrices') = all + 1 + n
      /\ \A i \in 1 .. all : Pt(i)' = Pt(i)
      /\ Pt(all + 1)' = Point(0, 0)
      /\ \A i \in 1 .. n : Pt(all + 1 + i)' = added[i]
  <2>1. /\ Len(head \o added) = all + 1 + n
        /\ \A i \in 1 .. all + 1 : (head \o added)[i] = head[i]
        /\ \A i \in 1 .. n : (head \o added)[all + 1 + i] = added[i]
    <3>1. /\ Len(head \o added) = Len(head) + n
          /\ \A i \in 1 .. Len(head) : (head \o added)[i] = head[i]
          /\ \A i \in 1 .. n : (head \o added)[Len(head) + i] = added[i]
      BY <1>4, <1>6, Longer
    <3> QED BY <1>6, <3>1
  <2> QED BY <1>1, <1>2, <1>6, <2>1 DEF Pt
<1>8. /\ \A i \in 1 .. all : Pt(i).line <= l /\ Pt(i).line \in Nat /\ Pt(i).ring \in Nat
      /\ CompleteTo(all)
  <2>1. \A i \in 1 .. all : Pt(i) \in Points
    BY <1>1, <1>2 DEF Pt
  <2> QED BY <1>1, <1>2, <2>1 DEF LinesInv, LinesOnce, NothingMissed, Points
<1>9. ASSUME NEW i \in 1 .. all + 1 + n
      PROVE  \/ i \in 1 .. all
             \/ i = all + 1 /\ Pt(i)'.line = 0
             \/ i > all + 1 /\ Pt(i)'.line = l + (i - (all + 1)) /\ Pt(i)'.ring = 0
  <2>1. CASE i > all + 1
    <3>1. PICK k \in 1 .. n : i = all + 1 + k
      <4>1. i - (all + 1) \in 1 .. n /\ i = all + 1 + (i - (all + 1))
        BY <2>1
      <4> QED BY <4>1
    <3>2. k = i - (all + 1)
      BY <3>1
    <3> QED BY <1>4, <1>7, <2>1, <3>1, <3>2
  <2>2. CASE i = all + 1
    BY <1>5, <1>7, <2>2
  <2> QED BY <2>1, <2>2
<1>10. LinesOnce'
  <2>1. \A i \in 1 .. all + 1 + n : Pt(i)'.line <= l + n
    <3> SUFFICES ASSUME NEW i \in 1 .. all + 1 + n PROVE Pt(i)'.line <= l + n
      OBVIOUS
    <3>1. CASE i \in 1 .. all
      BY <1>7, <1>8, <3>1
    <3> QED BY <1>9, <3>1
  <2>2. Distinct(ring)' /\ KnownIn(ring)'
    <3>1. \A i, j \in 1 .. n : l + i = l + j => i = j
      OBVIOUS
    <3> QED BY <1>2, <1>3, <3>1 DEF Distinct, KnownIn
  <2>3. OlderOnLine(ring, iteration, all + 1)'
    <3>1. ASSUME NEW i \in 1 .. all + 1, NEW j \in 1 .. n PROVE Pt(i)'.line # l + j
      <4>1. CASE i \in 1 .. all
        BY <1>7, <1>8, <4>1
      <4>2. CASE i = all + 1
        BY <1>5, <1>7, <4>2
      <4> QED BY <4>1, <4>2
    <3> QED BY <1>2, <1>3, <3>1 DEF OlderOnLine
  <2>4. (Len(separatrices) - Len(ring))' = all + 1
    BY <1>2, <1>3, <1>7
  <2> QED BY <1>2, <1>7, <2>1, <2>2, <2>3, <2>4 DEF LinesOnce
<1>11. NothingMissed'
  <2>1. CompleteTo(all + 1 + n)'
    <3> SUFFICES ASSUME NEW i \in 1 .. all + 1 + n, NEW j \in 1 .. all + 1 + n,
                        Pt(i)'.line = Pt(j)'.line, Pt(i)'.line # 0, Pt(j)'.ring = Pt(i)'.ring + 1
                 PROVE  [kind |-> "line", a |-> i, b |-> j] \in connectivity'
      BY DEF CompleteTo
    <3>1. i \in 1 .. all /\ j \in 1 .. all
      <4>1. ~(i > all + 1 /\ j > all + 1)
        BY <1>9
      <4>2. ~(i > all + 1 /\ j \in 1 .. all)
        BY <1>7, <1>8, <1>9
      <4>3. ~(i \in 1 .. all /\ j > all + 1)
        <5> SUFFICES ASSUME i \in 1 .. all, j > all + 1 PROVE FALSE
          OBVIOUS
        <5>1. Pt(j)'.ring = 0
          BY <1>9
        <5>2. Pt(i)' = Pt(i) /\ Pt(i).ring \in Nat
          BY <1>7, <1>8
        <5> QED BY <5>1, <5>2
      <4>4. i # all + 1 /\ j # all + 1
        BY <1>9
      <4> QED BY <4>1, <4>2, <4>3, <4>4
    <3>2. Pt(i)' = Pt(i) /\ Pt(j)' = Pt(j)
      BY <1>7, <3>1
    <3> QED BY <1>2, <1>8, <3>1, <3>2 DEF CompleteTo
  <2> QED BY <1>2, <1>7, <2>1 DEF NothingMissed
<1> QED BY <1>2, <1>10, <1>11 DEF LinesInv, GapsMarked, NoEdgeOverGap

LEMMA StopIteratingLines == SeparatricesInv /\ LinesInv /\ StopIterating => LinesInv'
<1> SUFFICES ASSUME SeparatricesInv, LinesInv, StopIterating PROVE LinesInv'
  OBVIOUS
<1>1. /\ pc = "grow" /\ pc' = "null" /\ lines' = lines /\ connectivity' = connectivity
      /\ separatrices' = separatrices
  BY DEF StopIterating, results
<1>2. LinesOnce'
  BY <1>1 DEF LinesInv, LinesOnce, Pt
<1>3. CompleteTo(Len(separatrices)) /\ CompleteTo(Len(separatrices))'
  BY <1>1 DEF LinesInv, NothingMissed, CompleteTo, Pt
<1> QED BY <1>1, <1>2, <1>3 DEF LinesInv, NothingMissed, GapsMarked, NoEdgeOverGap

LEMMA GrowLines == SeparatricesInv /\ LinesInv /\ Grow => LinesInv'
<1> SUFFICES ASSUME SeparatricesInv, LinesInv, Grow PROVE LinesInv'
  OBVIOUS
<1>1. PICK ins \in SUBSET Gaps : wide' = Widened(ins) /\ lines' = lines + Len(ring) + Cardinality(ins)
  BY DEF Grow
<1>2. /\ pc = "grow" /\ pc' = "remove" /\ ring_old' = ring /\ iteration' = iteration
      /\ separatrices' = separatrices /\ connectivity' = connectivity
  BY DEF Grow, results
<1>3. ring \in Seq(Nat \ {0}) /\ ins \in SUBSET (1 .. Len(ring)) /\ separatrices \in Seq(Points)
  BY DEF SeparatricesInv, TypeOK, Gaps, Points
<1>4. PICK n \in Nat, l \in Nat, all \in Nat : n = Len(ring) /\ l = lines /\ all = Len(separatrices)
  <2>1. Len(ring) \in Nat /\ Len(separatrices) \in Nat /\ lines \in Nat
    BY <1>3 DEF SeparatricesInv, TypeOK
  <2> QED BY <2>1
<1>5. PICK c \in Nat : c = Cardinality(ins)
  BY <1>3, WidenedRing, <1>4
<1>6. /\ \A i \in 1 .. all : Pt(i).line <= l /\ Pt(i).line \in Nat
      /\ CompleteTo(all)
      /\ Distinct(ring) /\ KnownIn(ring) /\ OlderOnLine(ring, iteration, all - n)
  <2>1. \A i \in 1 .. all : Pt(i).line \in Nat
    <3>1. \A i \in 1 .. all : Pt(i) \in Points
      BY <1>3, <1>4 DEF Pt
    <3> QED BY <3>1 DEF Points
  <2> QED BY <1>2, <1>4, <2>1 DEF LinesInv, LinesOnce, NothingMissed
<1>7. Distinct(wide')
  BY <1>1, <1>3, <1>4, <1>6, WidenedLines
<1>8. \A p \in 1 .. Len(wide') : /\ wide'[p] <= l + n + c
                                 /\ (\E i \in 1 .. n : wide'[p] = ring[i]) \/ wide'[p] > l
  BY <1>1, <1>3, <1>4, <1>5, <1>6, WidenedLines
<1>9. lines' = l + n + c
  BY <1>1, <1>4, <1>5
<1>10. LinesOnce'
  <2>1. \A i \in 1 .. Len(separatrices') : Pt(i)'.line <= lines'
    BY <1>2, <1>4, <1>6, <1>9 DEF Pt
  <2>2. Distinct(wide)' /\ KnownIn(wide)'
    BY <1>7, <1>8, <1>9 DEF Distinct, KnownIn
  <2>3. OlderOnLine(wide, iteration, all - n)'
    <3> SUFFICES ASSUME NEW i \in 1 .. all - n, NEW j \in 1 .. Len(wide'), Pt(i)'.line = wide'[j]
                 PROVE  Pt(i)'.ring < iteration
      BY <1>2 DEF OlderOnLine
    <3>1. Pt(i)' = Pt(i) /\ i \in 1 .. all
      BY <1>2, <1>4 DEF Pt
    <3>2. ~(wide'[j] > l)
      BY <1>6, <3>1
    <3>3. PICK k \in 1 .. n : wide'[j] = ring[k]
      BY <1>8, <3>2
    <3> QED BY <1>4, <1>6, <3>1, <3>3 DEF OlderOnLine
  <2>4. (Len(separatrices) - Len(ring_old))' = all - n
    BY <1>2, <1>4
  <2> QED BY <1>2, <2>1, <2>2, <2>3, <2>4 DEF LinesOnce
<1>11. NothingMissed'
  <2>1. CompleteTo(all)'
    BY <1>2, <1>6 DEF CompleteTo, Pt
  <2>2. Len(separatrices)' = all
    BY <1>2, <1>4
  <2> QED BY <1>2, <2>1, <2>2 DEF NothingMissed
<1> QED BY <1>2, <1>10, <1>11 DEF LinesInv, GapsMarked, NoEdgeOverGap

LEMMA RemoveLines == SeparatricesInv /\ LinesInv /\ Remove => LinesInv'
<1> SUFFICES ASSUME SeparatricesInv, LinesInv, Remove PROVE LinesInv'
  OBVIOUS
<1>1. PICK o \in SUBSET DOMAIN wide :
        /\ out' = o
        /\ ring' = Remaining(o)
        /\ separatrices' = separatrices
             \o [i \in 1 .. Cardinality(Kept(o)) |->
                   [null |-> null, line |-> Remaining(o)[i], ring |-> iteration + 1]]
        /\ not_next' = {Before(p, o) : p \in o}
        /\ conn' = Left(o)
        /\ pc' = IF Kept(o) = {} THEN "null" ELSE "connect"
  BY DEF Remove
<1>2. /\ pc = "remove" /\ null' = null /\ iteration' = iteration /\ lines' = lines
      /\ connectivity' = connectivity /\ ring_old' = ring_old /\ wide' = wide
  BY DEF Remove
<1>3. /\ wide \in Seq(Nat \ {0}) /\ null \in Nat /\ iteration \in Nat
      /\ separatrices \in Seq(Points) /\ conn \in Seq(Nat)
  BY DEF SeparatricesInv, TypeOK, Points
<1>4. PICK all \in Nat, old \in Nat, c \in Nat :
        all = Len(separatrices) /\ old = Len(ring_old) /\ c = Len(Remaining(o))
  <2>1. Len(separatrices) \in Nat /\ Len(ring_old) \in Nat
    BY DEF SeparatricesInv, TypeOK
  <2>2. Len(Remaining(o)) \in Nat
    BY <1>3, RemainingRing
  <2> QED BY <2>1, <2>2
<1>5. /\ c = Cardinality(Kept(o)) /\ Remaining(o) \in Seq(Nat \ {0})
      /\ \A p \in 1 .. Len(wide) : p \notin o => p - Cardinality({q \in o : q < p}) \in 1 .. c
  BY <1>3, <1>4, RemainingRing
<1> DEFINE R == Remaining(o)
           added == [i \in 1 .. c |-> [null |-> null, line |-> R[i], ring |-> iteration + 1]]
<1>6. /\ \A i \in 1 .. all : Pt(i).line <= lines
      /\ CompleteTo(all)
      /\ Distinct(wide) /\ KnownIn(wide) /\ OlderOnLine(wide, iteration, all - old)
  BY <1>2, <1>4 DEF LinesInv, LinesOnce, NothingMissed
<1>7. /\ Distinct(R)
      /\ \A i \in 1 .. c : \E p \in 1 .. Len(wide) : R[i] = wide[p]
      /\ \A p \in o, i \in 1 .. c : R[i] # wide[p]
  BY <1>3, <1>4, <1>6, RemainingLines
<1>8. \A i \in 1 .. c - 1 :
        i \notin not_next' <=> \E p \in Kept(o) : /\ wide[p] = R[i]
                                                  /\ p + 1 \in Kept(o) /\ wide[p + 1] = R[i + 1]
  BY <1>1, <1>3, <1>4, <1>6, MarkedGap
<1>9. separatrices' = separatrices \o added
  BY <1>1, <1>5
<1>10. R \in Seq(Nat \ {0}) /\ Len(R) = c
  BY <1>4, <1>5
<1> HIDE DEF R
<1>11. added \in [1 .. c -> Points] /\ \A i \in 1 .. c : added[i].line = R[i]
  <2>1. \A i \in 1 .. c : R[i] \in Nat
    BY <1>10
  <2>2. \A i \in 1 .. c : [null |-> null, line |-> R[i], ring |-> iteration + 1] \in Points
    BY <1>3, <2>1 DEF Points
  <2> QED BY <2>2
<1> HIDE DEF added
<1>12. /\ Len(separatrices') = all + c
       /\ \A i \in 1 .. all : Pt(i)' = Pt(i)
       /\ \A i \in 1 .. c : Pt(all + i)' = added[i]
  <2>1. /\ Len(separatrices \o added) = Len(separatrices) + c
        /\ \A i \in 1 .. Len(separatrices) : (separatrices \o added)[i] = separatrices[i]
        /\ \A i \in 1 .. c : (separatrices \o added)[Len(separatrices) + i] = added[i]
    BY <1>3, <1>11, Longer
  <2> QED BY <1>4, <1>9, <2>1 DEF Pt
<1>13. Len(ring') = c /\ ring' = R
  BY <1>1, <1>10 DEF R
<1>14. pc' # "connect" => c = 0
  BY <1>1, <1>5, FS_EmptySet
<1>15. \A i \in 1 .. c : R[i] <= lines
  BY <1>6, <1>7 DEF KnownIn
<1>16. LinesOnce'
  <2>1. \A i \in 1 .. all + c : Pt(i)'.line <= lines
    <3> SUFFICES ASSUME NEW i \in 1 .. all + c PROVE Pt(i)'.line <= lines
      OBVIOUS
    <3>1. CASE i \in 1 .. all
      BY <1>6, <1>12, <3>1
    <3>2. CASE i \notin 1 .. all
      <4>1. PICK k \in 1 .. c : i = all + k
        <5>1. i - all \in 1 .. c /\ i = all + (i - all)
          BY <3>2
        <5> QED BY <5>1
      <4> QED BY <1>11, <1>12, <1>15, <4>1
    <3> QED BY <3>1, <3>2
  <2>2. Distinct(ring)' /\ KnownIn(ring)'
    BY <1>2, <1>7, <1>10, <1>13, <1>15 DEF Distinct, KnownIn
  <2>3. OlderOnLine(ring, iteration, all - old)'
    <3> SUFFICES ASSUME NEW i \in 1 .. all - old, NEW j \in 1 .. c, Pt(i)'.line = R[j]
                 PROVE  Pt(i)'.ring < iteration
      BY <1>2, <1>13 DEF OlderOnLine
    <3>1. Pt(i)' = Pt(i)
      BY <1>12
    <3>2. PICK p \in 1 .. Len(wide) : R[j] = wide[p]
      BY <1>7
    <3> QED BY <1>6, <3>1, <3>2 DEF OlderOnLine
  <2>4. (Len(separatrices) - Len(ring) - Len(ring_old))' = all - old
    BY <1>2, <1>4, <1>12, <1>13
  <2>5. pc' \in {"null", "connect"}
    BY <1>1
  <2> QED BY <1>2, <1>12, <2>1, <2>2, <2>3, <2>4, <2>5 DEF LinesOnce
<1>17. NothingMissed'
  <2>1. CompleteTo(all)'
    BY <1>2, <1>6, <1>12 DEF CompleteTo
  <2>2. (Len(separatrices) - Len(ring))' = all
    BY <1>12, <1>13
  <2>3. ASSUME NEW i \in 1 .. old, NEW j \in 1 .. c, conn'[i] = 0 PROVE R[j] # ring_old[i]
    <3>1. DOMAIN conn = 1 .. old /\ conn[i] \in 1 .. Len(wide) /\ wide[conn[i]] = ring_old[i]
      BY <1>2, <1>3, <1>4 DEF SeparatricesInv, ConnFollows
    <3>2. conn[i] \in o
      <4>1. conn[i] \notin o => conn'[i] = conn[i] - Cardinality({q \in o : q < conn[i]})
        BY <1>1, <3>1 DEF Left
      <4>2. conn[i] \notin o => conn[i] - Cardinality({q \in o : q < conn[i]}) \in 1 .. c
        BY <1>5, <3>1
      <4>3. 0 \notin 1 .. c
        OBVIOUS
      <4> QED BY <2>3, <4>1, <4>2, <4>3
    <3> QED BY <1>7, <3>1, <3>2
  <2>4. \A e \in connectivity' : e.b <= all
    BY <1>2, <1>4 DEF SeparatricesInv, EdgesRight, EdgeRight
  <2>5. pc' # "connect" => Len(separatrices') = all
    BY <1>12, <1>14
  <2>6. \A i \in 1 .. Len(ring_old'), j \in 1 .. Len(ring') : conn'[i] = 0 => ring'[j] # ring_old'[i]
    BY <1>2, <1>4, <1>13, <2>3
  <2> QED BY <2>1, <2>2, <2>4, <2>5, <2>6 DEF NothingMissed
<1>18. GapsMarked'
  <2>1. \A i : Neighbours(i)' = {p \in Kept(o) : wide[p] = R[i]}
    BY <1>1, <1>2, <1>13 DEF Neighbours, Kept
  <2>2. \A i \in 1 .. c - 1 :
          i \notin not_next' <=> \E p \in Neighbours(i)' : p + 1 \in Neighbours(i + 1)'
    BY <1>8, <2>1
  <2> QED BY <1>13, <2>2 DEF GapsMarked
<1>19. pc' # "grow"
  BY <1>1
<1> QED BY <1>16, <1>17, <1>18, <1>19 DEF LinesInv, NoEdgeOverGap

LEMMA ConnectLines == SeparatricesInv /\ LinesInv /\ Connect => LinesInv'
<1> SUFFICES ASSUME SeparatricesInv, LinesInv, Connect PROVE LinesInv'
  OBVIOUS
<1> DEFINE new == Edges("ring", RingEdges) \cup Edges("closing", ClosingEdge) \cup Edges("line", LineEdges)
<1>1. /\ pc = "connect" /\ pc' = "grow" /\ iteration' = iteration + 1 /\ iteration \in Nat
      /\ connectivity' = connectivity \cup new
      /\ lines' = lines /\ separatrices' = separatrices
      /\ ring' = ring /\ ring_old' = ring_old /\ wide' = wide /\ conn' = conn
      /\ not_next' = not_next /\ out' = out
  BY DEF Connect, work, SeparatricesInv, TypeOK
<1>2. PICK all \in Nat, n \in Nat, old \in Nat :
        all = Len(separatrices) /\ n = Len(ring) /\ old = Len(ring_old)
  BY DEF SeparatricesInv, TypeOK
<1>3. /\ all - n \in Nat
      /\ \A i \in 1 .. n : Pt(all - n + i).line = ring[i] /\ Pt(all - n + i).ring = iteration + 1
  <2>1. all - n \in Nat /\ \A i \in 1 .. n :
          Pt(all - n + i) = [null |-> null, line |-> ring[i], ring |-> iteration + 1]
    BY <1>1, <1>2 DEF SeparatricesInv, RingsInPlace, Listed
  <2>2. ASSUME NEW i \in 1 .. n
        PROVE  Pt(all - n + i).line = ring[i] /\ Pt(all - n + i).ring = iteration + 1
    <3>1. Pt(all - n + i) = [null |-> null, line |-> ring[i], ring |-> iteration + 1]
      BY <2>1
    <3> QED BY <3>1
  <2> QED BY <2>1, <2>2
<1>4. /\ all - n - old \in Nat
      /\ \A i \in 1 .. old :
           Pt(all - n - old + i).line = ring_old[i] /\ Pt(all - n - old + i).ring = iteration
  <2>1. all - n - old \in Nat /\ \A i \in 1 .. old :
          Pt(all - n - old + i) = [null |-> null, line |-> ring_old[i], ring |-> iteration]
    BY <1>1, <1>2 DEF SeparatricesInv, RingsInPlace, Listed
  <2>2. ASSUME NEW i \in 1 .. old
        PROVE  Pt(all - n - old + i).line = ring_old[i] /\ Pt(all - n - old + i).ring = iteration
    <3>1. Pt(all - n - old + i) = [null |-> null, line |-> ring_old[i], ring |-> iteration]
      BY <2>1
    <3> QED BY <3>1
  <2> QED BY <2>1, <2>2
<1>5. \A i \in 1 .. old : conn[i] \in Nat /\ (conn[i] >= 1 => conn[i] \in 1 .. n /\ ring[conn[i]] = ring_old[i])
  BY <1>1, <1>2 DEF SeparatricesInv, TypeOK, ConnFollows
<1>r. \A i \in 1 .. all : Pt(i).ring \in Nat
  <2>1. \A i \in 1 .. all : Pt(i) \in Points
    <3>1. separatrices \in Seq(Points)
      BY DEF SeparatricesInv, TypeOK, Points
    <3> QED BY <1>2, <3>1 DEF Pt
  <2> QED BY <2>1 DEF Points
<1>6. /\ \A i \in 1 .. all : Pt(i).line <= lines
      /\ \A i, j \in 1 .. n : ring[i] = ring[j] => i = j
      /\ \A i \in 1 .. n : ring[i] <= lines
      /\ \A i \in 1 .. all - n - old, j \in 1 .. n : Pt(i).line = ring[j] => Pt(i).ring < iteration
  BY <1>1, <1>2 DEF LinesInv, LinesOnce, Distinct, KnownIn, OlderOnLine
<1>7. /\ CompleteTo(all - n)
      /\ \A i \in 1 .. old, j \in 1 .. n : conn[i] = 0 => ring[j] # ring_old[i]
      /\ \A e \in connectivity : e.b <= all - n
  BY <1>1, <1>2 DEF LinesInv, NothingMissed
<1>8. ASSUME NEW i \in 1 .. all
      PROVE  \/ i \in 1 .. all - n - old
             \/ \E k \in 1 .. old : i = all - n - old + k
             \/ \E k \in 1 .. n : i = all - n + k
  <2>1. CASE i > all - n
    <3>1. i - (all - n) \in 1 .. n /\ i = all - n + (i - (all - n))
      BY <1>3, <2>1
    <3> QED BY <3>1
  <2>2. CASE i <= all - n /\ i > all - n - old
    <3>1. i - (all - n - old) \in 1 .. old /\ i = all - n - old + (i - (all - n - old))
      BY <1>3, <1>4, <2>2
    <3> QED BY <3>1
  <2> QED BY <1>3, <1>4, <2>1, <2>2
<1>9. ASSUME NEW i \in 1 .. all - n, NEW j \in 1 .. n, Pt(i).line = ring[j]
      PROVE  Pt(i).ring < iteration + 1
  <2>1. i \in 1 .. all /\ i <= all - n
    BY <1>3
  <2>2. CASE i \in 1 .. all - n - old
    <3>1. Pt(i).ring < iteration
      BY <1>6, <1>9, <2>2
    <3>2. Pt(i).ring \in Nat
      BY <1>r, <2>1
    <3> QED BY <1>1, <3>1, <3>2
  <2>3. ASSUME NEW k \in 1 .. old, i = all - n - old + k PROVE Pt(i).ring < iteration + 1
    <3>1. Pt(i).ring = iteration
      BY <1>4, <2>3
    <3> QED BY <1>1, <3>1
  <2>4. ~\E k \in 1 .. n : i = all - n + k
    BY <1>3, <2>1
  <2> QED BY <1>8, <2>1, <2>2, <2>3, <2>4
<1>10. LinesOnce'
  <2>1. \A i \in 1 .. Len(separatrices') : Pt(i)'.line <= lines'
    BY <1>1, <1>2, <1>6 DEF Pt
  <2>2. Distinct(ring)' /\ KnownIn(ring)'
    BY <1>1, <1>2, <1>6 DEF Distinct, KnownIn
  <2>3. OlderOnLine(ring, iteration, all - n)'
    BY <1>1, <1>2, <1>9 DEF OlderOnLine, Pt
  <2>4. (Len(separatrices) - Len(ring))' = all - n
    BY <1>1, <1>2
  <2> QED BY <1>1, <2>1, <2>2, <2>3, <2>4 DEF LinesOnce
<1>11. ASSUME NEW i \in 1 .. all, NEW j \in 1 .. all,
              Pt(i).line = Pt(j).line, Pt(i).line # 0, Pt(j).ring = Pt(i).ring + 1
       PROVE  [kind |-> "line", a |-> i, b |-> j] \in connectivity'
  <2>1. Pt(i).ring \in Nat /\ Pt(j).ring \in Nat
    BY <1>r
  <2>2. \A k \in 1 .. all : k \in 1 .. all - n \/ \E m \in 1 .. n : k = all - n + m
    <3> SUFFICES ASSUME NEW k \in 1 .. all, k \notin 1 .. all - n
                 PROVE  \E m \in 1 .. n : k = all - n + m
      OBVIOUS
    <3>1. k - (all - n) \in 1 .. n /\ k = all - n + (k - (all - n))
      BY <1>3
    <3> QED BY <3>1
  <2>3. CASE i \in 1 .. all - n /\ j \in 1 .. all - n
    BY <1>1, <1>7, <1>11, <2>3 DEF CompleteTo
  <2>4. ASSUME NEW m \in 1 .. n, i = all - n + m PROVE FALSE
    <3>1. Pt(j).ring = iteration + 2 /\ Pt(j).line = ring[m]
      BY <1>1, <1>3, <1>11, <2>4
    <3>2. CASE j \in 1 .. all - n
      <4>1. Pt(j).ring < iteration + 1
        BY <1>9, <3>1, <3>2
      <4> QED BY <1>1, <3>1, <4>1
    <3>3. ASSUME NEW k \in 1 .. n, j = all - n + k PROVE FALSE
      <4>1. Pt(j).ring = iteration + 1
        BY <1>3, <3>3
      <4> QED BY <1>1, <3>1, <4>1
    <3> QED BY <2>2, <3>2, <3>3
  <2>5. ASSUME NEW m \in 1 .. n, j = all - n + m, i \in 1 .. all - n
        PROVE  [kind |-> "line", a |-> i, b |-> j] \in connectivity'
    <3>1. Pt(i).ring = iteration /\ Pt(i).line = ring[m]
      BY <1>1, <1>3, <1>11, <2>1, <2>5
    <3>2. i \notin 1 .. all - n - old
      BY <1>1, <1>6, <3>1
    <3>3. ~\E k \in 1 .. n : i = all - n + k
      BY <1>3, <2>5
    <3>4. PICK k \in 1 .. old : i = all - n - old + k
      BY <1>8, <3>2, <3>3
    <3>5. ring_old[k] = ring[m]
      BY <1>4, <3>1, <3>4
    <3>6. conn[k] >= 1 /\ conn[k] \in Nat
      BY <1>5, <1>7, <3>5
    <3>7. conn[k] = m
      BY <1>5, <1>6, <3>5, <3>6
    <3>8. <<k + all - old - n, conn[k] + all - n>> \in LineEdges
      BY <1>2, <3>6 DEF LineEdges
    <3>9. k + all - old - n = i /\ conn[k] + all - n = j
      BY <1>3, <1>4, <2>5, <3>4, <3>7
    <3>10. <<i, j>> \in LineEdges
      BY <3>8, <3>9
    <3>11. [kind |-> "line", a |-> <<i, j>>[1], b |-> <<i, j>>[2]] \in Edges("line", LineEdges)
      BY <3>10 DEF Edges
    <3> QED BY <1>1, <3>11
  <2> QED BY <2>2, <2>3, <2>4, <2>5
<1>12. NothingMissed'
  <2>1. CompleteTo(all)'
    BY <1>1, <1>11 DEF CompleteTo, Pt
  <2>2. Len(separatrices)' = all
    BY <1>1, <1>2
  <2> QED BY <1>1, <2>1, <2>2 DEF NothingMissed
<1>13. ASSUME NEW i \in 1 .. n - 1
       PROVE  [kind |-> "ring", a |-> all - n + i, b |-> all - n + i + 1] \in connectivity'
                <=> i \notin not_next
  <2> DEFINE e == [kind |-> "ring", a |-> all - n + i, b |-> all - n + i + 1]
  <2>1. e \notin connectivity
    <3>1. ~(e.b <= all - n)
      BY <1>3
    <3> QED BY <1>7, <3>1
  <2>2. e \notin Edges("closing", ClosingEdge) /\ e \notin Edges("line", LineEdges)
    BY DEF Edges
  <2>3. e \in Edges("ring", RingEdges) <=> <<all - n + i, all - n + i + 1>> \in RingEdges
    <3>1. ASSUME e \in Edges("ring", RingEdges)
          PROVE  <<all - n + i, all - n + i + 1>> \in RingEdges
      <4>1. PICK pair \in RingEdges : e = [kind |-> "ring", a |-> pair[1], b |-> pair[2]]
        BY <3>1 DEF Edges
      <4>2. pair[1] = all - n + i /\ pair[2] = all - n + i + 1
        BY <4>1
      <4>3. pair = <<pair[1], pair[2]>>
        BY DEF RingEdges
      <4> QED BY <4>2, <4>3
    <3>2. ASSUME <<all - n + i, all - n + i + 1>> \in RingEdges
          PROVE  e \in Edges("ring", RingEdges)
      BY <3>2 DEF Edges
    <3> QED BY <3>1, <3>2
  <2>4. <<all - n + i, all - n + i + 1>> \in RingEdges <=> i \notin not_next
    <3>1. ASSUME <<all - n + i, all - n + i + 1>> \in RingEdges PROVE i \notin not_next
      <4>1. PICK p \in (1 .. n - 1) \ not_next :
              <<all - n + i, all - n + i + 1>> = <<all - n + p, all - n + p + 1>>
        BY <1>2, <3>1 DEF RingEdges
      <4>2. all - n + i = all - n + p
        BY <4>1
      <4>3. p = i
        BY <1>3, <4>2
      <4> QED BY <4>1, <4>3
    <3>2. ASSUME i \notin not_next PROVE <<all - n + i, all - n + i + 1>> \in RingEdges
      BY <1>2, <3>2 DEF RingEdges
    <3> QED BY <3>1, <3>2
  <2>5. e \in connectivity' <=> e \in Edges("ring", RingEdges)
    BY <1>1, <2>1, <2>2
  <2> QED BY <2>3, <2>4, <2>5
<1>14. NoEdgeOverGap'
  <2>1. \A i \in 1 .. n - 1 : i \notin not_next <=> \E p \in Neighbours(i) : p + 1 \in Neighbours(i + 1)
    BY <1>1, <1>2 DEF LinesInv, GapsMarked
  <2>2. \A i : Neighbours(i)' = Neighbours(i)
    BY <1>1 DEF Neighbours, Kept
  <2>3. (Len(separatrices) - Len(ring))' = all - n /\ Len(ring)' = n
    BY <1>1, <1>2
  <2> HIDE DEF new
  <2> QED BY <1>13, <2>1, <2>2, <2>3 DEF NoEdgeOverGap
<1>15. GapsMarked'
  BY <1>1 DEF GapsMarked
<1> QED BY <1>10, <1>12, <1>14, <1>15 DEF LinesInv

LEMMA LinesStutter == SeparatricesInv /\ LinesInv /\ UNCHANGED vars => LinesInv'
<1> SUFFICES ASSUME SeparatricesInv, LinesInv, UNCHANGED vars PROVE LinesInv'
  OBVIOUS
<1> USE DEF vars, input, results, work, LinesInv
<1>1. LinesOnce'
  BY DEF LinesOnce, Distinct, KnownIn, OlderOnLine, Pt
<1>2. NothingMissed'
  BY DEF NothingMissed, CompleteTo, Pt
<1>3. GapsMarked'
  BY DEF GapsMarked, Neighbours, Kept
<1>4. NoEdgeOverGap'
  BY DEF NoEdgeOverGap, Neighbours, Kept
<1> QED BY <1>1, <1>2, <1>3, <1>4

LEMMA LinesInvariance == Spec => []LinesInv
<1>1. SeparatricesInv /\ LinesInv /\ [Next]_vars => LinesInv'
  BY SkipNullLines, FirstRingLines, StopIteratingLines, GrowLines, RemoveLines, ConnectLines, LinesStutter
     DEF Next
<1> QED BY LinesInitially, EdgesStayRight, <1>1, PTL DEF Spec

\* Whatever points are put into a ring and removed from it, connectivity_rings leads to the
\* next point of every line, so that two points of one line in rings that follow each other
\* are joined when the next iteration begins (field_skeleton.py:705-773).
THEOREM LinesAreComplete == Spec => []LinesComplete
<1>1. LinesInv => LinesComplete
  BY DEF LinesInv, NothingMissed, CompleteTo, LinesComplete
<1> QED BY <1>1, LinesInvariance, PTL

\* Two points that follow each other in the new ring, from the first to the last, are
\* joined if and only if no point between them was removed: not_connect_to_next names each gap by its place in the new
\* ring, although it is filled while that ring is still being built (field_skeleton.py:731-758).
THEOREM GapsStayOpen == Spec => []NoEdgeOverGap
<1>1. LinesInv => NoEdgeOverGap
  BY DEF LinesInv
<1> QED BY <1>1, LinesInvariance, PTL
=============================================================================
