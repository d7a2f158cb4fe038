------------------------------ MODULE NatLemmas ------------------------------
(***************************************************************************)
(* Facts that the proofs of the components share: the least and the        *)
(* greatest element of a set of naturals, which the models name with Min   *)
(* and Max for "the first free one" and "the end of the walk"; induction,  *)
(* in the form of a set closed under successor, and recursion along it;    *)
(* and what inserting into a sequence and removing from it do.             *)
(***************************************************************************)
EXTENDS Integers, SequencesExt, FiniteSetTheorems, SequenceTheorems, TLAPS

(* A non-empty set of naturals has a least element. *)
LEMMA Least ==
  ASSUME NEW S \in SUBSET Nat, S # {}
  PROVE  \E x \in S : \A y \in S : x <= y
<1> DEFINE R == {ss \in Nat \X Nat : ss[1] < ss[2]}
<1>1. IsWellFoundedOn(R, Nat)
  BY NatLessThanWellFounded, Zenon DEF OpToRel
<1>2. PICK x \in S : \A y \in S : ~(<<y, x>> \in R)
  <2> HIDE DEF R
  <2> QED
    BY <1>1, WFMin
<1>3. ASSUME NEW y \in S, ~(x <= y) PROVE FALSE
  <2>1. <<y, x>> \in Nat \X Nat /\ y < x
    BY <1>3
  <2>2. <<y, x>>[1] < <<y, x>>[2]
    BY <2>1
  <2> QED
    BY <1>2, <2>1, <2>2
<1> QED
  BY <1>3

LEMMA MinNat ==
  ASSUME NEW S \in SUBSET Nat, S # {}
  PROVE  Min(S) \in S /\ \A y \in S : Min(S) <= y
BY Least DEF Min

(* A bounded one has a greatest. *)
LEMMA MaxNat ==
  ASSUME NEW S \in SUBSET Nat, S # {}, NEW n \in Nat, \A x \in S : x <= n
  PROVE  Max(S) \in S /\ \A y \in S : Max(S) >= y
<1> DEFINE U == {b \in Nat : \A x \in S : x <= b}
<1>1. PICK u \in U : \A b \in U : u <= b
  <2>1. U \in SUBSET Nat /\ n \in U
    OBVIOUS
  <2> HIDE DEF U
  <2> QED
    BY <2>1, Least
<1>2. u \in S
  <2>1. SUFFICES ASSUME u \notin S PROVE FALSE
    OBVIOUS
  <2>2. \A x \in S : x <= u - 1
    BY <1>1, <2>1
  <2>3. u - 1 \in Nat
    <3>1. PICK x \in S : x <= u - 1
      BY <2>2
    <3> QED
      BY <3>1
  <2> QED
    BY <1>1, <2>2, <2>3
<1> QED
  BY <1>1, <1>2 DEF Max

(* Induction: a set of naturals with 0 and with successors is all of them. *)
LEMMA NatInd ==
  ASSUME NEW S \in SUBSET Nat, 0 \in S, \A n \in S : n + 1 \in S
  PROVE  S = Nat
<1>1. SUFFICES ASSUME Nat \ S # {} PROVE FALSE
  OBVIOUS
<1>2. PICK x \in Nat \ S : \A y \in Nat \ S : x <= y
  BY <1>1, Least
<1>3. x - 1 \in Nat /\ x - 1 \notin S
  BY <1>2
<1> QED
  BY <1>2, <1>3

(* Recursion: a function defined by its value at 0 and the step from each
   value to the next.  A recursive definition f[k \in 0 .. n] denotes one when
   there is one; the step is a function h, so that no operator is a parameter. *)
Steps(S) == [Nat \X S -> S]

Recurs(g, a, h, n) == g[0] = a /\ \A k \in 1 .. n : g[k] = h[<<k, g[k - 1]>>]

LEMMA Recursion ==
  ASSUME NEW S, NEW a \in S, NEW h \in Steps(S), NEW n \in Nat
  PROVE  \E g \in [0 .. n -> S] : Recurs(g, a, h, n)
<1> DEFINE T == {m \in Nat : \E g \in [0 .. m -> S] : Recurs(g, a, h, m)}
<1>1. 0 \in T
  <2> DEFINE g == [k \in 0 .. 0 |-> a]
  <2>1. g \in [0 .. 0 -> S] /\ g[0] = a /\ 1 .. 0 = {}
    OBVIOUS
  <2> HIDE DEF g
  <2> QED
    BY <2>1 DEF Recurs
<1>2. ASSUME NEW m \in T PROVE m + 1 \in T
  <2>1. PICK g \in [0 .. m -> S] :
          g[0] = a /\ \A k \in 1 .. m : g[k] = h[<<k, g[k - 1]>>]
    BY DEF Recurs
  <2> DEFINE e == h[<<m + 1, g[m]>>]
             gg == [k \in 0 .. m + 1 |-> IF k = m + 1 THEN e ELSE g[k]]
  <2>2. m \in Nat /\ e \in S
    BY DEF Steps
  <2> HIDE DEF e
  <2>3. gg \in [0 .. m + 1 -> S] /\ gg[0] = a /\ gg[m + 1] = e
        /\ \A k \in 0 .. m : gg[k] = g[k]
    BY <2>1, <2>2
  <2> HIDE DEF gg
  <2>4. ASSUME NEW k \in 1 .. m + 1 PROVE gg[k] = h[<<k, gg[k - 1]>>]
    <3>1. CASE k = m + 1
      <4>1. gg[k - 1] = g[m] /\ k - 1 = m
        BY <2>2, <2>3, <3>1
      <4> QED
        BY <2>3, <3>1, <4>1 DEF e
    <3>2. CASE k # m + 1
      <4>1. k \in 1 .. m /\ k - 1 \in 0 .. m
        BY <2>2, <3>2
      <4> QED
        BY <2>1, <2>3, <4>1
    <3> QED
      BY <3>1, <3>2
  <2>5. Recurs(gg, a, h, m + 1)
    BY <2>3, <2>4 DEF Recurs
  <2> QED
    BY <2>2, <2>3, <2>5
<1> HIDE DEF T
<1>3. T \in SUBSET Nat
  BY DEF T
<1>4. T = Nat
  BY <1>1, <1>2, <1>3, NatInd
<1> QED
  BY <1>4 DEF T

-----------------------------------------------------------------------------
(* A sequence without its i-th element. *)
LEMMA Removed ==
  ASSUME NEW S, NEW s \in Seq(S), NEW i \in 1 .. Len(s)
  PROVE  /\ RemoveAt(s, i) \in Seq(S)
         /\ Len(RemoveAt(s, i)) = Len(s) - 1
         /\ \A j \in 1 .. Len(s) - 1 :
              RemoveAt(s, i)[j] = IF j < i THEN s[j] ELSE s[j + 1]
<1> DEFINE a == SubSeq(s, 1, i - 1)
           b == SubSeq(s, i + 1, Len(s))
<1>1. Len(s) \in Nat /\ \A j \in 1 .. Len(s) : s[j] \in S
  BY LenProperties, ElementOfSeq
<1>2. /\ a \in Seq(S) /\ Len(a) = i - 1
      /\ \A j \in 1 .. i - 1 : a[j] = s[j]
  BY <1>1, SubSeqProperties
<1>3. /\ b \in Seq(S) /\ Len(b) = Len(s) - i
      /\ \A j \in 1 .. Len(s) - i : b[j] = s[i + j]
  BY <1>1, SubSeqProperties
<1> HIDE DEF a, b
<1>4. /\ a \o b \in Seq(S) /\ Len(a \o b) = Len(a) + Len(b)
      /\ \A j \in 1 .. Len(a) + Len(b) :
           (a \o b)[j] = IF j <= Len(a) THEN a[j] ELSE b[j - Len(a)]
  BY <1>2, <1>3, ConcatProperties
<1>5. Len(a) + Len(b) = Len(s) - 1
  BY <1>1, <1>2, <1>3
<1>6. ASSUME NEW j \in 1 .. Len(s) - 1
      PROVE  (a \o b)[j] = IF j < i THEN s[j] ELSE s[j + 1]
  <2>1. CASE j < i
    BY <1>2, <1>4, <1>5, <2>1
  <2>2. CASE ~(j < i)
    <3>1. (a \o b)[j] = b[j - (i - 1)] /\ j - (i - 1) \in 1 .. Len(s) - i
      BY <1>1, <1>2, <1>4, <1>5, <2>2
    <3>2. i + (j - (i - 1)) = j + 1
      OBVIOUS
    <3> QED
      BY <1>1, <1>3, <3>1, <3>2, <2>2
  <2> QED
    BY <2>1, <2>2, Zenon
<1> QED
  BY <1>4, <1>5, <1>6 DEF RemoveAt, a, b

(* And with a new element in place i. *)
LEMMA Inserted ==
  ASSUME NEW S, NEW s \in Seq(S), NEW i \in 1 .. Len(s) + 1, NEW e \in S
  PROVE  /\ InsertAt(s, i, e) \in Seq(S)
         /\ Len(InsertAt(s, i, e)) = Len(s) + 1
         /\ \A j \in 1 .. Len(s) + 1 :
              InsertAt(s, i, e)[j] =
                IF j < i THEN s[j] ELSE IF j = i THEN e ELSE s[j - 1]
<1> DEFINE a == SubSeq(s, 1, i - 1)
           b == SubSeq(s, i, Len(s))
           m == a \o <<e>>
<1>1. Len(s) \in Nat /\ \A j \in 1 .. Len(s) : s[j] \in S
  BY LenProperties, ElementOfSeq
<1>2. /\ a \in Seq(S) /\ Len(a) = i - 1
      /\ \A j \in 1 .. i - 1 : a[j] = s[j]
  BY <1>1, SubSeqProperties
<1>3. /\ b \in Seq(S) /\ Len(b) = Len(s) - i + 1
      /\ \A j \in 1 .. Len(s) - i + 1 : b[j] = s[i + j - 1]
  BY <1>1, SubSeqProperties
<1>4. <<e>> \in Seq(S) /\ Len(<<e>>) = 1 /\ <<e>>[1] = e
  OBVIOUS
<1> HIDE DEF a, b
<1>5. /\ m \in Seq(S) /\ Len(m) = i
      /\ \A j \in 1 .. i : m[j] = IF j < i THEN s[j] ELSE e
  BY <1>2, <1>4, ConcatProperties
<1> HIDE DEF m
<1>6. /\ m \o b \in Seq(S) /\ Len(m \o b) = Len(m) + Len(b)
      /\ \A j \in 1 .. Len(m) + Len(b) :
           (m \o b)[j] = IF j <= Len(m) THEN m[j] ELSE b[j - Len(m)]
  BY <1>3, <1>5, ConcatProperties
<1>7. Len(m) + Len(b) = Len(s) + 1
  BY <1>1, <1>3, <1>5
<1>8. ASSUME NEW j \in 1 .. Len(s) + 1
      PROVE  (m \o b)[j] = IF j < i THEN s[j] ELSE IF j = i THEN e ELSE s[j - 1]
  <2>1. CASE j <= i
    BY <1>5, <1>6, <1>7, <2>1
  <2>2. CASE ~(j <= i)
    <3>1. (m \o b)[j] = b[j - i] /\ j - i \in 1 .. Len(s) - i + 1
      BY <1>1, <1>5, <1>6, <1>7, <2>2
    <3>2. i + (j - i) - 1 = j - 1
      OBVIOUS
    <3> QED
      BY <1>1, <1>3, <3>1, <3>2, <2>2
  <2> QED
    BY <2>1, <2>2, Zenon
<1> QED
  BY <1>6, <1>7, <1>8 DEF InsertAt, a, b, m

-----------------------------------------------------------------------------
(* How many elements of a sequence are in T. *)
HitSet(q, T) == {k \in 1 .. Len(q) : q[k] \in T}

Hits(q, T) == Cardinality(HitSet(q, T))

LEMMA HitsType ==
  ASSUME NEW S, NEW q \in Seq(S), NEW T
  PROVE  /\ IsFiniteSet(HitSet(q, T)) /\ Hits(q, T) \in Nat
         /\ Hits(q, T) = 0 <=> \A k \in 1 .. Len(q) : q[k] \notin T
<1>1. Len(q) \in Nat /\ IsFiniteSet(1 .. Len(q))
  BY LenProperties, FS_Interval
<1>2. IsFiniteSet(HitSet(q, T))
  BY <1>1, FS_Subset DEF HitSet
<1>3. Hits(q, T) \in Nat /\ (Hits(q, T) = 0 <=> HitSet(q, T) = {})
  BY <1>2, FS_CardinalityType, FS_EmptySet DEF Hits
<1> QED
  BY <1>2, <1>3 DEF HitSet

(* No two of a sequence that has at most one. *)
LEMMA HitsOne ==
  ASSUME NEW S, NEW q \in Seq(S), NEW T, Hits(q, T) <= 1,
         NEW i \in 1 .. Len(q), NEW j \in 1 .. Len(q), q[i] \in T, q[j] \in T
  PROVE  i = j
<1>1. IsFiniteSet(HitSet(q, T)) /\ Hits(q, T) \in Nat
  BY HitsType
<1>2. i \in HitSet(q, T) /\ j \in HitSet(q, T)
  BY DEF HitSet
<1>3. Hits(q, T) = 1
  BY <1>1, <1>2, FS_EmptySet DEF Hits
<1>4. PICK x : HitSet(q, T) = {x}
  BY <1>1, <1>3, FS_Singleton DEF Hits
<1> QED
  BY <1>2, <1>4

LEMMA HitsAppend ==
  ASSUME NEW S, NEW q \in Seq(S), NEW x \in S, NEW T
  PROVE  Hits(Append(q, x), T) = Hits(q, T) + (IF x \in T THEN 1 ELSE 0)
<1> DEFINE p == Append(q, x)
           n == Len(q) + 1
<1>1. /\ Len(q) \in Nat /\ Len(p) = n /\ p[n] = x
      /\ \A k \in 1 .. Len(q) : p[k] = q[k]
  BY AppendProperties, LenProperties
<1> HIDE DEF p
<1>2. IsFiniteSet(HitSet(q, T)) /\ Hits(q, T) \in Nat /\ n \notin HitSet(q, T)
  BY <1>1, HitsType DEF HitSet
<1>3. CASE x \in T
  <2>1. HitSet(p, T) = HitSet(q, T) \cup {n}
    BY <1>1, <1>3 DEF HitSet
  <2>2. Cardinality(HitSet(q, T) \cup {n}) = Cardinality(HitSet(q, T)) + 1
    BY <1>2, FS_AddElement
  <2> QED
    BY <1>3, <2>1, <2>2 DEF Hits, p
<1>4. CASE x \notin T
  <2>1. HitSet(p, T) = HitSet(q, T)
    BY <1>1, <1>4 DEF HitSet
  <2> QED
    BY <1>2, <1>4, <2>1 DEF Hits, p
<1> QED
  BY <1>3, <1>4

(* The rest of a sequence, after its n-th element. *)
HitsPast(q, n, T) == {k \in n + 1 .. Len(q) : q[k] \in T}

LEMMA HitsAfter ==
  ASSUME NEW S, NEW q \in Seq(S), NEW n \in 0 .. Len(q), NEW T
  PROVE  Hits(SubSeq(q, n + 1, Len(q)), T)
           = Cardinality(HitsPast(q, n, T))
<1> DEFINE p == SubSeq(q, n + 1, Len(q))
           H == HitsPast(q, n, T)
           f == [k \in HitSet(p, T) |-> k + n]
<1>1. Len(q) \in Nat /\ n \in Nat /\ \A k \in 1 .. Len(q) : q[k] \in S
  BY LenProperties, ElementOfSeq
<1>2. /\ p \in Seq(S) /\ Len(p) = Len(q) - n
      /\ \A k \in 1 .. Len(q) - n : p[k] = q[n + 1 + k - 1]
  BY <1>1, SubSeqProperties
<1>3. \A k \in 1 .. Len(q) - n : p[k] = q[k + n]
  BY <1>1, <1>2
<1> HIDE DEF p
<1>4. f \in [HitSet(p, T) -> H]
  BY <1>1, <1>2, <1>3 DEF HitSet, HitsPast
<1>5. \A i, j \in HitSet(p, T) : f[i] = f[j] => i = j
  BY <1>1, <1>2 DEF HitSet
<1>6. ASSUME NEW k \in H PROVE \E i \in HitSet(p, T) : f[i] = k
  <2>1. k - n \in HitSet(p, T) /\ (k - n) + n = k
    BY <1>1, <1>2, <1>3 DEF HitSet, HitsPast
  <2> QED
    BY <2>1
<1>7. ExistsBijection(HitSet(p, T), H)
  <2> HIDE DEF f, H
  <2> QED
    BY <1>4, <1>5, <1>6 DEF ExistsBijection, Bijection, Injection, Surjection, IsInjective
<1>8. IsFiniteSet(HitSet(p, T))
  BY <1>2, HitsType
<1> HIDE DEF H
<1> QED
  BY <1>7, <1>8, FS_Bijection DEF Hits, p, H

(* Dropping elements that are not in T drops none that are. *)
LEMMA HitsDrop ==
  ASSUME NEW S, NEW q \in Seq(S), NEW n \in 0 .. Len(q), NEW T,
         \A k \in 1 .. n : q[k] \notin T
  PROVE  Hits(SubSeq(q, n + 1, Len(q)), T) = Hits(q, T)
<1>1. Len(q) \in Nat
  BY LenProperties
<1>2. HitsPast(q, n, T) = HitSet(q, T)
  BY <1>1 DEF HitSet, HitsPast
<1> QED
  BY <1>2, HitsAfter DEF Hits

LEMMA HitsTail ==
  ASSUME NEW S, NEW q \in Seq(S), q # <<>>, NEW T
  PROVE  Hits(q, T) = Hits(Tail(q), T) + (IF Head(q) \in T THEN 1 ELSE 0)
<1> DEFINE H == HitsPast(q, 1, T)
<1>1. Len(q) \in Nat \ {0} /\ Head(q) = q[1]
  BY EmptySeq
<1>2. Tail(q) = SubSeq(q, 1 + 1, Len(q))
  BY TailIsSubSeq
<1>4. Hits(Tail(q), T) = Cardinality(H) /\ 1 \notin H
  <2>1. 1 \in 0 .. Len(q)
    BY <1>1
  <2>2. Hits(Tail(q), T) = Cardinality(H)
    BY <1>2, <2>1, HitsAfter
  <2> QED
    BY <2>2 DEF HitsPast
<1>5. IsFiniteSet(HitSet(q, T)) /\ H \in SUBSET HitSet(q, T)
  <2>1. H \in SUBSET HitSet(q, T)
    BY <1>1 DEF HitSet, HitsPast
  <2> QED
    BY <2>1, HitsType
<1>6. IsFiniteSet(H) /\ Cardinality(H) \in Nat
  BY <1>5, FS_Subset, FS_CardinalityType
<1>7. CASE Head(q) \in T
  <2>1. HitSet(q, T) = H \cup {1}
    BY <1>1, <1>7 DEF HitSet, HitsPast
  <2> HIDE DEF H
  <2>2. Cardinality(H \cup {1}) = Cardinality(H) + 1
    BY <1>4, <1>6, FS_AddElement
  <2> QED
    BY <1>4, <1>7, <2>1, <2>2 DEF Hits
<1>8. CASE Head(q) \notin T
  <2>1. HitSet(q, T) = H
    BY <1>1, <1>8 DEF HitSet, HitsPast
  <2> HIDE DEF H
  <2> QED
    BY <1>4, <1>6, <1>8, <2>1 DEF Hits
<1> QED
  BY <1>7, <1>8

(* q is longer than p, if anything. *)
Longer(p, q) == Len(p) <= Len(q) /\ \A k \in 1 .. Len(p) : q[k] = p[k]

LEMMA HitsLonger ==
  ASSUME NEW S, NEW p \in Seq(S), NEW q \in Seq(S), Longer(p, q), NEW T
  PROVE  /\ Hits(p, T) <= Hits(q, T)
         /\ Hits(p, T) = Hits(q, T) => \A k \in Len(p) + 1 .. Len(q) : q[k] \notin T
<1>1. Len(p) \in Nat /\ Len(q) \in Nat
  BY LenProperties
<1>2. HitSet(p, T) \in SUBSET HitSet(q, T) /\ IsFiniteSet(HitSet(q, T))
  <2>1. HitSet(p, T) \in SUBSET HitSet(q, T)
    BY <1>1 DEF HitSet, Longer
  <2> QED
    BY <2>1, HitsType
<1>3. /\ Hits(p, T) <= Hits(q, T)
      /\ Hits(p, T) = Hits(q, T) => HitSet(q, T) = HitSet(p, T)
  BY <1>2, FS_Subset DEF Hits
<1> QED
  BY <1>1, <1>3 DEF HitSet
=============================================================================
