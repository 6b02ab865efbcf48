--------------------------- MODULE AuthorityProofs ---------------------------
(***************************************************************************)
(* Proofs about Authority for all zone files, configurations and queries:  *)
(* the maps hold what the files say, and so do the answers.  Then proofs   *)
(* about Dnssec for all keys, zones, names and clocks; both rest on the    *)
(* order of names.                                                         *)
(***************************************************************************)
EXTENDS Authority, Dnssec, SequenceTheorems, FiniteSetTheorems, WellFoundedInduction, TLAPS

-----------------------------------------------------------------------------
(* Numbers, sequences and names *)

LEMMA LeastNumber ==
  ASSUME NEW T, T \subseteq Nat, T # {}
  PROVE  \E x \in T : \A y \in T : x <= y
<1>1. IsWellFoundedOn(OpToRel(<, Nat), Nat)
  BY NatLessThanWellFounded
<1>2. PICK x \in T : \A y \in T : ~(<<y, x>> \in OpToRel(<, Nat))
  BY <1>1, WFMin
<1>3. \A y \in T : ~(y < x)
  BY <1>2 DEF OpToRel
<1> QED  BY <1>3

LEMMA ElementsOf ==
  ASSUME NEW S, NEW s \in Seq(S)
  PROVE  /\ ToSet(s) = {} <=> s = <<>>
         /\ \A r \in S : Append(s, r) \in Seq(S) /\ ToSet(Append(s, r)) = ToSet(s) \cup {r}
<1>1. DOMAIN s = 1 .. Len(s) /\ Len(s) \in Nat
  OBVIOUS
<1>2. ToSet(s) = {} <=> s = <<>>
  <2>1. CASE s = <<>>
    BY <2>1 DEF ToSet
  <2>2. CASE s # <<>>
    <3>1. 1 \in DOMAIN s
      BY <1>1, <2>2
    <3> QED  BY <2>2, <3>1 DEF ToSet
  <2> QED  BY <2>1, <2>2
<1>3. ASSUME NEW r \in S
      PROVE  Append(s, r) \in Seq(S) /\ ToSet(Append(s, r)) = ToSet(s) \cup {r}
  <2>1. /\ Append(s, r) \in Seq(S) /\ Len(Append(s, r)) = Len(s) + 1
        /\ DOMAIN Append(s, r) = 1 .. Len(s) + 1
        /\ Append(s, r)[Len(s) + 1] = r
        /\ \A i \in 1 .. Len(s) : Append(s, r)[i] = s[i]
    OBVIOUS
  <2>2. 1 .. Len(s) + 1 = (1 .. Len(s)) \cup {Len(s) + 1}
    BY <1>1
  <2> HIDE DEF ToSet
  <2>3. ToSet(Append(s, r)) = {Append(s, r)[i] : i \in (1 .. Len(s)) \cup {Len(s) + 1}}
    BY <2>1, <2>2 DEF ToSet
  <2>4. ToSet(s) = {s[i] : i \in 1 .. Len(s)}
    BY <1>1 DEF ToSet
  <2> QED  BY <2>1, <2>3, <2>4
<1> QED  BY <1>2, <1>3

LEMMA SuffixMeans ==
  ASSUME NEW s \in Seq(Nat), NEW t \in Seq(Nat)
  PROVE  IsSuffix(s, t) =>
           Len(s) <= Len(t) /\ \A i \in 1 .. Len(s) : s[i] = t[Len(t) - Len(s) + i]
<1> SUFFICES ASSUME IsSuffix(s, t)
             PROVE  Len(s) <= Len(t) /\ \A i \in 1 .. Len(s) : s[i] = t[Len(t) - Len(s) + i]
  OBVIOUS
<1> DEFINE rs == Reverse(s)
           rt == Reverse(t)
<1>1. /\ rs \in Seq(Nat) /\ Len(rs) = Len(s) /\ \A i \in 1 .. Len(s) : rs[i] = s[Len(s) - i + 1]
      /\ rt \in Seq(Nat) /\ Len(rt) = Len(t) /\ \A i \in 1 .. Len(t) : rt[i] = t[Len(t) - i + 1]
  BY DEF Reverse
<1> HIDE DEF rs, rt
<1>2. Len(rs) <= Len(rt) /\ SubSeq(rs, 1, Len(rs)) = SubSeq(rt, 1, Len(rs))
  BY DEF IsSuffix, IsPrefix, rs, rt
<1>3. Len(s) <= Len(t) /\ Len(s) \in Nat /\ Len(t) \in Nat
  BY <1>1, <1>2
<1>4. \A i \in 1 .. Len(s) : SubSeq(rs, 1, Len(s))[i] = rs[i] /\ SubSeq(rt, 1, Len(s))[i] = rt[i]
  BY <1>1, <1>3
<1>5. \A i \in 1 .. Len(s) : rs[i] = rt[i]
  BY <1>1, <1>2, <1>4
<1>6. ASSUME NEW i \in 1 .. Len(s) PROVE s[i] = t[Len(t) - Len(s) + i]
  <2>1. Len(s) - i + 1 \in 1 .. Len(s) /\ Len(s) - i + 1 \in 1 .. Len(t)
    BY <1>3
  <2>2. /\ rs[Len(s) - i + 1] = s[Len(s) - (Len(s) - i + 1) + 1]
        /\ rt[Len(s) - i + 1] = t[Len(t) - (Len(s) - i + 1) + 1]
    BY <1>1, <2>1
  <2>3. /\ Len(s) - (Len(s) - i + 1) + 1 = i
        /\ Len(t) - (Len(s) - i + 1) + 1 = Len(t) - Len(s) + i
    BY <1>3
  <2> QED  BY <1>5, <2>1, <2>2, <2>3
<1> QED  BY <1>3, <1>6

\* Suffixes of one name with equally many labels are equal.
LEMMA SuffixUnique ==
  ASSUME NEW s \in Seq(Nat), NEW u \in Seq(Nat), NEW t \in Seq(Nat),
         IsSuffix(s, t), IsSuffix(u, t), Len(s) = Len(u)
  PROVE  s = u
<1>1. /\ \A i \in 1 .. Len(s) : s[i] = t[Len(t) - Len(s) + i]
      /\ \A i \in 1 .. Len(u) : u[i] = t[Len(t) - Len(u) + i]
  <2> HIDE DEF IsSuffix
  <2> QED  BY SuffixMeans
<1>2. \A i \in 1 .. Len(s) : s[i] = u[i]
  BY <1>1
<1> QED  BY <1>2, SeqEqual

LEMMA SuffixSelf == \A t \in Seq(Nat) : IsSuffix(t, t)
  BY DEF IsSuffix, IsPrefix

-----------------------------------------------------------------------------
(* The order of names and of keys *)

\* The i-th label of a name, counted from the right.
Right(s, i) == s[Len(s) + 1 - i]

LEMMA RightType ==
  ASSUME NEW m \in Seq(Nat)
  PROVE  Len(m) \in Nat /\ \A j \in 1 .. Len(m) : Right(m, j) \in Nat
<1>1. ASSUME NEW j \in 1 .. Len(m) PROVE Right(m, j) \in Nat
  <2>1. Len(m) + 1 - j \in 1 .. Len(m)
    OBVIOUS
  <2> QED  BY <2>1 DEF Right
<1> QED  BY <1>1

LEMMA NameLessMeans ==
  ASSUME NEW m \in Seq(Nat), NEW n \in Seq(Nat)
  PROVE  NameLess(m, n) <=>
           \E i \in 1 .. Len(n) :
             /\ i - 1 <= Len(m)
             /\ \A j \in 1 .. i - 1 : Right(m, j) = Right(n, j)
             /\ i > Len(m) \/ Right(m, i) < Right(n, i)
<1>1. ASSUME NEW i \in 1 .. Len(n)
      PROVE  (\A j \in 1 .. i - 1 : j <= Len(m)) <=> i - 1 <= Len(m)
  <2>1. ASSUME \A j \in 1 .. i - 1 : j <= Len(m), i - 1 > Len(m) PROVE FALSE
    <3>1. i - 1 \in 1 .. i - 1
      BY <2>1
    <3> QED  BY <2>1, <3>1
  <2> QED  BY <2>1
<1> QED  BY <1>1 DEF NameLess, Right

LEMMA NameLessIrreflexive ==
  ASSUME NEW m \in Seq(Nat)
  PROVE  ~NameLess(m, m)
<1> SUFFICES ASSUME NEW i \in 1 .. Len(m), Right(m, i) < Right(m, i) PROVE FALSE
  BY NameLessMeans
<1>1. Right(m, i) \in Nat
  BY RightType
<1> QED  BY <1>1

LEMMA NameLessTransitive ==
  ASSUME NEW m \in Seq(Nat), NEW n \in Seq(Nat), NEW p \in Seq(Nat),
         NameLess(m, n), NameLess(n, p)
  PROVE  NameLess(m, p)
<1>1. PICK i \in 1 .. Len(n) : /\ i - 1 <= Len(m)
                               /\ \A j \in 1 .. i - 1 : Right(m, j) = Right(n, j)
                               /\ i > Len(m) \/ Right(m, i) < Right(n, i)
  BY NameLessMeans
<1>2. PICK k \in 1 .. Len(p) : /\ k - 1 <= Len(n)
                               /\ \A j \in 1 .. k - 1 : Right(n, j) = Right(p, j)
                               /\ k > Len(n) \/ Right(n, k) < Right(p, k)
  BY NameLessMeans
<1>3. /\ \A j \in 1 .. Len(m) : Right(m, j) \in Nat
      /\ \A j \in 1 .. Len(n) : Right(n, j) \in Nat
      /\ \A j \in 1 .. Len(p) : Right(p, j) \in Nat
      /\ Len(m) \in Nat /\ Len(n) \in Nat /\ Len(p) \in Nat
  BY RightType
<1>4. CASE i < k
  <2>1. i \in 1 .. Len(p) /\ i \in 1 .. k - 1
    BY <1>2, <1>3, <1>4
  <2>2. \A j \in 1 .. i - 1 : Right(m, j) = Right(p, j)
    BY <1>1, <1>2, <1>3, <1>4
  <2>3. i > Len(m) \/ Right(m, i) < Right(p, i)
    BY <1>1, <1>2, <2>1
  <2> QED  BY <1>1, <2>1, <2>2, <2>3, NameLessMeans
<1>5. CASE k <= i
  <2>1. k - 1 <= Len(m) /\ k \in 1 .. Len(n)
    BY <1>1, <1>2, <1>3, <1>5
  <2>2. \A j \in 1 .. k - 1 : Right(m, j) = Right(p, j)
    BY <1>1, <1>2, <1>3, <1>5
  <2>3. Right(n, k) < Right(p, k)
    BY <1>2, <1>3, <2>1
  <2>4. k > Len(m) \/ Right(m, k) < Right(p, k)
    <3>1. CASE k < i
      <4>1. Right(m, k) = Right(n, k)
        BY <1>1, <1>2, <1>3, <3>1
      <4> QED  BY <2>3, <4>1
    <3>2. CASE k = i
      <4>1. k > Len(m) \/ Right(m, k) < Right(n, k)
        BY <1>1, <3>2
      <4>2. k <= Len(m) => Right(m, k) \in Nat
        BY <1>2, <1>3
      <4>3. Right(n, k) \in Nat /\ Right(p, k) \in Nat
        BY <1>2, <1>3, <2>1
      <4>4. CASE k <= Len(m)
        <5>1. Right(m, k) < Right(n, k)
          BY <1>3, <4>1, <4>4
        <5> QED  BY <2>3, <4>2, <4>3, <4>4, <5>1
      <4> QED  BY <1>3, <4>4
    <3> QED  BY <1>1, <1>2, <1>5, <3>1, <3>2
  <2> QED  BY <1>2, <2>1, <2>2, <2>4, NameLessMeans
<1> QED  BY <1>1, <1>2, <1>4, <1>5

LEMMA NameLessTotal ==
  ASSUME NEW m \in Seq(Nat), NEW n \in Seq(Nat), m # n
  PROVE  NameLess(m, n) \/ NameLess(n, m)
<1> DEFINE Same(i) == i <= Len(m) /\ i <= Len(n) /\ Right(m, i) = Right(n, i)
           differ == {i \in Nat : i > 0 /\ ~Same(i)}
<1>0. Len(m) \in Nat /\ Len(n) \in Nat
  OBVIOUS
<1>1. Len(m) + 1 \in differ
  BY <1>0
<1>2. PICK i \in differ : \A j \in differ : i <= j
  <2> HIDE DEF differ
  <2>1. differ \subseteq Nat
    BY DEF differ
  <2> QED  BY <1>1, <2>1, LeastNumber
<1>3. i \in Nat /\ i > 0 /\ ~Same(i)
  BY <1>2
<1>4. ASSUME NEW j \in 1 .. i - 1 PROVE Same(j)
  <2>1. j \notin differ
    BY <1>2, <1>3
  <2> QED  BY <2>1
<1>5. i - 1 <= Len(m) /\ i - 1 <= Len(n)
  <2>1. CASE i = 1
    BY <1>0, <2>1
  <2>2. CASE i # 1
    <3>1. i - 1 \in 1 .. i - 1
      BY <1>3, <2>2
    <3>2. Same(i - 1)
      BY <1>4, <3>1
    <3> QED  BY <3>2
  <2> QED  BY <2>1, <2>2
<1>6. \A j \in 1 .. i - 1 : Right(m, j) = Right(n, j)
  BY <1>4
<1>7. CASE i > Len(m) /\ i > Len(n)
  <2>1. Len(m) = Len(n) /\ i = Len(m) + 1
    BY <1>0, <1>3, <1>5, <1>7
  <2>2. ASSUME NEW k \in 1 .. Len(m) PROVE m[k] = n[k]
    <3>1. Len(m) + 1 - k \in 1 .. i - 1 /\ Len(m) + 1 - (Len(m) + 1 - k) = k
      BY <1>0, <2>1
    <3>2. Right(m, Len(m) + 1 - k) = Right(n, Len(m) + 1 - k)
      BY <1>6, <3>1
    <3> QED  BY <2>1, <3>1, <3>2 DEF Right
  <2> QED  BY <2>1, <2>2, SeqEqual
<1>8. CASE i > Len(m) /\ i <= Len(n)
  BY <1>3, <1>5, <1>6, <1>8, NameLessMeans
<1>9. CASE i <= Len(m) /\ i > Len(n)
  BY <1>3, <1>5, <1>6, <1>9, NameLessMeans
<1>10. CASE i <= Len(m) /\ i <= Len(n)
  <2>1. Right(m, i) \in Nat /\ Right(n, i) \in Nat
    BY <1>3, <1>10, RightType
  <2>2. Right(m, i) < Right(n, i) \/ Right(n, i) < Right(m, i)
    BY <1>3, <1>10, <2>1
  <2> QED  BY <1>3, <1>5, <1>6, <1>10, <2>2, NameLessMeans
<1> QED  BY <1>0, <1>3, <1>7, <1>8, <1>9, <1>10

Keys == Seq(Nat) \X Nat

LEMMA KeyOrder ==
  /\ \A j \in Keys : ~KeyLess(j, j)
  /\ \A j, k, l \in Keys : KeyLess(j, k) /\ KeyLess(k, l) => KeyLess(j, l)
  /\ \A j, k \in Keys : j = k \/ KeyLess(j, k) \/ KeyLess(k, j)
<1>1. \A j \in Keys : j[1] \in Seq(Nat) /\ j[2] \in Nat /\ j = <<j[1], j[2]>>
  BY DEF Keys
<1>2. \A j, k \in Keys : j[1] = k[1] /\ j[2] = k[2] => j = k
  BY <1>1
<1>3. \A j \in Keys : ~KeyLess(j, j)
  BY <1>1, NameLessIrreflexive DEF KeyLess
<1>4. ASSUME NEW j \in Keys, NEW k \in Keys, NEW l \in Keys, KeyLess(j, k), KeyLess(k, l)
      PROVE  KeyLess(j, l)
  <2>1. /\ NameLess(j[1], k[1]) \/ (j[1] = k[1] /\ j[2] < k[2])
        /\ NameLess(k[1], l[1]) \/ (k[1] = l[1] /\ k[2] < l[2])
    BY <1>4 DEF KeyLess
  <2>2. CASE NameLess(j[1], k[1]) /\ NameLess(k[1], l[1])
    <3>1. NameLess(j[1], l[1])
      BY <1>1, <2>2, NameLessTransitive
    <3> QED  BY <3>1 DEF KeyLess
  <2>3. CASE j[1] = k[1] /\ j[2] < k[2] /\ k[1] = l[1] /\ k[2] < l[2]
    <3>1. j[2] < l[2]
      BY <1>1, <2>3
    <3> QED  BY <2>3, <3>1 DEF KeyLess
  <2> QED  BY <2>1, <2>2, <2>3 DEF KeyLess
<1>5. ASSUME NEW j \in Keys, NEW k \in Keys, j # k
      PROVE  KeyLess(j, k) \/ KeyLess(k, j)
  <2>1. CASE j[1] = k[1]
    <3>1. j[2] # k[2] /\ j[2] \in Nat /\ k[2] \in Nat
      BY <1>1, <1>2, <1>5, <2>1
    <3> QED  BY <2>1, <3>1 DEF KeyLess
  <2>2. CASE j[1] # k[1]
    <3>1. NameLess(j[1], k[1]) \/ NameLess(k[1], j[1])
      BY <1>1, <2>2, NameLessTotal
    <3> QED  BY <3>1 DEF KeyLess
  <2> QED  BY <2>1, <2>2
<1> QED  BY <1>3, <1>4, <1>5

\* Sorting loses no key and puts them in order: the number of lesser keys is
\* another one for every key, and takes every value.
LEMMA SortedKeysSay ==
  ASSUME NEW K, IsFiniteSet(K), K \subseteq Keys
  PROVE  /\ Cardinality(K) \in Nat
         /\ SortedKeys(K) \in [1 .. Cardinality(K) -> K]
         /\ \A k \in K : \E i \in 1 .. Cardinality(K) : SortedKeys(K)[i] = k
         /\ \A i, j \in 1 .. Cardinality(K) :
              i < j => KeyLess(SortedKeys(K)[i], SortedKeys(K)[j])
<1> DEFINE n == Cardinality(K)
           Below(k) == {j \in K : KeyLess(j, k)}
           rank == [k \in K |-> Cardinality(Below(k)) + 1]
           s == SortedKeys(K)
<1>1. n \in Nat
  BY FS_CardinalityType
<1>2. ASSUME NEW k \in K
      PROVE  /\ IsFiniteSet(Below(k)) /\ Cardinality(Below(k)) \in Nat
             /\ Cardinality(Below(k)) <= n - 1
  <2>1. k \notin Below(k)
    BY KeyOrder
  <2>2. IsFiniteSet(K \ {k}) /\ Cardinality(K \ {k}) = n - 1
    BY FS_RemoveElement
  <2>3. Below(k) \in SUBSET (K \ {k})
    BY <2>1
  <2> HIDE DEF Below, n
  <2> QED  BY <2>2, <2>3, FS_Subset, FS_CardinalityType
<1>3. ASSUME NEW j \in K, NEW k \in K, KeyLess(j, k)
      PROVE  Cardinality(Below(j)) < Cardinality(Below(k))
  <2>1. Below(j) \in SUBSET Below(k)
    BY <1>3, KeyOrder
  <2>2. j \in Below(k) /\ j \notin Below(j)
    BY <1>3, KeyOrder
  <2> HIDE DEF Below
  <2>3. /\ Cardinality(Below(j)) <= Cardinality(Below(k))
        /\ Cardinality(Below(j)) # Cardinality(Below(k))
    BY <1>2, <2>1, <2>2, FS_Subset
  <2> QED  BY <1>2, <2>3
<1> HIDE DEF Below
<1>4. ASSUME NEW j \in K, NEW k \in K, Cardinality(Below(j)) = Cardinality(Below(k))
      PROVE  j = k
  <2>1. ~KeyLess(j, k) /\ ~KeyLess(k, j)
    BY <1>2, <1>3, <1>4
  <2> QED  BY <2>1, KeyOrder
<1>5. rank \in [K -> 1 .. n]
  BY <1>1, <1>2
<1>6. \A j, k \in K : rank[j] = rank[k] => j = k
  <2>1. \A j \in K : rank[j] = Cardinality(Below(j)) + 1
    OBVIOUS
  <2> HIDE DEF rank
  <2> QED  BY <1>2, <1>4, <2>1
<1>7. \A i \in 1 .. n : \E k \in K : rank[k] = i
  <2>1. rank \in Injection(K, 1 .. n)
    <3> HIDE DEF rank
    <3> QED  BY <1>5, <1>6 DEF Injection, IsInjective
  <2>2. IsFiniteSet(1 .. n) /\ Cardinality(1 .. n) = n
    BY <1>1, FS_Interval
  <2> HIDE DEF rank
  <2>3. Cardinality(K) = Cardinality(1 .. n)
    BY <2>2
  <2>4. rank \in Surjection(K, 1 .. n)
    BY <2>1, <2>2, <2>3, FS_Injection
  <2> QED  BY <2>4 DEF Surjection
<1>8. ASSUME NEW i \in 1 .. n
      PROVE  s[i] \in K /\ Cardinality(Below(s[i])) = i - 1
  <2>1. PICK k \in K : rank[k] = i
    BY <1>7
  <2>2. Cardinality(Below(k)) = i - 1
    BY <1>1, <1>2, <2>1
  <2>3. s[i] = CHOOSE x \in K : Cardinality(Below(x)) = i - 1
    BY DEF SortedKeys, Below
  <2> HIDE DEF s
  <2> QED  BY <2>2, <2>3
<1>9. s \in [1 .. n -> K]
  <2> DEFINE pick(i) == CHOOSE x \in K : Cardinality(Below(x)) = i - 1
  <2>1. s = [i \in 1 .. n |-> pick(i)]
    BY DEF SortedKeys, Below
  <2> HIDE DEF s, n, pick
  <2> QED  BY <1>8, <2>1
<1> HIDE DEF s, n
<1>10. ASSUME NEW k \in K PROVE \E i \in 1 .. n : s[i] = k
  <2>1. rank[k] \in 1 .. n /\ rank[k] = Cardinality(Below(k)) + 1
    BY <1>5
  <2>2. /\ s[rank[k]] \in K
        /\ Cardinality(Below(s[rank[k]])) = rank[k] - 1
    BY <1>8, <2>1
  <2> HIDE DEF rank
  <2>3. Cardinality(Below(s[rank[k]])) = Cardinality(Below(k))
    BY <1>1, <1>2, <2>1, <2>2
  <2>4. s[rank[k]] = k
    BY <1>4, <2>2, <2>3
  <2> QED  BY <2>1, <2>4
<1>11. ASSUME NEW i \in 1 .. n, NEW j \in 1 .. n, i < j PROVE KeyLess(s[i], s[j])
  <2>1. /\ s[i] \in K /\ Cardinality(Below(s[i])) = i - 1
        /\ s[j] \in K /\ Cardinality(Below(s[j])) = j - 1
    BY <1>8
  <2>2. s[i] # s[j] /\ ~KeyLess(s[j], s[i])
    BY <1>1, <1>3, <1>11, <2>1
  <2> QED  BY <2>1, <2>2, KeyOrder
<1> QED  BY <1>1, <1>9, <1>10, <1>11 DEF n, s

-----------------------------------------------------------------------------
(* Concatenations *)

\* The concatenations of the first segments, one after the other.
Joins(f, seqs, n, S) ==
  /\ f \in [0 .. n -> Seq(S)]
  /\ f[0] = <<>>
  /\ \A k \in 1 .. n : f[k] = f[k - 1] \o seqs[k]

LEMMA JoinsExist ==
  ASSUME NEW S, NEW n \in Nat, NEW seqs \in [1 .. n -> Seq(S)]
  PROVE  \E f : Joins(f, seqs, n, S)
<1> DEFINE bad == {m \in 0 .. n : ~\E f : Joins(f, seqs, m, S)}
<1> SUFFICES ASSUME bad # {} PROVE FALSE
  <2>1. n \in 0 .. n
    OBVIOUS
  <2> QED  BY <2>1
<1>1. PICK m \in bad : \A y \in bad : m <= y
  <2>1. bad \subseteq Nat
    OBVIOUS
  <2> HIDE DEF bad
  <2> QED  BY <2>1, LeastNumber
<1>2. m \in 0 .. n /\ ~\E f : Joins(f, seqs, m, S)
  OBVIOUS
<1>3. m # 0
  <2> DEFINE f0 == [k \in 0 .. 0 |-> <<>>]
  <2>1. <<>> \in Seq(S)
    OBVIOUS
  <2>2. f0 \in [0 .. 0 -> Seq(S)] /\ f0[0] = <<>> /\ 1 .. 0 = {}
    BY <2>1
  <2>3. Joins(f0, seqs, 0, S)
    BY <2>2 DEF Joins
  <2> HIDE DEF f0
  <2> QED  BY <1>2, <2>3
<1>4. PICK g : Joins(g, seqs, m - 1, S)
  <2>1. m - 1 \in 0 .. n /\ ~(m <= m - 1)
    BY <1>2, <1>3
  <2> QED  BY <1>1, <2>1
<1> DEFINE h == [k \in 0 .. m |-> IF k = m THEN g[m - 1] \o seqs[m] ELSE g[k]]
<1>5. m \in Nat /\ m > 0 /\ seqs[m] \in Seq(S) /\ g[m - 1] \in Seq(S)
  BY <1>2, <1>3, <1>4 DEF Joins
<1>6. g[m - 1] \o seqs[m] \in Seq(S)
  BY <1>5, ConcatProperties
<1>7. h \in [0 .. m -> Seq(S)] /\ h[0] = <<>>
  BY <1>4, <1>5, <1>6 DEF Joins
<1>8. ASSUME NEW k \in 1 .. m PROVE h[k] = h[k - 1] \o seqs[k]
  <2>1. k - 1 \in 0 .. m - 1 /\ h[k - 1] = g[k - 1]
    BY <1>5
  <2>2. CASE k = m
    <3>1. h[k] = g[k - 1] \o seqs[k]
      BY <1>5, <2>2
    <3> QED  BY <2>1, <3>1
  <2>3. CASE k # m
    <3>1. k \in 1 .. m - 1 /\ h[k] = g[k]
      BY <1>5, <2>3
    <3>2. g[k] = g[k - 1] \o seqs[k]
      BY <1>4, <3>1 DEF Joins
    <3> QED  BY <2>1, <3>1, <3>2
  <2> QED  BY <2>2, <2>3
<1> HIDE DEF h
<1>9. Joins(h, seqs, m, S)
  BY <1>7, <1>8 DEF Joins
<1> QED  BY <1>2, <1>9

LEMMA FlattenSays ==
  ASSUME NEW S, NEW n \in Nat, NEW seqs \in [1 .. n -> Seq(S)]
  PROVE  \E f : Joins(f, seqs, n, S) /\ FlattenSeq(seqs) = f[n]
<1>1. seqs \in Seq(Seq(S)) /\ Len(seqs) = n
  OBVIOUS
<1>2. CASE n = 0
  <2>1. PICK f : Joins(f, seqs, n, S)
    BY JoinsExist
  <2>2. seqs = <<>> /\ FlattenSeq(seqs) = seqs
    BY <1>1, <1>2 DEF FlattenSeq
  <2>3. FlattenSeq(seqs) = f[n]
    BY <1>2, <2>1, <2>2 DEF Joins
  <2> QED  BY <2>1, <2>3
<1>3. CASE n # 0
  <2> DEFINE flat == CHOOSE g : g = [i \in 1 .. n |-> IF i = 1 THEN seqs[i] ELSE g[i - 1] \o seqs[i]]
  <2>1. FlattenSeq(seqs) = flat[n]
    BY <1>1, <1>3 DEF FlattenSeq
  <2>2. PICK f : Joins(f, seqs, n, S)
    BY JoinsExist
  <2> DEFINE e == [i \in 1 .. n |-> f[i]]
  <2>3. e = [i \in 1 .. n |-> IF i = 1 THEN seqs[i] ELSE e[i - 1] \o seqs[i]]
    <3>1. ASSUME NEW i \in 1 .. n PROVE e[i] = IF i = 1 THEN seqs[i] ELSE e[i - 1] \o seqs[i]
      <4>1. e[i] = f[i - 1] \o seqs[i] /\ seqs[i] \in Seq(S)
        BY <2>2 DEF Joins
      <4>2. CASE i = 1
        <5>1. f[i - 1] = <<>>
          BY <2>2, <4>2 DEF Joins
        <5>2. <<>> \o seqs[i] = seqs[i]
          BY <4>1, ConcatEmptySeq
        <5> QED  BY <4>1, <4>2, <5>1, <5>2
      <4>3. CASE i # 1
        <5>1. i - 1 \in 1 .. n /\ e[i - 1] = f[i - 1]
          BY <4>3
        <5> QED  BY <4>1, <4>3, <5>1
      <4> QED  BY <4>2, <4>3
    <3>2. e = [i \in 1 .. n |-> e[i]]
      OBVIOUS
    <3> HIDE DEF e
    <3> QED  BY <3>1, <3>2
  <2>4. flat = [i \in 1 .. n |-> IF i = 1 THEN seqs[i] ELSE flat[i - 1] \o seqs[i]]
    <3>1. flat = CHOOSE g : g = [i \in 1 .. n |-> IF i = 1 THEN seqs[i] ELSE g[i - 1] \o seqs[i]]
      OBVIOUS
    <3> HIDE DEF flat, e
    <3> QED  BY <2>3, <3>1, Zenon
  <2> HIDE DEF flat
  <2>5. \A i \in 1 .. n : flat[i] = IF i = 1 THEN seqs[i] ELSE flat[i - 1] \o seqs[i]
    BY <2>4
  <2>6. \A i \in 1 .. n : flat[i] = f[i]
    <3> DEFINE bad == {i \in 1 .. n : flat[i] # f[i]}
    <3> SUFFICES ASSUME bad # {} PROVE FALSE
      OBVIOUS
    <3>1. PICK m \in bad : \A y \in bad : m <= y
      <4>1. bad \subseteq Nat
        OBVIOUS
      <4> HIDE DEF bad
      <4> QED  BY <4>1, LeastNumber
    <3>2. m \in 1 .. n /\ flat[m] # f[m] /\ f[m] = f[m - 1] \o seqs[m] /\ seqs[m] \in Seq(S)
      BY <2>2 DEF Joins
    <3>3. CASE m = 1
      <4>1. f[m - 1] = <<>>
        BY <2>2, <3>3 DEF Joins
      <4>2. flat[m] = seqs[m]
        BY <2>5, <3>2, <3>3
      <4>3. <<>> \o seqs[m] = seqs[m]
        BY <3>2, ConcatEmptySeq
      <4> QED  BY <3>2, <4>1, <4>2, <4>3
    <3>4. CASE m # 1
      <4>1. m - 1 \in 1 .. n /\ ~(m <= m - 1)
        BY <3>2, <3>4
      <4>2. flat[m - 1] = f[m - 1]
        BY <3>1, <4>1
      <4> QED  BY <2>5, <3>2, <3>4, <4>2
    <3> QED  BY <3>3, <3>4
  <2>7. FlattenSeq(seqs) = f[n]
    BY <1>3, <2>1, <2>6
  <2> QED  BY <2>2, <2>7
<1> QED  BY <1>2, <1>3

LEMMA Enclosed ==
  ASSUME NEW S, NEW body \in Seq(S), NEW e, NEW w, w = <<e>> \o body \o <<e>>
  PROVE  /\ w[1] = e /\ w[Len(w)] = e
         /\ SubSeq(w, 2, Len(w) - 1) = body
<1> DEFINE U == S \cup {e}
           n == Len(body)
           front == <<e>> \o body
<1>1. body \in Seq(U) /\ <<e>> \in Seq(U) /\ Len(<<e>>) = 1 /\ <<e>>[1] = e /\ n \in Nat
  <2>1. body \in Seq(U)
    BY SeqMonotonic
  <2> QED  BY <2>1
<1> HIDE DEF U, n
<1>2. /\ front \in Seq(U) /\ Len(front) = n + 1
      /\ \A i \in 1 .. n + 1 : front[i] = IF i <= 1 THEN e ELSE body[i - 1]
  <2>1. /\ front \in Seq(U) /\ Len(front) = Len(<<e>>) + n
        /\ \A i \in 1 .. Len(<<e>>) + n :
             front[i] = IF i <= Len(<<e>>) THEN <<e>>[i] ELSE body[i - Len(<<e>>)]
    BY <1>1, ConcatProperties DEF n
  <2> HIDE DEF front
  <2> QED  BY <1>1, <2>1
<1> HIDE DEF front
<1>3. /\ w \in Seq(U) /\ Len(w) = n + 2
      /\ \A i \in 1 .. n + 2 : w[i] = IF i <= n + 1 THEN front[i] ELSE e
  <2>1. /\ w \in Seq(U) /\ Len(w) = Len(front) + Len(<<e>>)
        /\ \A i \in 1 .. Len(front) + Len(<<e>>) :
             w[i] = IF i <= Len(front) THEN front[i] ELSE <<e>>[i - Len(front)]
    BY <1>1, <1>2, ConcatProperties DEF front
  <2> QED  BY <1>1, <1>2, <2>1
<1>4. w[1] = e /\ w[Len(w)] = e
  BY <1>1, <1>2, <1>3
<1>5. \A i \in 1 .. n : w[i + 1] = body[i]
  BY <1>1, <1>2, <1>3
<1>6. /\ SubSeq(w, 2, n + 1) \in Seq(U) /\ Len(SubSeq(w, 2, n + 1)) = n
      /\ \A i \in 1 .. n : SubSeq(w, 2, n + 1)[i] = w[i + 1]
  BY <1>1, <1>3
<1>7. SubSeq(w, 2, n + 1) = body
  BY <1>1, <1>5, <1>6, SeqEqual DEF n
<1> QED  BY <1>1, <1>3, <1>4, <1>7

LEMMA Concatenated ==
  ASSUME NEW S, NEW u \in Seq(S), NEW v \in Seq(S)
  PROVE  ToSet(u \o v) = ToSet(u) \cup ToSet(v)
<1> DEFINE w == u \o v
<1>1. /\ Len(u) \in Nat /\ Len(v) \in Nat /\ DOMAIN u = 1 .. Len(u) /\ DOMAIN v = 1 .. Len(v)
      /\ w \in Seq(S) /\ Len(w) = Len(u) + Len(v) /\ DOMAIN w = 1 .. Len(w)
  BY ConcatProperties
<1>2. \A i \in 1 .. Len(u) + Len(v) : w[i] = IF i <= Len(u) THEN u[i] ELSE v[i - Len(u)]
  BY ConcatProperties
<1> HIDE DEF w
<1>3. ASSUME NEW i \in 1 .. Len(u) PROVE i \in 1 .. Len(w) /\ w[i] = u[i]
  BY <1>1, <1>2
<1>4. ASSUME NEW i \in 1 .. Len(v)
      PROVE  Len(u) + i \in 1 .. Len(w) /\ w[Len(u) + i] = v[i]
  <2>1. Len(u) + i \in 1 .. Len(u) + Len(v) /\ ~(Len(u) + i <= Len(u)) /\ (Len(u) + i) - Len(u) = i
    BY <1>1
  <2> QED  BY <1>1, <1>2, <2>1
<1>5. ASSUME NEW i \in 1 .. Len(w)
      PROVE  w[i] \in {u[j] : j \in 1 .. Len(u)} \cup {v[j] : j \in 1 .. Len(v)}
  <2>1. CASE i <= Len(u)
    BY <1>1, <1>2, <2>1
  <2>2. CASE ~(i <= Len(u))
    <3>1. i - Len(u) \in 1 .. Len(v) /\ w[i] = v[i - Len(u)]
      BY <1>1, <1>2, <2>2
    <3> QED  BY <3>1
  <2> QED  BY <2>1, <2>2
<1>6. ToSet(w) \subseteq ToSet(u) \cup ToSet(v)
  BY <1>1, <1>5 DEF ToSet
<1>7. ToSet(u) \subseteq ToSet(w)
  BY <1>1, <1>3 DEF ToSet
<1>8. ToSet(v) \subseteq ToSet(w)
  BY <1>1, <1>4 DEF ToSet
<1> QED  BY <1>6, <1>7, <1>8 DEF w

-----------------------------------------------------------------------------
(* What a file says, record by record *)

HasSoa(s) == \E j \in 1 .. Len(s) : s[j].type = SOA
KeptOf(s) == {s[i] : i \in {i \in DOMAIN s : \E j \in 1 .. i : s[j].type = SOA}}

LEMMA KeptAppend ==
  ASSUME NEW S, NEW s \in Seq(S), NEW r \in S
  PROVE  /\ HasSoa(Append(s, r)) <=> HasSoa(s) \/ r.type = SOA
         /\ KeptOf(Append(s, r)) = IF HasSoa(s) \/ r.type = SOA THEN KeptOf(s) \cup {r} ELSE {}
         /\ ~HasSoa(s) => KeptOf(s) = {}
<1> DEFINE a == Append(s, r)
           n == Len(s)
<1>1. /\ n \in Nat /\ DOMAIN s = 1 .. n /\ DOMAIN a = 1 .. n + 1 /\ Len(a) = n + 1
      /\ a[n + 1] = r /\ \A i \in 1 .. n : a[i] = s[i]
  OBVIOUS
<1> HIDE DEF a, n
<1>2. HasSoa(s) <=> \E j \in 1 .. n : s[j].type = SOA
  BY DEF HasSoa, n
<1>3. HasSoa(a) <=> HasSoa(s) \/ r.type = SOA
  BY <1>1, <1>2 DEF HasSoa
<1>4. ~HasSoa(s) => KeptOf(s) = {}
  BY <1>1, <1>2 DEF KeptOf
<1>5. \A i \in 1 .. n : (\E j \in 1 .. i : a[j].type = SOA) <=> (\E j \in 1 .. i : s[j].type = SOA)
  BY <1>1
<1>6. (\E j \in 1 .. n + 1 : a[j].type = SOA) <=> HasSoa(s) \/ r.type = SOA
  BY <1>1, <1>2
<1>7. ASSUME NEW x
      PROVE  x \in KeptOf(a) <=> x \in KeptOf(s) \/ (x = r /\ (HasSoa(s) \/ r.type = SOA))
  <2>1. x \in KeptOf(a) <=> \E i \in 1 .. n + 1 : x = a[i] /\ \E j \in 1 .. i : a[j].type = SOA
    BY <1>1 DEF KeptOf
  <2>2. x \in KeptOf(s) <=> \E i \in 1 .. n : x = s[i] /\ \E j \in 1 .. i : s[j].type = SOA
    BY <1>1 DEF KeptOf
  <2>3. ASSUME x \in KeptOf(a)
        PROVE  x \in KeptOf(s) \/ (x = r /\ (HasSoa(s) \/ r.type = SOA))
    <3>1. PICK i \in 1 .. n + 1 : x = a[i] /\ \E j \in 1 .. i : a[j].type = SOA
      BY <2>1, <2>3
    <3>2. CASE i = n + 1
      BY <1>1, <1>6, <3>1, <3>2
    <3>3. CASE i \in 1 .. n
      BY <1>1, <1>5, <2>2, <3>1, <3>3
    <3> QED  BY <1>1, <3>2, <3>3
  <2>4. ASSUME x \in KeptOf(s) PROVE x \in KeptOf(a)
    <3>1. PICK i \in 1 .. n : x = s[i] /\ \E j \in 1 .. i : s[j].type = SOA
      BY <2>2, <2>4
    <3>2. i \in 1 .. n + 1 /\ x = a[i] /\ \E j \in 1 .. i : a[j].type = SOA
      BY <1>1, <1>5, <3>1
    <3> QED  BY <2>1, <3>2
  <2>5. ASSUME x = r, HasSoa(s) \/ r.type = SOA PROVE x \in KeptOf(a)
    <3>1. n + 1 \in 1 .. n + 1 /\ x = a[n + 1]
      BY <1>1, <2>5
    <3> QED  BY <1>6, <2>1, <2>5, <3>1
  <2> QED  BY <2>3, <2>4, <2>5
<1>8. KeptOf(a) = IF HasSoa(s) \/ r.type = SOA THEN KeptOf(s) \cup {r} ELSE {}
  BY <1>4, <1>7
<1> QED  BY <1>3, <1>4, <1>8 DEF a

\* Where a file holds the records that belong to the zone, and those of one
\* name and type among them.
KeptAt(s) == {i \in DOMAIN s : \E j \in 1 .. i : s[j].type = SOA}
Places(s, n, t) == {i \in KeptAt(s) : s[i].name = n /\ s[i].type = t}

LEMMA PlacesFinite ==
  ASSUME NEW S, NEW s \in Seq(S), NEW T, T \subseteq KeptAt(s)
  PROVE  IsFiniteSet(T) /\ Cardinality(T) \in Nat
<1>1. Len(s) \in Nat /\ DOMAIN s = 1 .. Len(s)
  OBVIOUS
<1>2. IsFiniteSet(1 .. Len(s))
  BY <1>1, FS_Interval
<1>3. T \in SUBSET (1 .. Len(s))
  BY <1>1 DEF KeptAt
<1> QED  BY <1>2, <1>3, FS_Subset, FS_CardinalityType

\* Reading one more line adds a place for its name and type.
LEMMA PlacesAppend ==
  ASSUME NEW S, NEW s \in Seq(S), NEW r \in S, NEW n, NEW t
  PROVE  /\ ~HasSoa(s) => Places(s, n, t) = {}
         /\ Cardinality(Places(Append(s, r), n, t)) =
              IF (HasSoa(s) \/ r.type = SOA) /\ r.name = n /\ r.type = t
              THEN Cardinality(Places(s, n, t)) + 1 ELSE Cardinality(Places(s, n, t))
<1> DEFINE a == Append(s, r)
           l == Len(s)
<1>1. /\ l \in Nat /\ DOMAIN s = 1 .. l /\ DOMAIN a = 1 .. l + 1
      /\ a[l + 1] = r /\ \A i \in 1 .. l : a[i] = s[i]
  OBVIOUS
<1> HIDE DEF a, l
<1>2. HasSoa(s) <=> \E j \in 1 .. l : s[j].type = SOA
  BY DEF HasSoa, l
<1>3. ASSUME ~HasSoa(s) PROVE Places(s, n, t) = {}
  BY <1>1, <1>2, <1>3 DEF Places, KeptAt
<1>4. ASSUME NEW i \in 1 .. l PROVE i \in KeptAt(a) <=> i \in KeptAt(s)
  BY <1>1 DEF KeptAt
<1>5. l + 1 \in KeptAt(a) <=> HasSoa(s) \/ r.type = SOA
  <2>1. (\E j \in 1 .. l + 1 : a[j].type = SOA) <=> HasSoa(s) \/ r.type = SOA
    BY <1>1, <1>2
  <2> QED  BY <1>1, <2>1 DEF KeptAt
<1>6. KeptAt(a) \subseteq 1 .. l + 1 /\ KeptAt(s) \subseteq 1 .. l
  BY <1>1 DEF KeptAt
<1>7. \A i \in KeptAt(a) : i = l + 1 \/ i \in 1 .. l
  BY <1>1, <1>6
<1>8. Places(a, n, t) = IF (HasSoa(s) \/ r.type = SOA) /\ r.name = n /\ r.type = t
                        THEN Places(s, n, t) \cup {l + 1} ELSE Places(s, n, t)
  BY <1>1, <1>4, <1>5, <1>6, <1>7 DEF Places
<1>9. IsFiniteSet(Places(s, n, t)) /\ l + 1 \notin Places(s, n, t)
  BY <1>1, <1>6, PlacesFinite DEF Places
<1>10. Cardinality(Places(s, n, t) \cup {l + 1}) = Cardinality(Places(s, n, t)) + 1
  BY <1>9, FS_AddElement
<1> QED  BY <1>3, <1>8, <1>10 DEF a

-----------------------------------------------------------------------------
(* The map of a zone *)

\* The map holds the records of the set `said', each in the vector of its name
\* and type.
Holds(z, said, S) ==
  /\ z = [origin |-> z.origin, soa |-> z.soa, records |-> z.records]
  /\ \A k \in DOMAIN z.records : k = <<k[1], k[2]>> /\ z.records[k] # <<>>
  /\ \A n, t : /\ Lookup(z, n, t) \in Seq(S)
               /\ ToSet(Lookup(z, n, t)) = {r \in said : r.name = n /\ r.type = t}

LEMMA NewZoneHolds ==
  ASSUME NEW o, NEW soa, NEW S
  PROVE  Holds(NewZone(o, soa), {}, S) /\ NewZone(o, soa).origin = o
<1>1. \A n, t : Lookup(NewZone(o, soa), n, t) = <<>>
  BY DEF Lookup, NewZone
<1>2. <<>> \in Seq(S)
  OBVIOUS
<1>3. ToSet(<<>>) = {}
  BY DEF ToSet
<1> QED  BY <1>1, <1>2, <1>3 DEF Holds, NewZone

LEMMA AddRecordHolds ==
  ASSUME NEW z, NEW said, NEW S, NEW r \in S, Holds(z, said, S)
  PROVE  Holds(AddRecord(z, r), said \cup {r}, S) /\ AddRecord(z, r).origin = z.origin
<1> DEFINE key == <<r.name, r.type>>
           old == Lookup(z, r.name, r.type)
           map == [k \in DOMAIN z.records \cup {key} |-> IF k = key THEN Append(old, r) ELSE z.records[k]]
           y == AddRecord(z, r)
<1>1. y = [origin |-> z.origin, soa |-> z.soa, records |-> map]
  <2> HIDE DEF old
  <2>1. y = [z EXCEPT !.records = map]
    BY DEF AddRecord, old
  <2> HIDE DEF map, y
  <2> QED  BY <2>1 DEF Holds
<1>2. y.origin = z.origin /\ y.soa = z.soa /\ y.records = map
  BY <1>1
<1>3. old \in Seq(S) /\ ToSet(old) = {x \in said : x.name = r.name /\ x.type = r.type}
  BY DEF Holds
<1>4. /\ Append(old, r) \in Seq(S) /\ Append(old, r) # <<>>
      /\ ToSet(Append(old, r)) = ToSet(old) \cup {r}
  BY <1>3, ElementsOf
<1> HIDE DEF y, old
<1>5. \A n, t : Lookup(y, n, t) = IF <<n, t>> = key THEN Append(old, r) ELSE Lookup(z, n, t)
  BY <1>2 DEF Lookup
<1>6. \A k \in DOMAIN y.records : k = <<k[1], k[2]>> /\ y.records[k] # <<>>
  BY <1>2, <1>4 DEF Holds
<1>7. ASSUME NEW n, NEW t
      PROVE  /\ Lookup(y, n, t) \in Seq(S)
             /\ ToSet(Lookup(y, n, t)) = {x \in said \cup {r} : x.name = n /\ x.type = t}
  <2>1. CASE <<n, t>> = key
    <3>1. n = r.name /\ t = r.type
      BY <2>1
    <3> QED  BY <1>3, <1>4, <1>5, <2>1, <3>1
  <2>2. CASE <<n, t>> # key
    <3>1. ~(r.name = n /\ r.type = t)
      BY <2>2
    <3>2. {x \in said \cup {r} : x.name = n /\ x.type = t} = {x \in said : x.name = n /\ x.type = t}
      BY <3>1
    <3> QED  BY <1>5, <2>2, <3>2 DEF Holds
  <2> QED  BY <2>1, <2>2
<1>8. y = [origin |-> y.origin, soa |-> y.soa, records |-> y.records]
  BY <1>1, <1>2
<1>9. Holds(y, said \cup {r}, S)
  BY <1>6, <1>7, <1>8 DEF Holds
<1> QED  BY <1>2, <1>9 DEF y

\* A vector of the map has one record for every line it comes from.
Tallies(z, s) == \A n, t : Len(Lookup(z, n, t)) = Cardinality(Places(s, n, t))

LEMMA NewZoneTallies ==
  ASSUME NEW o, NEW soa, NEW S, NEW s \in Seq(S), ~HasSoa(s)
  PROVE  Tallies(NewZone(o, soa), s)
<1>1. ASSUME NEW n, NEW t
      PROVE  Len(Lookup(NewZone(o, soa), n, t)) = Cardinality(Places(s, n, t))
  <2>1. Lookup(NewZone(o, soa), n, t) = <<>>
    BY DEF Lookup, NewZone
  <2>2. Places(s, n, t) = {}
    BY DEF HasSoa, Places, KeptAt
  <2>3. Len(<<>>) = 0
    OBVIOUS
  <2> QED  BY <2>1, <2>2, <2>3, FS_EmptySet
<1> QED  BY <1>1 DEF Tallies

LEMMA AddRecordTallies ==
  ASSUME NEW S, NEW s \in Seq(S), NEW r \in S, NEW said, NEW z, Holds(z, said, S), Tallies(z, s),
         HasSoa(s) \/ r.type = SOA
  PROVE  Tallies(AddRecord(z, r), Append(s, r))
<1> DEFINE y == AddRecord(z, r)
           key == <<r.name, r.type>>
           old == Lookup(z, r.name, r.type)
<1>1. \A n, t : Lookup(y, n, t) = IF <<n, t>> = key THEN Append(old, r) ELSE Lookup(z, n, t)
  <2> DEFINE map == [k \in DOMAIN z.records \cup {key} |->
                       IF k = key THEN Append(old, r) ELSE z.records[k]]
  <2>1. y = [z EXCEPT !.records = map] /\ z = [origin |-> z.origin, soa |-> z.soa, records |-> z.records]
    BY DEF AddRecord, Holds
  <2> HIDE DEF old, map, y
  <2>2. y.records = map
    BY <2>1
  <2> QED  BY <2>2 DEF Lookup, map
<1>2. Len(Append(old, r)) = Len(old) + 1
  BY DEF Holds
<1> HIDE DEF y
<1>3. ASSUME NEW n, NEW t PROVE Len(Lookup(y, n, t)) = Cardinality(Places(Append(s, r), n, t))
  <2>1. Len(Lookup(z, n, t)) = Cardinality(Places(s, n, t))
    BY DEF Tallies
  <2>2. Cardinality(Places(Append(s, r), n, t)) =
          IF r.name = n /\ r.type = t
          THEN Cardinality(Places(s, n, t)) + 1 ELSE Cardinality(Places(s, n, t))
    BY PlacesAppend
  <2>3. CASE r.name = n /\ r.type = t
    <3>1. Lookup(y, n, t) = Append(old, r) /\ old = Lookup(z, n, t)
      BY <1>1, <2>3
    <3> QED  BY <1>2, <2>1, <2>2, <2>3, <3>1
  <2>4. CASE ~(r.name = n /\ r.type = t)
    <3>1. <<n, t>> # key
      BY <2>4
    <3>2. Lookup(y, n, t) = Lookup(z, n, t)
      BY <1>1, <3>1
    <3> QED  BY <2>1, <2>2, <2>4, <3>2
  <2> QED  BY <2>3, <2>4
<1> QED  BY <1>3 DEF Tallies, y

-----------------------------------------------------------------------------
(* What a transfer holds *)

Key(r) == <<r.name, r.type>>

Ordered(w) == \A a, b \in 1 .. Len(w) : a < b => ~KeyLess(Key(w[b]), Key(w[a]))

LEMMA OrderedJoin ==
  ASSUME NEW S, \A r \in S : Key(r) \in Keys,
         NEW u \in Seq(S), NEW v \in Seq(S), Ordered(u),
         NEW k \in Keys, \A r \in ToSet(u) : KeyLess(Key(r), k), \A r \in ToSet(v) : Key(r) = k
  PROVE  Ordered(u \o v)
<1> DEFINE w == u \o v
<1>1. /\ Len(u) \in Nat /\ Len(v) \in Nat
      /\ \A i \in 1 .. Len(u) : u[i] \in ToSet(u) /\ u[i] \in S
      /\ \A i \in 1 .. Len(v) : v[i] \in ToSet(v) /\ v[i] \in S
  BY DEF ToSet
<1>2. /\ Len(w) = Len(u) + Len(v)
      /\ \A i \in 1 .. Len(u) + Len(v) : w[i] = IF i <= Len(u) THEN u[i] ELSE v[i - Len(u)]
  BY ConcatProperties
<1> HIDE DEF w
<1>3. ASSUME NEW a \in 1 .. Len(w), NEW b \in 1 .. Len(w), a < b
      PROVE  ~KeyLess(Key(w[b]), Key(w[a]))
  <2>1. CASE b <= Len(u)
    <3>1. a \in 1 .. Len(u) /\ b \in 1 .. Len(u) /\ w[a] = u[a] /\ w[b] = u[b]
      BY <1>1, <1>2, <1>3, <2>1
    <3> QED  BY <1>3, <3>1 DEF Ordered
  <2>2. CASE ~(b <= Len(u))
    <3>1. b - Len(u) \in 1 .. Len(v) /\ w[b] = v[b - Len(u)]
      BY <1>1, <1>2, <2>2
    <3>2. Key(w[b]) = k
      BY <1>1, <3>1
    <3>3. CASE a <= Len(u)
      <4>1. a \in 1 .. Len(u) /\ w[a] = u[a]
        BY <1>1, <1>2, <3>3
      <4>2. KeyLess(Key(w[a]), k) /\ Key(w[a]) \in Keys
        BY <1>1, <4>1
      <4> QED  BY <3>2, <4>2, KeyOrder
    <3>4. CASE ~(a <= Len(u))
      <4>1. a - Len(u) \in 1 .. Len(v) /\ w[a] = v[a - Len(u)]
        BY <1>1, <1>2, <3>4
      <4>2. Key(w[a]) = k
        BY <1>1, <4>1
      <4> QED  BY <3>2, <4>2, KeyOrder
    <3> QED  BY <3>3, <3>4
  <2> QED  BY <2>1, <2>2
<1> QED  BY <1>3 DEF Ordered, w

\* The segments of a transfer, one for each key in order: joined, they hold the
\* records of these keys, each as often as the file does, in order.
LEMMA JoinedSay ==
  ASSUME NEW S, \A r \in S : Key(r) \in Keys, NEW s \in Seq(S),
         NEW n \in Nat, NEW keys \in [1 .. n -> Keys],
         \A i, j \in 1 .. n : i < j => KeyLess(keys[i], keys[j]),
         NEW segs \in [1 .. n -> Seq(S)],
         \A i \in 1 .. n : /\ ToSet(segs[i]) = {r \in KeptOf(s) : Key(r) = keys[i]}
                           /\ Len(segs[i]) = Cardinality({p \in KeptAt(s) : Key(s[p]) = keys[i]}),
         NEW f, Joins(f, segs, n, S)
  PROVE  /\ ToSet(f[n]) = {r \in KeptOf(s) : \E i \in 1 .. n : Key(r) = keys[i]}
         /\ Len(f[n]) = Cardinality({p \in KeptAt(s) : \E i \in 1 .. n : Key(s[p]) = keys[i]})
         /\ Ordered(f[n])
<1> DEFINE Recs(m) == {r \in KeptOf(s) : \E i \in 1 .. m : Key(r) = keys[i]}
           Upto(m) == {p \in KeptAt(s) : \E i \in 1 .. m : Key(s[p]) = keys[i]}
           Seg(m) == {p \in KeptAt(s) : Key(s[p]) = keys[m]}
           P(m) == ToSet(f[m]) = Recs(m) /\ Len(f[m]) = Cardinality(Upto(m)) /\ Ordered(f[m])
           bad == {m \in 0 .. n : ~P(m)}
<1> HIDE DEF Recs, Upto, Seg, P, bad
<1>1. P(0)
  <2>1. f[0] = <<>> /\ 1 .. 0 = {}
    BY DEF Joins
  <2>2. ToSet(f[0]) = {} /\ Len(f[0]) = 0 /\ Recs(0) = {} /\ Upto(0) = {}
    BY <2>1 DEF ToSet, Recs, Upto
  <2>3. Ordered(f[0])
    BY <2>1, <2>2 DEF Ordered
  <2>4. Cardinality({}) = 0
    BY FS_EmptySet
  <2> QED  BY <2>2, <2>3, <2>4 DEF P
<1>2. ASSUME NEW m \in 1 .. n, P(m - 1) PROVE P(m)
  <2>1. /\ f[m] = f[m - 1] \o segs[m]
        /\ f[m - 1] \in Seq(S) /\ segs[m] \in Seq(S) /\ keys[m] \in Keys
    <3>1. m - 1 \in 0 .. n
      OBVIOUS
    <3> QED  BY <3>1 DEF Joins
  <2>2. m \in 1 .. m /\ \A i \in 1 .. m : i = m \/ i \in 1 .. m - 1
    OBVIOUS
  <2>3. \A i \in 1 .. m - 1 : i \in 1 .. m /\ i \in 1 .. n /\ i < m
    OBVIOUS
  <2>4. ToSet(segs[m]) = {r \in KeptOf(s) : Key(r) = keys[m]} /\ Len(segs[m]) = Cardinality(Seg(m))
    BY DEF Seg
  <2>5. Recs(m) = Recs(m - 1) \cup ToSet(segs[m])
    BY <2>2, <2>3, <2>4 DEF Recs
  <2>6. ToSet(f[m]) = Recs(m)
    <3>1. ToSet(f[m - 1]) = Recs(m - 1)
      BY <1>2 DEF P
    <3> QED  BY <2>1, <2>5, <3>1, Concatenated
  <2>7. Upto(m) = Upto(m - 1) \cup Seg(m)
    BY <2>2, <2>3 DEF Upto, Seg
  <2>8. \A i \in 1 .. m - 1 : KeyLess(keys[i], keys[m]) /\ keys[i] # keys[m]
    <3>1. \A i \in 1 .. m - 1 : KeyLess(keys[i], keys[m])
      BY <2>3
    <3> QED  BY <2>1, <3>1, KeyOrder
  <2>9. Upto(m - 1) \cap Seg(m) = {}
    BY <2>8 DEF Upto, Seg
  <2>10. Len(f[m]) = Cardinality(Upto(m))
    <3>1. Upto(m - 1) \subseteq KeptAt(s) /\ Seg(m) \subseteq KeptAt(s)
      BY DEF Upto, Seg
    <3>2. Len(f[m - 1]) = Cardinality(Upto(m - 1))
      BY <1>2 DEF P
    <3>3. /\ IsFiniteSet(Upto(m - 1)) /\ Cardinality(Upto(m - 1)) \in Nat
          /\ IsFiniteSet(Seg(m)) /\ Cardinality(Seg(m)) \in Nat
      BY <3>1, PlacesFinite
    <3>4. Cardinality(Upto(m - 1) \cup Seg(m)) =
            Cardinality(Upto(m - 1)) + Cardinality(Seg(m)) - Cardinality(Upto(m - 1) \cap Seg(m))
      BY <3>3, FS_Union
    <3>5. Len(f[m]) = Len(f[m - 1]) + Len(segs[m])
      BY <2>1, ConcatProperties
    <3>6. Cardinality(Upto(m)) = Cardinality(Upto(m - 1)) + Cardinality(Seg(m)) - Cardinality({})
      BY <2>7, <2>9, <3>4
    <3>7. Cardinality({}) = 0
      BY FS_EmptySet
    <3>8. Cardinality(Upto(m)) = Cardinality(Upto(m - 1)) + Cardinality(Seg(m))
      BY <3>3, <3>6, <3>7
    <3> QED  BY <2>4, <3>2, <3>5, <3>8
  <2>11. Ordered(f[m])
    <3>1. \A r \in ToSet(f[m - 1]) : KeyLess(Key(r), keys[m])
      BY <1>2, <2>8 DEF P, Recs
    <3>2. \A r \in ToSet(segs[m]) : Key(r) = keys[m]
      BY <2>4
    <3>3. Ordered(f[m - 1])
      BY <1>2 DEF P
    <3>4. Ordered(f[m - 1] \o segs[m])
      BY <2>1, <3>1, <3>2, <3>3, OrderedJoin
    <3> QED  BY <2>1, <3>4
  <2> QED  BY <2>6, <2>10, <2>11 DEF P
<1>3. bad = {}
  <2> SUFFICES ASSUME bad # {} PROVE FALSE
    OBVIOUS
  <2>1. PICK m \in bad : \A y \in bad : m <= y
    <3>1. bad \subseteq Nat
      BY DEF bad
    <3> QED  BY <3>1, LeastNumber
  <2>2. m \in 0 .. n /\ ~P(m)
    BY DEF bad
  <2>3. m \in 1 .. n
    BY <1>1, <2>2
  <2>4. m - 1 \in 0 .. n /\ ~(m <= m - 1)
    BY <2>3
  <2>5. P(m - 1)
    BY <2>1, <2>4 DEF bad
  <2> QED  BY <1>2, <2>2, <2>3, <2>5
<1>4. P(n)
  <2>1. n \in 0 .. n
    OBVIOUS
  <2> QED  BY <1>3, <2>1 DEF bad
<1> QED  BY <1>4 DEF P, Recs, Upto

\* What get_all_records sends between the two SOAs, in terms of the file.
LEMMA BodySays ==
  ASSUME NEW S, \A r \in S : Key(r) \in Keys, NEW s \in Seq(S),
         NEW z, Holds(z, KeptOf(s), S), Tallies(z, s)
  PROVE  \E body \in Seq(S) :
           /\ GetAllRecords(z) = <<GetSoaRecord(z)>> \o body \o <<GetSoaRecord(z)>>
           /\ ToSet(body) = {r \in KeptOf(s) : r.type # SOA}
           /\ Len(body) = Cardinality({p \in KeptAt(s) : s[p].type # SOA})
           /\ Ordered(body)
<1> DEFINE K == {k \in DOMAIN z.records : k[2] # SOA}
           keys == SortedKeys(K)
           n == Cardinality(K)
           segs == [i \in DOMAIN keys |-> z.records[keys[i]]]
<1>1. /\ Len(s) \in Nat /\ DOMAIN s = 1 .. Len(s) /\ \A p \in DOMAIN s : s[p] \in S
      /\ \A r \in KeptOf(s) : r \in S /\ \E p \in KeptAt(s) : r = s[p]
      /\ \A p \in KeptAt(s) : p \in DOMAIN s /\ s[p] \in KeptOf(s)
  BY DEF KeptOf, KeptAt
<1>2. ASSUME NEW k \in DOMAIN z.records
      PROVE  /\ z.records[k] \in Seq(S)
             /\ ToSet(z.records[k]) = {r \in KeptOf(s) : Key(r) = k}
             /\ Len(z.records[k]) = Cardinality({p \in KeptAt(s) : Key(s[p]) = k})
             /\ \E r \in KeptOf(s) : Key(r) = k
  <2>1. k = <<k[1], k[2]>> /\ z.records[k] # <<>>
    BY DEF Holds
  <2>2. z.records[k] = Lookup(z, k[1], k[2])
    BY <2>1 DEF Lookup
  <2>3. \A r : Key(r) = k <=> r.name = k[1] /\ r.type = k[2]
    BY <2>1 DEF Key
  <2>4. /\ z.records[k] \in Seq(S)
        /\ ToSet(z.records[k]) = {r \in KeptOf(s) : r.name = k[1] /\ r.type = k[2]}
    BY <2>2 DEF Holds
  <2>5. Len(z.records[k]) = Cardinality(Places(s, k[1], k[2]))
    BY <2>2 DEF Tallies
  <2>6. Places(s, k[1], k[2]) = {p \in KeptAt(s) : Key(s[p]) = k}
    BY <2>3 DEF Places
  <2>7. ToSet(z.records[k]) # {}
    BY <2>1, <2>4, ElementsOf
  <2> QED  BY <2>3, <2>4, <2>5, <2>6, <2>7
<1>3. ASSUME NEW r \in KeptOf(s) PROVE Key(r) \in DOMAIN z.records
  <2>1. r \in ToSet(Lookup(z, r.name, r.type))
    BY DEF Holds
  <2>2. ToSet(<<>>) = {}
    BY DEF ToSet
  <2> QED  BY <2>1, <2>2 DEF Lookup, Key
<1>4. K \subseteq Keys
  BY <1>1, <1>2
<1>5. IsFiniteSet(K)
  <2> DEFINE g == [p \in DOMAIN s |-> Key(s[p])]
             T == {Key(s[p]) : p \in DOMAIN s}
  <2>1. IsFiniteSet(DOMAIN s)
    BY <1>1, FS_Interval
  <2>2. g \in Surjection(DOMAIN s, T)
    BY DEF Surjection
  <2>3. ASSUME NEW k \in K PROVE k \in T
    <3>1. PICK r \in KeptOf(s) : Key(r) = k
      BY <1>2
    <3>2. PICK p \in DOMAIN s : r = s[p]
      BY <1>1
    <3> QED  BY <3>1, <3>2
  <2> HIDE DEF K, g, T
  <2>4. IsFiniteSet(T)
    BY <2>1, <2>2, FS_Surjection
  <2> QED  BY <2>3, <2>4, FS_Subset
<1>6. /\ n \in Nat /\ keys \in [1 .. n -> K]
      /\ \A k \in K : \E i \in 1 .. n : keys[i] = k
      /\ \A i, j \in 1 .. n : i < j => KeyLess(keys[i], keys[j])
  <2> HIDE DEF K
  <2> QED  BY <1>4, <1>5, SortedKeysSay
<1>7. GetAllRecords(z) = <<GetSoaRecord(z)>> \o FlattenSeq(segs) \o <<GetSoaRecord(z)>>
  BY DEF GetAllRecords
<1> HIDE DEF keys, n
<1>8. \A i \in 1 .. n : /\ i \in DOMAIN keys /\ keys[i] \in DOMAIN z.records
                        /\ keys[i] \in Keys /\ keys[i][2] # SOA
  BY <1>4, <1>6
<1>9. segs \in [1 .. n -> Seq(S)] /\ \A i \in 1 .. n : segs[i] = z.records[keys[i]]
  <2>1. DOMAIN keys = 1 .. n
    BY <1>6
  <2> HIDE DEF K
  <2> QED  BY <1>2, <1>8, <2>1
<1> HIDE DEF segs
<1>10. PICK f : Joins(f, segs, n, S) /\ FlattenSeq(segs) = f[n]
  <2>1. n \in Nat /\ segs \in [1 .. n -> Seq(S)]
    BY <1>6, <1>9
  <2> HIDE DEF K
  <2> QED  BY <2>1, FlattenSays
<1>11. /\ ToSet(f[n]) = {r \in KeptOf(s) : \E i \in 1 .. n : Key(r) = keys[i]}
       /\ Len(f[n]) = Cardinality({p \in KeptAt(s) : \E i \in 1 .. n : Key(s[p]) = keys[i]})
       /\ Ordered(f[n])
  <2>1. keys \in [1 .. n -> Keys]
    BY <1>4, <1>6
  <2>2. \A i \in 1 .. n : /\ ToSet(segs[i]) = {r \in KeptOf(s) : Key(r) = keys[i]}
                          /\ Len(segs[i]) = Cardinality({p \in KeptAt(s) : Key(s[p]) = keys[i]})
    BY <1>2, <1>8, <1>9
  <2> HIDE DEF K
  <2> QED  BY <1>6, <1>9, <1>10, <2>1, <2>2, JoinedSay
<1>12. \A r \in KeptOf(s) : r.type # SOA <=> \E i \in 1 .. n : Key(r) = keys[i]
  <2> TAKE r \in KeptOf(s)
  <2>1. ASSUME r.type # SOA PROVE \E i \in 1 .. n : Key(r) = keys[i]
    <3>1. Key(r) \in K
      BY <1>3, <2>1 DEF Key
    <3> QED  BY <1>6, <3>1
  <2>2. ASSUME NEW i \in 1 .. n, Key(r) = keys[i] PROVE r.type # SOA
    BY <1>8, <2>2 DEF Key
  <2> QED  BY <2>1, <2>2
<1>13. ToSet(f[n]) = {r \in KeptOf(s) : r.type # SOA}
  BY <1>11, <1>12
<1>14. Len(f[n]) = Cardinality({p \in KeptAt(s) : s[p].type # SOA})
  <2>1. {p \in KeptAt(s) : \E i \in 1 .. n : Key(s[p]) = keys[i]} = {p \in KeptAt(s) : s[p].type # SOA}
    BY <1>1, <1>12
  <2> QED  BY <1>11, <2>1
<1>15. f[n] \in Seq(S)
  <2>1. n \in 0 .. n
    BY <1>6
  <2> QED  BY <1>10, <2>1 DEF Joins
<1> QED  BY <1>7, <1>10, <1>11, <1>13, <1>14, <1>15

-----------------------------------------------------------------------------
(* What the lookups return *)

\* The zone z holds what the file of o says.
ZoneSays(z, o) ==
  /\ Holds(z, Kept(o), Lines[o]) /\ z.origin = o
  /\ Tallies(z, file[o])

LEMMA LookupSays ==
  ASSUME NEW z, NEW o, ZoneSays(z, o), NEW n, NEW t
  PROVE  /\ ToSet(Lookup(z, n, t)) = At(o, n, t)
         /\ Lookup(z, n, t) = <<>> <=> At(o, n, t) = {}
<1>1. Lookup(z, n, t) \in Seq(Lines[o]) /\ ToSet(Lookup(z, n, t)) = At(o, n, t)
  BY DEF ZoneSays, Holds, At
<1> QED  BY <1>1, ElementsOf

LEMMA ContainsSays ==
  ASSUME NEW z, NEW o, ZoneSays(z, o), NEW n
  PROVE  ContainsName(z, n) <=> Owns(o, n)
<1>1. ASSUME ContainsName(z, n) PROVE Owns(o, n)
  <2>1. PICK k \in DOMAIN z.records : k[1] = n
    BY <1>1 DEF ContainsName
  <2>2. k = <<n, k[2]>> /\ z.records[k] # <<>>
    BY <2>1 DEF ZoneSays, Holds
  <2>3. Lookup(z, n, k[2]) # <<>>
    BY <2>1, <2>2 DEF Lookup
  <2>4. At(o, n, k[2]) # {}
    BY <2>3, LookupSays
  <2> QED  BY <2>4 DEF At, Owns
<1>2. ASSUME Owns(o, n) PROVE ContainsName(z, n)
  <2>1. PICK r \in Kept(o) : r.name = n
    BY <1>2 DEF Owns
  <2>2. At(o, n, r.type) # {}
    BY <2>1 DEF At
  <2>3. Lookup(z, n, r.type) # <<>>
    BY <2>2, LookupSays
  <2>4. <<n, r.type>> \in DOMAIN z.records
    BY <2>3 DEF Lookup
  <2> QED  BY <2>4 DEF ContainsName
<1> QED  BY <1>1, <1>2

LEMMA WildcardForm ==
  ASSUME NEW name \in Seq(Nat)
  PROVE  /\ Covers(name) = {Wildcard(name, i) : i \in 1 .. Len(name) - 1}
         /\ \A i \in 1 .. Len(name) - 1 : Len(Wildcard(name, i)) = Len(name) - i + 1
<1>1. Len(name) \in Nat
  OBVIOUS
<1>2. \A i \in 1 .. Len(name) - 1 :
        i + 1 \in 2 .. Len(name) /\ Wildcard(name, i) = <<Star>> \o SubSeq(name, i + 1, Len(name))
  BY <1>1 DEF Wildcard
<1>3. \A i \in 2 .. Len(name) :
        i - 1 \in 1 .. Len(name) - 1 /\ Wildcard(name, i - 1) = <<Star>> \o SubSeq(name, i, Len(name))
  <2> TAKE i \in 2 .. Len(name)
  <2>1. i - 1 \in 1 .. Len(name) - 1 /\ (i - 1) + 1 = i
    BY <1>1
  <2> QED  BY <2>1 DEF Wildcard
<1>4. Covers(name) = {Wildcard(name, i) : i \in 1 .. Len(name) - 1}
  BY <1>2, <1>3 DEF Covers
<1>5. ASSUME NEW i \in 1 .. Len(name) - 1 PROVE Len(Wildcard(name, i)) = Len(name) - i + 1
  <2> DEFINE rest == SubSeq(name, i + 1, Len(name))
  <2>1. rest \in Seq(Nat) /\ Len(rest) = Len(name) - i
    BY <1>1
  <2>2. <<Star>> \in Seq(Nat) /\ Len(<<Star>>) = 1
    BY DEF Star
  <2> HIDE DEF rest
  <2>3. Len(<<Star>> \o rest) = 1 + Len(rest)
    BY <2>1, <2>2, ConcatProperties
  <2>4. Wildcard(name, i) = <<Star>> \o rest
    BY DEF Wildcard, rest
  <2> QED  BY <1>1, <2>1, <2>3, <2>4
<1> QED  BY <1>4, <1>5

LEMMA WildcardSays ==
  ASSUME NEW z, NEW o, ZoneSays(z, o), NEW name \in Seq(Nat), NEW t
  PROVE  /\ ToSet(LookupWildcard(z, name, t)) = UNION {At(o, n, t) : n \in Best(o, name, t)}
         /\ LookupWildcard(z, name, t) = <<>> <=> UNION {At(o, n, t) : n \in Best(o, name, t)} = {}
<1> DEFINE W(i) == Wildcard(name, i)
           skips == 1 .. Len(name) - 1
           hits == {i \in skips : Lookup(z, W(i), t) # <<>>}
<1>1. /\ Len(name) \in Nat /\ skips \subseteq Nat
      /\ Covers(name) = {W(i) : i \in skips}
      /\ \A i \in skips : Len(W(i)) = Len(name) - i + 1
  BY WildcardForm
<1>2. \A i \in skips : i \in hits <=> At(o, W(i), t) # {}
  BY LookupSays
<1>3. LookupWildcard(z, name, t) =
        IF hits = {} THEN <<>> ELSE Lookup(z, W(CHOOSE i \in hits : \A j \in hits : i <= j), t)
  BY DEF LookupWildcard
<1>4. CASE hits = {}
  <2>1. Best(o, name, t) = {}
    <3> HIDE DEF W, skips, hits
    <3> QED  BY <1>1, <1>2, <1>4 DEF Best
  <2>2. ToSet(<<>>) = {}
    BY DEF ToSet
  <2>3. LookupWildcard(z, name, t) = <<>>
    BY <1>3, <1>4
  <2> QED  BY <2>1, <2>2, <2>3
<1>5. CASE hits # {}
  <2> DEFINE m == CHOOSE i \in hits : \A j \in hits : i <= j
  <2>1. hits \subseteq Nat
    BY <1>1
  <2>2. m \in hits /\ \A j \in hits : m <= j
    <3> HIDE DEF hits
    <3>1. \E i \in hits : \A j \in hits : i <= j
      BY <1>5, <2>1, LeastNumber
    <3> QED  BY <3>1
  <2>3. LookupWildcard(z, name, t) = Lookup(z, W(m), t)
    BY <1>3, <1>5
  <2>4. m \in skips /\ At(o, W(m), t) # {}
    BY <1>2, <2>2
  <2> HIDE DEF m, W, skips, hits
  <2>5. W(m) \in Best(o, name, t)
    <3>1. W(m) \in Covers(name)
      BY <1>1, <2>4
    <3>2. ASSUME NEW v \in Covers(name), At(o, v, t) # {} PROVE Len(v) <= Len(W(m))
      <4>1. PICK j \in skips : v = W(j)
        BY <1>1
      <4>2. j \in hits
        BY <1>2, <3>2, <4>1
      <4>3. m <= j /\ m \in Nat /\ j \in Nat
        BY <1>1, <2>2, <2>4, <4>2
      <4> QED  BY <1>1, <2>4, <4>1, <4>3
    <3> QED  BY <2>4, <3>1, <3>2 DEF Best
  <2>6. ASSUME NEW w \in Best(o, name, t) PROVE w = W(m)
    <3>1. PICK j \in skips : w = W(j)
      BY <1>1 DEF Best
    <3>2. j \in hits
      BY <1>2, <3>1 DEF Best
    <3>3. Len(W(m)) <= Len(w)
      BY <1>1, <2>4 DEF Best
    <3>4. m <= j /\ m \in Nat /\ j \in Nat
      BY <1>1, <2>2, <2>4, <3>2
    <3>5. j = m
      BY <1>1, <2>4, <3>1, <3>3, <3>4
    <3> QED  BY <3>1, <3>5
  <2>7. UNION {At(o, n, t) : n \in Best(o, name, t)} = At(o, W(m), t)
    BY <2>5, <2>6
  <2> QED  BY <2>3, <2>7, LookupSays
<1> QED  BY <1>4, <1>5

\* What process_query finds for a name and a type is what the file says.
LEMMA GetSays ==
  ASSUME NEW z, NEW o, ZoneSays(z, o), NEW name \in Seq(Nat), NEW t,
         NEW g, g = IF ContainsName(z, name) THEN Lookup(z, name, t) ELSE LookupWildcard(z, name, t)
  PROVE  ToSet(g) = Said(o, name, t) /\ (g = <<>> <=> Said(o, name, t) = {})
<1>1. CASE Owns(o, name)
  <2>1. g = Lookup(z, name, t) /\ Said(o, name, t) = At(o, name, t)
    BY <1>1, ContainsSays DEF Said, Speakers
  <2> QED  BY <2>1, LookupSays
<1>2. CASE ~Owns(o, name)
  <2>1. /\ g = LookupWildcard(z, name, t)
        /\ Said(o, name, t) = UNION {At(o, n, t) : n \in Best(o, name, t)}
    BY <1>2, ContainsSays DEF Said, Speakers
  <2> QED  BY <2>1, WildcardSays
<1> QED  BY <1>1, <1>2

\* The answer section, in terms of the file.
FileAnswers(q, o) ==
  LET said == Said(o, q.name, q.type)
      aliases == Said(o, q.name, CNAME)
  IN  IF said # {}
      THEN said \cup {r \in At(o, q.name, SIG) : q.do /\ r.covers = q.type}
      ELSE aliases \cup UNION {At(o, r.target, q.type) : r \in aliases}

LEMMA AnswersSay ==
  ASSUME NEW z, NEW o, ZoneSays(z, o), NEW q, q.name \in Seq(Nat)
  PROVE  Answers(q, z) = FileAnswers(q, o)
<1> DEFINE Get(t) == IF ContainsName(z, q.name) THEN Lookup(z, q.name, t)
                     ELSE LookupWildcard(z, q.name, t)
           sigs == {s \in ToSet(Lookup(z, q.name, SIG)) : q.do /\ s.covers = q.type}
           aliases == ToSet(Get(CNAME))
<1>1. Answers(q, z) =
        IF Get(q.type) # <<>> THEN ToSet(Get(q.type)) \cup sigs
        ELSE aliases \cup UNION {ToSet(Lookup(z, c.target, q.type)) : c \in aliases}
  BY DEF Answers
<1>2. /\ ToSet(Get(q.type)) = Said(o, q.name, q.type)
      /\ Get(q.type) = <<>> <=> Said(o, q.name, q.type) = {}
  BY GetSays
<1>3. aliases = Said(o, q.name, CNAME)
  BY GetSays
<1>4. \A n, t : ToSet(Lookup(z, n, t)) = At(o, n, t)
  BY LookupSays
<1>5. sigs = {r \in At(o, q.name, SIG) : q.do /\ r.covers = q.type}
  BY <1>4
<1>6. {ToSet(Lookup(z, c.target, q.type)) : c \in aliases}
        = {At(o, r.target, q.type) : r \in Said(o, q.name, CNAME)}
  BY <1>3, <1>4
<1> HIDE DEF Get, sigs, aliases
<1> QED  BY <1>1, <1>2, <1>3, <1>5, <1>6 DEF FileAnswers

\* The answer section is empty exactly if the file says nothing.
LEMMA EmptyAnswers ==
  ASSUME NEW q, NEW o
  PROVE  FileAnswers(q, o) = {} <=> Said(o, q.name, q.type) = {} /\ Said(o, q.name, CNAME) = {}
<1>1. Said(o, q.name, CNAME) = {} =>
        UNION {At(o, r.target, q.type) : r \in Said(o, q.name, CNAME)} = {}
  OBVIOUS
<1> QED  BY <1>1 DEF FileAnswers

-----------------------------------------------------------------------------
(* The zone of a name *)

LEMMA EnclosingUnique ==
  ASSUME DOMAIN store \subseteq Seq(Nat), NEW name \in Seq(Nat),
         NEW o \in Enclosing(name), NEW p \in Enclosing(name)
  PROVE  o = p
<1>1. /\ o \in Seq(Nat) /\ p \in Seq(Nat) /\ IsSuffix(o, name) /\ IsSuffix(p, name)
      /\ Len(o) <= Len(p) /\ Len(p) <= Len(o)
  BY DEF Enclosing, Claims
<1>2. Len(o) = Len(p)
  BY <1>1
<1> QED  BY <1>1, <1>2, SuffixUnique

LEMMA FindZoneSays ==
  ASSUME DOMAIN store \subseteq Seq(Nat), NEW name \in Seq(Nat)
  PROVE  FindZone(store, name) = {store[o] : o \in Enclosing(name)}
<1> DEFINE matches == {o \in DOMAIN store : ZoneOf(o, name) /\ Len(o) > 0}
<1>1. CASE name \in DOMAIN store
  <2>1. \A p \in DOMAIN store : Claims(p, name) => Len(p) <= Len(name)
    BY SuffixMeans DEF Claims
  <2>2. Claims(name, name)
    BY SuffixSelf DEF Claims
  <2>3. name \in Enclosing(name)
    BY <1>1, <2>1, <2>2 DEF Enclosing
  <2>4. Enclosing(name) = {name}
    BY <2>3, EnclosingUnique
  <2> QED  BY <1>1, <2>4 DEF FindZone
<1>2. CASE name \notin DOMAIN store
  <2>1. \A o \in DOMAIN store : ZoneOf(o, name) /\ Len(o) > 0 <=> Claims(o, name)
    <3> TAKE o \in DOMAIN store
    <3>1. o \in Seq(Nat) /\ o # name
      BY <1>2
    <3>2. Len(o) > 0 <=> o # <<>>
      BY <3>1
    <3> QED  BY <3>1, <3>2 DEF ZoneOf, Claims
  <2>2. matches = {o \in DOMAIN store : Claims(o, name)}
    BY <2>1
  <2>3. {o \in matches : \A p \in matches : Len(p) <= Len(o)} = Enclosing(name)
    <3> HIDE DEF matches
    <3> QED  BY <2>2 DEF Enclosing
  <2>4. FindZone(store, name) =
          {store[o] : o \in {o \in matches : \A p \in matches : Len(p) <= Len(o)}}
    BY <1>2 DEF FindZone
  <2> HIDE DEF matches
  <2> QED  BY <2>3, <2>4
<1> QED  BY <1>1, <1>2

\* A query that is answered is answered from the zone that encloses its name,
\* or refused.
LEMMA ProcessQuerySays ==
  ASSUME DOMAIN store \subseteq Seq(Nat), NEW q, q.name \in Seq(Nat),
         q.standard, q.question, q.type # AXFR
  PROVE  /\ Enclosing(q.name) = {} => ProcessQuery(q, store) = Bare("REFUSED", FALSE, TRUE)
         /\ \A o \in Enclosing(q.name) : ProcessQuery(q, store) = Answer(q, store[o])
<1>1. FindZone(store, q.name) = {store[o] : o \in Enclosing(q.name)}
  BY FindZoneSays
<1>2. ProcessQuery(q, store) =
        IF FindZone(store, q.name) = {}
        THEN Bare("REFUSED", FALSE, TRUE)
        ELSE Answer(q, CHOOSE zn \in FindZone(store, q.name) : TRUE)
  BY DEF ProcessQuery
<1>3. ASSUME NEW o \in Enclosing(q.name)
      PROVE  ProcessQuery(q, store) = Answer(q, store[o])
  <2>1. FindZone(store, q.name) = {store[o]}
    BY <1>1, EnclosingUnique
  <2>2. (CHOOSE zn \in {store[o]} : TRUE) = store[o]
    OBVIOUS
  <2> QED  BY <1>2, <2>1, <2>2
<1> QED  BY <1>1, <1>2, <1>3

-----------------------------------------------------------------------------
(* The inductive invariant *)

\* load_zones has read the files in order; the ones to come are untouched.
FileInv ==
  /\ next \in 1 .. Len(ConfigZones)
  /\ DOMAIN file = Origins
  /\ \A o \in Origins : file[o] \in Seq(Lines[o])
  /\ phase = "loading" => \A j \in 1 .. Len(ConfigZones) : j > next => file[ConfigZones[j]] = <<>>

\* The zone under construction holds what was read of its file so far.
ZoneInv ==
  phase = "loading" =>
    \/ zone = {} /\ ~HasSoa(file[origin])
    \/ \E z : zone = {z} /\ ZoneSays(z, origin) /\ HasSoa(file[origin])

\* A zone in the store holds what its whole file says.
StoreInv ==
  /\ DOMAIN store \subseteq Origins
  /\ phase = "loading" =>
       \A o \in DOMAIN store : \E j \in 1 .. Len(ConfigZones) : j < next /\ o = ConfigZones[j]
  /\ \A o \in DOMAIN store : ZoneSays(store[o], o)

\* The last response is the one to the last query, from the store as it is.
ResponseInv ==
  query # None =>
    /\ phase = "serving" /\ query \in Asked
    /\ Answered => response = ProcessQuery(query, store)

\* What was transferred is the zone that encloses the name, as it is stored.
StreamInv ==
  stream # <<>> =>
    /\ query # None /\ query \in Asked
    /\ \A o \in Enclosing(query.name) : stream = GetAllRecords(store[o])

IInv == FileInv /\ ZoneInv /\ StoreInv /\ ResponseInv /\ StreamInv

LEMMA Configured ==
  /\ Len(ConfigZones) \in Nat \ {0}
  /\ Origins = {ConfigZones[i] : i \in 1 .. Len(ConfigZones)} /\ Origins \subseteq Seq(Nat)
  /\ \A i, j \in 1 .. Len(ConfigZones) : ConfigZones[i] = ConfigZones[j] => i = j
<1>1. ConfigZones \in Seq(Seq(Nat)) /\ ConfigZones # <<>>
  BY AuthorityAssumption
<1>2. DOMAIN ConfigZones = 1 .. Len(ConfigZones) /\ Len(ConfigZones) \in Nat \ {0}
  BY <1>1
<1>3. Origins = {ConfigZones[i] : i \in 1 .. Len(ConfigZones)}
  BY <1>2 DEF Origins, ToSet
<1>4. \A i \in 1 .. Len(ConfigZones) : ConfigZones[i] \in Seq(Nat)
  BY <1>1
<1> QED  BY <1>2, <1>3, <1>4, AuthorityAssumption

\* What a file says depends on that file only.
LEMMA KeptSame ==
  ASSUME NEW o, file'[o] = file[o]
  PROVE  Kept(o)' = Kept(o) /\ \A z : ZoneSays(z, o)' <=> ZoneSays(z, o)
<1>1. Kept(o)' = Kept(o)
  BY DEF Kept
<1> QED  BY <1>1 DEF ZoneSays

LEMMA InitInv == Init => IInv
<1> SUFFICES ASSUME Init PROVE IInv
  OBVIOUS
<1> USE DEF Init
<1>1. origin \in Origins
  BY Configured DEF origin
<1>2. \A o \in Origins : file[o] = <<>>
  OBVIOUS
<1>3. FileInv
  <2>1. \A o \in Origins : <<>> \in Seq(Lines[o])
    OBVIOUS
  <2>2. 1 \in 1 .. Len(ConfigZones)
    BY Configured
  <2>3. \A j \in 1 .. Len(ConfigZones) : file[ConfigZones[j]] = <<>>
    BY <1>2, Configured
  <2> QED  BY <1>2, <2>1, <2>2, <2>3 DEF FileInv
<1>4. ~HasSoa(file[origin])
  BY <1>1, <1>2 DEF HasSoa
<1>5. StoreInv /\ ResponseInv /\ StreamInv
  BY DEF StoreInv, ResponseInv, StreamInv
<1> QED  BY <1>3, <1>4, <1>5 DEF IInv, ZoneInv

LEMMA ParseLineInv ==
  ASSUME IInv, NEW record \in Lines[origin], ParseLine(record)
  PROVE  IInv'
<1> USE DEF IInv
<1> DEFINE s == file[origin]
<1>1. /\ phase = "loading" /\ UNCHANGED <<next, store, phase, query, response, stream>>
      /\ file' = [file EXCEPT ![origin] = Append(@, record)]
  BY DEF ParseLine
<1>2. origin \in Origins /\ origin' = origin /\ s \in Seq(Lines[origin])
  BY <1>1, Configured DEF origin, FileInv
<1>3. /\ file'[origin] = Append(s, record) /\ DOMAIN file' = Origins
      /\ \A o \in Origins : o # origin => file'[o] = file[o]
  BY <1>1, <1>2 DEF FileInv
<1>4. Append(s, record) \in Seq(Lines[origin])
  <2> HIDE DEF s, origin
  <2> QED  BY <1>2, ElementsOf
<1>5. \A j \in 1 .. Len(ConfigZones) : j # next => ConfigZones[j] # origin /\ ConfigZones[j] \in Origins
  BY Configured DEF origin, FileInv
<1> HIDE DEF s
<1>6. FileInv'
  <2>1. \A o \in Origins : file'[o] \in Seq(Lines[o])
    BY <1>3, <1>4 DEF FileInv
  <2>2. \A j \in 1 .. Len(ConfigZones) : j > next => file'[ConfigZones[j]] = <<>>
    BY <1>1, <1>3, <1>5 DEF FileInv
  <2> QED  BY <1>1, <1>3, <2>1, <2>2 DEF FileInv
<1>7. ZoneInv'
  <2>1. Kept(origin) = KeptOf(s) /\ Kept(origin)' = KeptOf(Append(s, record))
    BY <1>2, <1>3 DEF Kept, KeptOf, s
  <2>2. /\ HasSoa(Append(s, record)) <=> HasSoa(s) \/ record.type = SOA
        /\ KeptOf(Append(s, record)) =
             IF HasSoa(s) \/ record.type = SOA THEN KeptOf(s) \cup {record} ELSE {}
        /\ ~HasSoa(s) => KeptOf(s) = {}
    BY <1>2, KeptAppend
  <2> DEFINE fresh == IF record.type = SOA /\ zone = {} THEN {NewZone(origin, record.val)} ELSE zone
  <2>3. zone' = {AddRecord(y, record) : y \in fresh}
    BY DEF ParseLine
  <2>4. CASE fresh = {}
    <3>1. zone' = {} /\ zone = {} /\ record.type # SOA
      BY <2>3, <2>4
    <3>2. ~HasSoa(s)
      BY <1>1, <3>1 DEF ZoneInv, s
    <3> QED  BY <1>2, <1>3, <2>2, <3>1, <3>2 DEF ZoneInv
  <2>5. CASE fresh # {}
    <3>1. PICK z : /\ fresh = {z} /\ Holds(z, KeptOf(s), Lines[origin]) /\ z.origin = origin
                   /\ Tallies(z, s)
      <4>1. CASE zone = {}
        <5>1. record.type = SOA /\ fresh = {NewZone(origin, record.val)}
          BY <2>5, <4>1
        <5>2. ~HasSoa(s) /\ KeptOf(s) = {}
          BY <1>1, <2>2, <4>1 DEF ZoneInv, s
        <5>3. Tallies(NewZone(origin, record.val), s)
          BY <1>2, <5>2, NewZoneTallies
        <5> QED  BY <5>1, <5>2, <5>3, NewZoneHolds
      <4>2. CASE zone # {}
        BY <1>1, <2>1, <4>2 DEF ZoneInv, ZoneSays, s
      <4> QED  BY <4>1, <4>2
    <3>2. HasSoa(s) \/ record.type = SOA
      BY <1>1, <2>5 DEF ZoneInv, s
    <3>3. zone' = {AddRecord(z, record)}
      BY <2>3, <3>1
    <3>4. Holds(AddRecord(z, record), KeptOf(s) \cup {record}, Lines[origin])
          /\ AddRecord(z, record).origin = origin
      BY <3>1, AddRecordHolds
    <3>5. ZoneSays(AddRecord(z, record), origin)'
      <4>1. Kept(origin)' = KeptOf(s) \cup {record}
        BY <2>1, <2>2, <3>2
      <4> HIDE DEF fresh
      <4>2. Tallies(AddRecord(z, record), Append(s, record))
        BY <1>2, <3>1, <3>2, AddRecordTallies
      <4> QED  BY <1>2, <1>3, <3>4, <4>1, <4>2 DEF ZoneSays
    <3>6. HasSoa(file'[origin])
      BY <1>3, <2>2, <3>2
    <3> HIDE DEF fresh
    <3> QED  BY <1>2, <3>3, <3>5, <3>6 DEF ZoneInv
  <2> QED  BY <2>4, <2>5
<1>8. StoreInv'
  <2>1. \A o \in DOMAIN store : o \in Origins /\ o # origin
    BY <1>1, <1>5 DEF StoreInv, FileInv
  <2>2. \A o \in DOMAIN store : ZoneSays(store[o], o)'
    BY <1>1, <1>3, <2>1, KeptSame DEF StoreInv
  <2> QED  BY <1>1, <2>2 DEF StoreInv
<1>9. ResponseInv' /\ StreamInv'
  BY <1>1 DEF ResponseInv, StreamInv, Answered, Enclosing
<1> QED  BY <1>6, <1>7, <1>8, <1>9

LEMMA EndFileInv ==
  ASSUME IInv, EndFile
  PROVE  IInv'
<1> USE DEF IInv
<1>1. /\ phase = "loading" /\ zone # {} /\ zone' = {}
      /\ UNCHANGED <<file, query, response, stream>>
      /\ \/ next = Len(ConfigZones) /\ phase' = "serving" /\ next' = next
         \/ next # Len(ConfigZones) /\ phase' = "loading" /\ next' = next + 1
  BY DEF EndFile
<1>2. PICK z : zone = {z} /\ ZoneSays(z, origin) /\ HasSoa(file[origin])
  BY <1>1 DEF ZoneInv
<1>3. next \in 1 .. Len(ConfigZones) /\ Len(ConfigZones) \in Nat
  BY Configured DEF FileInv
<1>4. origin \in Origins
  BY <1>3, Configured DEF origin
<1>5. /\ DOMAIN store' = DOMAIN store \cup {origin}
      /\ \A o \in DOMAIN store' : store'[o] = IF o = origin THEN z ELSE store[o]
  <2>1. store' = AddZone(store, z)
    BY <1>2 DEF EndFile
  <2>2. z.origin = origin
    BY <1>2 DEF ZoneSays
  <2> QED  BY <2>1, <2>2 DEF AddZone
<1>6. FileInv'
  BY <1>1, <1>3 DEF FileInv
<1>7. ZoneInv'
  <2>1. CASE phase' = "serving"
    BY <2>1 DEF ZoneInv
  <2>2. CASE next # Len(ConfigZones) /\ next' = next + 1
    <3>1. origin' = ConfigZones[next + 1] /\ next + 1 \in 1 .. Len(ConfigZones) /\ next + 1 > next
      BY <1>3, <2>2 DEF origin
    <3>2. file'[origin'] = <<>>
      BY <1>1, <3>1 DEF FileInv
    <3>3. ~HasSoa(file[origin])'
      BY <3>2 DEF HasSoa
    <3> QED  BY <1>1, <3>3 DEF ZoneInv
  <2> QED  BY <1>1, <2>1, <2>2
<1>8. StoreInv'
  <2>1. \A y, o : ZoneSays(y, o)' <=> ZoneSays(y, o)
    BY <1>1, KeptSame
  <2>2. \A o \in DOMAIN store' : ZoneSays(store'[o], o)
    BY <1>2, <1>5 DEF StoreInv
  <2>3. DOMAIN store' \subseteq Origins
    BY <1>4, <1>5 DEF StoreInv
  <2>4. phase' = "loading" =>
          \A o \in DOMAIN store' : \E j \in 1 .. Len(ConfigZones) : j < next' /\ o = ConfigZones[j]
    <3> SUFFICES ASSUME phase' = "loading", NEW o \in DOMAIN store'
                 PROVE  \E j \in 1 .. Len(ConfigZones) : j < next' /\ o = ConfigZones[j]
      OBVIOUS
    <3>1. next' = next + 1
      BY <1>1
    <3>2. CASE o = origin
      <4>1. next < next' /\ o = ConfigZones[next]
        BY <1>3, <3>1, <3>2 DEF origin
      <4> QED  BY <1>3, <4>1
    <3>3. CASE o \in DOMAIN store
      <4>1. PICK j \in 1 .. Len(ConfigZones) : j < next /\ o = ConfigZones[j]
        BY <1>1, <3>3 DEF StoreInv
      <4>2. j < next'
        BY <1>3, <3>1, <4>1
      <4> QED  BY <4>1, <4>2
    <3> QED  BY <1>5, <3>2, <3>3
  <2> QED  BY <2>1, <2>2, <2>3, <2>4 DEF StoreInv
<1>9. ResponseInv' /\ StreamInv'
  BY <1>1 DEF ResponseInv, StreamInv
<1> QED  BY <1>6, <1>7, <1>8, <1>9

\* What is served stays as it is: files and store are not touched.
LEMMA ServingStays ==
  ASSUME IInv, UNCHANGED <<next, file, zone, store>>, phase' = phase \/ phase' = "failed"
  PROVE  FileInv' /\ ZoneInv' /\ StoreInv'
<1>1. origin' = origin
  BY DEF origin
<1>2. \A z, o : ZoneSays(z, o)' <=> ZoneSays(z, o)
  BY KeptSame
<1>3. FileInv'
  BY DEF IInv, FileInv
<1>4. ZoneInv'
  BY <1>1, <1>2 DEF IInv, ZoneInv, HasSoa
<1>5. StoreInv'
  BY <1>2 DEF IInv, StoreInv
<1> QED  BY <1>3, <1>4, <1>5

LEMMA InvStep == IInv /\ [Next]_vars => IInv'
<1> SUFFICES ASSUME IInv, [Next]_vars PROVE IInv'
  OBVIOUS
<1>1. CASE \E record \in Lines[origin] : ParseLine(record)
  BY <1>1, ParseLineInv
<1>2. CASE EndFile
  BY <1>2, EndFileInv
<1>3. CASE EndFileNoSoa
  <2>1. query = None /\ stream = <<>>
    BY <1>3 DEF EndFileNoSoa, IInv, ResponseInv, StreamInv
  <2>2. ResponseInv' /\ StreamInv'
    BY <1>3, <2>1 DEF EndFileNoSoa, ResponseInv, StreamInv
  <2> QED  BY <1>3, <2>2, ServingStays DEF EndFileNoSoa, IInv
<1>4. ASSUME NEW q \in Asked, Ask(q) PROVE IInv'
  <2>1. ResponseInv' /\ StreamInv'
    BY <1>4 DEF Ask, ResponseInv, StreamInv
  <2> QED  BY <1>4, <2>1, ServingStays DEF Ask, IInv
<1>5. ASSUME NEW q \in Asked, Transfer(q) PROVE IInv'
  <2>1. ResponseInv'
    BY <1>5 DEF Transfer, ResponseInv, Answered
  <2>2. StreamInv'
    <3>1. q.name \in Seq(Nat) /\ q # None
      BY AuthorityAssumption DEF Queries
    <3>2. DOMAIN store \subseteq Seq(Nat)
      BY Configured DEF IInv, StoreInv
    <3>3. FindZone(store, q.name) = {store[o] : o \in Enclosing(q.name)}
      BY <3>1, <3>2, FindZoneSays
    <3>4. query' = q /\ store' = store /\ \A n : Enclosing(n)' = Enclosing(n)
      BY <1>5 DEF Transfer, Enclosing
    <3>5. ASSUME NEW o \in Enclosing(q.name) PROVE stream' = GetAllRecords(store[o])
      <4>1. FindZone(store, q.name) = {store[o]}
        BY <3>1, <3>2, <3>3, EnclosingUnique
      <4>2. (CHOOSE z \in {store[o]} : TRUE) = store[o]
        OBVIOUS
      <4>3. stream' = GetAllRecords(CHOOSE z \in FindZone(store, q.name) : TRUE)
        BY <1>5, <4>1 DEF Transfer
      <4> QED  BY <4>1, <4>2, <4>3
    <3> QED  BY <3>1, <3>4, <3>5 DEF StreamInv
  <2> QED  BY <1>5, <2>1, <2>2, ServingStays DEF Transfer, IInv
<1>6. CASE UNCHANGED vars
  <2>1. ResponseInv' /\ StreamInv'
    BY <1>6 DEF vars, IInv, ResponseInv, StreamInv, Answered, Enclosing
  <2> QED  BY <1>6, <2>1, ServingStays DEF vars, IInv
<1> QED  BY <1>1, <1>2, <1>3, <1>4, <1>5, <1>6 DEF Next

LEMMA Invariance == Spec => []IInv
  BY InitInv, InvStep, PTL DEF Spec

-----------------------------------------------------------------------------
(* The theorems *)

LEMMA AnsweredFrom ==
  ASSUME IInv, Answered
  PROVE  /\ Enclosing(query.name) = {} => response.rcode = "REFUSED"
         /\ \A o \in Enclosing(query.name) :
              /\ response.answers = FileAnswers(query, o)
              /\ response.authority =
                   IF response.answers = {} THEN {GetSoaRecord(store[o])}
                   ELSE ToSet(Lookup(store[o], store[o].origin, NS))
              /\ response.rcode =
                   IF response.answers = {} /\ ~Owns(o, query.name) THEN "NXDOMAIN" ELSE "NOERROR"
<1>1. /\ query \in Asked /\ query.standard /\ query.question /\ query.type # AXFR
      /\ response = ProcessQuery(query, store)
  BY DEF IInv, ResponseInv, Answered
<1>2. query.name \in Seq(Nat)
  BY <1>1, AuthorityAssumption DEF Queries
<1>3. DOMAIN store \subseteq Seq(Nat)
  BY Configured DEF IInv, StoreInv
<1>4. /\ Enclosing(query.name) = {} => response = Bare("REFUSED", FALSE, TRUE)
      /\ \A o \in Enclosing(query.name) : response = Answer(query, store[o])
  BY <1>1, <1>2, <1>3, ProcessQuerySays
<1>5. Bare("REFUSED", FALSE, TRUE).rcode = "REFUSED"
  BY DEF Bare
<1>6. ASSUME NEW o \in Enclosing(query.name)
      PROVE  /\ response.answers = FileAnswers(query, o)
             /\ response.authority =
                  IF response.answers = {} THEN {GetSoaRecord(store[o])}
                  ELSE ToSet(Lookup(store[o], store[o].origin, NS))
             /\ response.rcode =
                  IF response.answers = {} /\ ~Owns(o, query.name) THEN "NXDOMAIN" ELSE "NOERROR"
  <2>1. ZoneSays(store[o], o)
    BY DEF Enclosing, IInv, StoreInv
  <2>2. Answers(query, store[o]) = FileAnswers(query, o)
    BY <1>2, <2>1, AnswersSay
  <2>3. ContainsName(store[o], query.name) <=> Owns(o, query.name)
    BY <2>1, ContainsSays
  <2> QED  BY <1>4, <2>2, <2>3 DEF Answer
<1> QED  BY <1>4, <1>5, <1>6

\* Whatever the zone files hold and whatever is asked: the answer section is
\* what the lines of the file of the enclosing zone say of the name, of its best
\* wildcard or of its alias.
THEOREM AnswersAreComplete == Spec => []AnswersComplete
<1>1. IInv => AnswersComplete
  <2> SUFFICES ASSUME IInv, Answered, NEW o \in Enclosing(query.name)
               PROVE  response.answers = FileAnswers(query, o)
    BY DEF AnswersComplete, FileAnswers
  <2> QED  BY AnsweredFrom
<1> QED  BY <1>1, Invariance, PTL

\* Whatever the zone files hold and whatever is asked: an answer is empty only
\* if no line of the file has the data or an alias, a name is denied only if no
\* line has it and always if nothing is at it, below it or at a wildcard that
\* covers it, and refused only outside all zones.
THEOREM DenialsAreSound == Spec => []DenialsSound
<1>1. IInv => DenialsSound
  <2> SUFFICES ASSUME IInv, Answered
               PROVE  /\ response.rcode = "REFUSED" <=> Enclosing(query.name) = {}
                      /\ \A o \in Enclosing(query.name) :
                           /\ response.answers = {} <=> Silent(o, query.name, query.type)
                           /\ response.answers = {} => response.authority = {GetSoaRecord(store[o])}
                           /\ response.rcode = "NXDOMAIN" =>
                                Silent(o, query.name, query.type) /\ ~Owns(o, query.name)
                           /\ Absent(o, query.name) => response.rcode = "NXDOMAIN"
    BY DEF DenialsSound
  <2>1. response.rcode = "REFUSED" <=> Enclosing(query.name) = {}
    BY AnsweredFrom
  <2>2. ASSUME NEW o \in Enclosing(query.name)
        PROVE  /\ response.answers = {} <=> Silent(o, query.name, query.type)
               /\ response.answers = {} => response.authority = {GetSoaRecord(store[o])}
               /\ response.rcode = "NXDOMAIN" <=> response.answers = {} /\ ~Owns(o, query.name)
    <3>1. response.answers = {} <=> Silent(o, query.name, query.type)
      BY AnsweredFrom, EmptyAnswers DEF Silent
    <3> QED  BY <3>1, AnsweredFrom
  <2>3. ASSUME NEW o \in Enclosing(query.name), Absent(o, query.name)
        PROVE  Silent(o, query.name, query.type) /\ ~Owns(o, query.name)
    <3>1. query.name \in Seq(Nat)
      BY AuthorityAssumption DEF IInv, ResponseInv, Answered, Queries
    <3>2. IsSuffix(query.name, query.name)
      BY <3>1, SuffixSelf
    <3>3. ~Owns(o, query.name)
      BY <2>3, <3>2 DEF Absent, Owns
    <3>4. \A t : \A w \in Covers(query.name) : At(o, w, t) = {}
      BY <2>3 DEF Absent, Covered, Owns, At
    <3>5. \A t : Best(o, query.name, t) = {}
      BY <3>4 DEF Best
    <3> QED  BY <3>3, <3>5 DEF Silent, Said, Speakers
  <2> QED  BY <2>1, <2>2, <2>3
<1> QED  BY <1>1, Invariance, PTL

\* Whatever the zone files hold: a transfer has the records of the file of the
\* enclosing zone, each as often as the file has it and in canonical order,
\* between two SOAs.
THEOREM TransferIsFaithful == Spec => []TransferFaithful
<1>1. IInv => TransferFaithful
  <2> SUFFICES ASSUME IInv, stream # <<>>, NEW o \in Enclosing(query.name)
               PROVE  /\ stream[1].type = SOA /\ stream[Len(stream)] = stream[1]
                      /\ ToSet(SubSeq(stream, 2, Len(stream) - 1)) = {r \in Kept(o) : r.type # SOA}
                      /\ Len(SubSeq(stream, 2, Len(stream) - 1)) =
                           Cardinality({i \in DOMAIN file[o] :
                             /\ file[o][i].type # SOA
                             /\ \E j \in 1 .. i : file[o][j].type = SOA})
                      /\ \A i \in 1 .. Len(SubSeq(stream, 2, Len(stream) - 1)) - 1 :
                           ~KeyLess(Key(SubSeq(stream, 2, Len(stream) - 1)[i + 1]),
                                    Key(SubSeq(stream, 2, Len(stream) - 1)[i]))
    BY DEF TransferFaithful, Key
  <2> DEFINE s == file[o]
             z == store[o]
             soa == GetSoaRecord(z)
  <2>1. stream = GetAllRecords(z) /\ o \in Origins /\ ZoneSays(z, o) /\ s \in Seq(Lines[o])
    BY DEF IInv, StreamInv, StoreInv, FileInv, Enclosing
  <2>2. \A r \in Lines[o] : Key(r) \in Keys
    BY <2>1, AuthorityAssumption DEF Key, Keys
  <2>3. Kept(o) = KeptOf(s) /\ Holds(z, KeptOf(s), Lines[o]) /\ Tallies(z, s)
    BY <2>1 DEF ZoneSays, Kept, KeptOf
  <2> HIDE DEF s, z
  <2>4. PICK body \in Seq(Lines[o]) :
          /\ stream = <<soa>> \o body \o <<soa>>
          /\ ToSet(body) = {r \in KeptOf(s) : r.type # SOA}
          /\ Len(body) = Cardinality({p \in KeptAt(s) : s[p].type # SOA})
          /\ Ordered(body)
    BY <2>1, <2>2, <2>3, BodySays
  <2>5. soa.type = SOA
    BY DEF GetSoaRecord
  <2>6. /\ stream[1] = soa /\ stream[Len(stream)] = soa
        /\ SubSeq(stream, 2, Len(stream) - 1) = body
    <3> HIDE DEF soa
    <3> QED  BY <2>4, Enclosed
  <2>7. {p \in KeptAt(s) : s[p].type # SOA} =
          {i \in DOMAIN s : s[i].type # SOA /\ \E j \in 1 .. i : s[j].type = SOA}
    BY DEF KeptAt
  <2>8. \A i \in 1 .. Len(body) - 1 : ~KeyLess(Key(body[i + 1]), Key(body[i]))
    <3> TAKE i \in 1 .. Len(body) - 1
    <3>1. i \in 1 .. Len(body) /\ i + 1 \in 1 .. Len(body) /\ i < i + 1
      OBVIOUS
    <3> QED  BY <2>4, <3>1 DEF Ordered
  <2> HIDE DEF soa
  <2> QED  BY <2>3, <2>4, <2>5, <2>6, <2>7, <2>8 DEF s
<1> QED  BY <1>1, Invariance, PTL

-----------------------------------------------------------------------------
(* The RDATA of a key *)

LEMMA RdataBytes ==
  ASSUME NEW c \in DsCalls
  PROVE  /\ Rdata(c.dnskey) \in Seq(Bytes)
         /\ Len(Rdata(c.dnskey)) \in Nat /\ Len(Rdata(c.dnskey)) <= 65535
<1> DEFINE k == c.dnskey
           head == <<k.flags \div 256, k.flags % 256, 3, k.algorithm>>
<1>1. /\ k.flags \in Nat /\ k.flags < 65536 /\ k.algorithm \in Bytes
      /\ k.public_key \in Seq(Bytes) /\ Len(k.public_key) <= 65531
  BY DnssecAssumption
<1>2. head \in Seq(Bytes) /\ Len(head) = 4
  <2>1. k.flags \div 256 \in Bytes /\ k.flags % 256 \in Bytes /\ 3 \in Bytes
    BY <1>1 DEF Bytes
  <2> QED  BY <2>1, <1>1
<1>3. k.public_key \in Seq(Bytes) /\ Len(k.public_key) \in Nat
  BY <1>1
<1>4. \A s, t \in Seq(Bytes) : s \o t \in Seq(Bytes) /\ Len(s \o t) = Len(s) + Len(t)
  BY ConcatProperties
<1>5. Rdata(k) \in Seq(Bytes) /\ Len(Rdata(k)) = 4 + Len(k.public_key)
  <2> HIDE DEF head, k
  <2>1. Rdata(k) = head \o k.public_key
    BY DEF Rdata, head
  <2> QED  BY <1>2, <1>3, <1>4, <2>1
<1> QED
  BY <1>1, <1>3, <1>5

-----------------------------------------------------------------------------
(* Types *)

\* A call stays the one that was made, and the program counter stays in the
\* code of the function that was called.
CallOK ==
  /\ fn = "verify_ds" =>
       call \in DsCalls /\ pc \in {"verify_ds", "sum", "tag", "digest", "done"}
  /\ fn = "check_signature_validity" =>
       call \in TimeCalls /\ pc \in {"check_signature_validity", "done"}
  /\ fn = "validate_nsec_denial" =>
       call \in DenialCalls /\ pc \in {"validate_nsec_denial", "done"}
  /\ fn = "find_related_dnssec_records" =>
       call \in RelatedCalls /\ pc \in {"find_related_dnssec_records", "keys", "done"}

CallInv == TypeOK /\ CallOK

LEMMA Typing == CallSpec => []CallInv
<1>1. CallInit => CallInv
  <2> SUFFICES ASSUME CallInit PROVE CallInv
    OBVIOUS
  <2>1. fn = "verify_ds" => Len(Rdata(call.dnskey)) \in Nat
    BY RdataBytes DEF CallInit
  <2>2. fn = "validate_nsec_denial" => Len(call.nsecs) \in Nat
    BY DnssecAssumption DEF CallInit
  <2> QED
    BY <2>1, <2>2 DEF CallInit, CallInv, TypeOK, CallOK, Helpers
<1>2. CallInv /\ [CallNext]_callVars => CallInv'
  <2> SUFFICES ASSUME CallInv, [CallNext]_callVars PROVE CallInv'
    OBVIOUS
  <2> USE DEF CallInv, TypeOK, CallOK, Helpers
  <2>0. /\ fn = "verify_ds" => /\ Len(Rdata(call.dnskey)) \in Nat
                               /\ Rdata(call.dnskey) \in Seq(Bytes)
        /\ fn = "validate_nsec_denial" => Len(call.nsecs) \in Nat
    BY RdataBytes, DnssecAssumption
  <2>1. CASE VerifyDs
    BY <2>0, <2>1 DEF VerifyDs, Goto, Return
  <2>2. CASE AddByte
    <3>1. fn = "verify_ds" /\ at \in 1 .. Len(Rdata(call.dnskey))
      BY <2>0, <2>2 DEF AddByte
    <3>2. Rdata(call.dnskey)[at] \in Bytes
      BY <2>0, <3>1
    <3>3. ac' \in Nat
      BY <2>2, <3>2 DEF AddByte, Bytes
    <3> QED  BY <2>0, <2>2, <3>1, <3>3 DEF AddByte
  <2>3. CASE FoldCarry
    <3>1. ac' \in Nat
      BY <2>3 DEF FoldCarry
    <3> QED  BY <2>0, <2>3, <3>1 DEF FoldCarry, Goto
  <2>4. CASE CompareTag
    BY <2>0, <2>4 DEF CompareTag, Goto, Return
  <2>5. CASE CompareDigest
    BY <2>0, <2>5 DEF CompareDigest, Return
  <2>6. CASE CheckSignatureValidity
    BY <2>0, <2>6 DEF CheckSignatureValidity, Return
  <2>7. CASE TryNsec
    BY <2>0, <2>7 DEF TryNsec, Return
  <2>8. CASE NoProof
    BY <2>0, <2>8 DEF NoProof, Return
  <2>9. CASE FindSignatures
    BY <2>0, <2>9 DEF FindSignatures
  <2>10. CASE FindKeys
    BY <2>0, <2>10 DEF FindKeys, Return
  <2>11. CASE UNCHANGED callVars
    BY <2>11 DEF callVars
  <2> QED
    BY <2>1, <2>2, <2>3, <2>4, <2>5, <2>6, <2>7, <2>8, <2>9, <2>10, <2>11 DEF CallNext
<1> QED
  BY <1>1, <1>2, PTL DEF CallSpec

\* The index of a loop never passes the end of what it runs over, and a
\* function that returned has a result.
THEOREM TypeCorrect == CallSpec => []TypeOK
<1>1. CallInv => TypeOK
  BY DEF CallInv
<1> QED
  BY <1>1, Typing, PTL

-----------------------------------------------------------------------------
(* The denial of existence *)

\* A record of the zone's chain speaks the truth about any name and type.
LEMMA NsecTrue ==
  ASSUME NEW nsec, NEW data, IsNsec(nsec, data), NEW name, NEW rtype,
         \/ CoversName(nsec, name)
         \/ name = nsec.name /\ rtype \notin nsec.types
  PROVE  ~(name \in DOMAIN data /\ rtype \in data[name])
BY DEF IsNsec, CoversName

\* The records of a zone's NSEC chain, in any number and order, never deny a
\* record set that the zone holds (validate_nsec_denial).
THEOREM DenialIsSound == CallSpec => []DenialSound
<1>1. CallInit => DenialSound
  BY DEF CallInit, DenialSound
<1>2. CallInv /\ DenialSound /\ [CallNext]_callVars => DenialSound'
  <2> SUFFICES ASSUME CallInv, DenialSound, [CallNext]_callVars,
                      fn' = "validate_nsec_denial", result' = "ok"
               PROVE  ~Exists'
    BY DEF DenialSound
  <2>1. fn = "validate_nsec_denial" /\ call' = call
    BY DEF CallNext, callVars, VerifyDs, AddByte, FoldCarry, CompareTag, CompareDigest,
           CheckSignatureValidity, TryNsec, NoProof, FindSignatures, FindKeys, Return, Goto
  <2>2. CASE TryNsec
    <3>1. CASE result = "ok"
      BY <2>1, <3>1 DEF DenialSound, Exists
    <3>2. CASE result # "ok"
      <4> DEFINE nsec == call.nsecs[at]
      <4>1. /\ nsec.type = NSEC
            /\ \/ CoversName(nsec, call.qname)
               \/ call.qname = nsec.name /\ call.qtype \notin nsec.types
        BY <2>2, <3>2 DEF TryNsec
      <4>2. call \in DenialCalls /\ at \in 1 .. Len(call.nsecs)
        BY <2>1, <2>2, DnssecAssumption DEF CallInv, TypeOK, CallOK, TryNsec
      <4>3. IsNsec(nsec, call.data)
        BY <4>1, <4>2, DnssecAssumption
      <4>4. ~(call.qname \in DOMAIN call.data /\ call.qtype \in call.data[call.qname])
        BY <4>1, <4>3, NsecTrue
      <4> QED  BY <2>1, <4>4 DEF Exists
    <3> QED  BY <3>1, <3>2
  <2>3. CASE ~TryNsec
    <3>1. result = "ok"
      BY <2>1, <2>3 DEF CallInv, TypeOK, CallOK, CallNext, callVars, VerifyDs, AddByte, FoldCarry,
           CompareTag, CompareDigest, CheckSignatureValidity, NoProof, FindSignatures,
           FindKeys, Return, Goto
    <3> QED  BY <2>1, <3>1 DEF DenialSound, Exists
  <2> QED  BY <2>2, <2>3
<1> QED
  BY <1>1, <1>2, Typing, PTL DEF CallSpec

-----------------------------------------------------------------------------
(* The accumulator of compute_key_tag *)

\* The largest sum of the bytes of an RDATA of 65535 bytes, and what the carry
\* adds to it.
MaxSum == 65280 * 65535
MaxCarry == 65279

AcBound ==
  /\ ac <= MaxSum + MaxCarry
  /\ fn = "verify_ds" /\ pc \in {"verify_ds", "sum"} => ac <= 65280 * (at - 1)

LEMMA AcBounded == CallSpec => []AcBound
<1>1. CallInit => AcBound
  BY SMT DEF CallInit, AcBound, MaxSum, MaxCarry
<1>2. CallInv /\ AcBound /\ [CallNext]_callVars => AcBound'
  <2> SUFFICES ASSUME CallInv, AcBound, [CallNext]_callVars PROVE AcBound'
    OBVIOUS
  <2>1. CASE AddByte
    <3>1. /\ fn = "verify_ds" /\ at \in Nat /\ at > 0 /\ at <= Len(Rdata(call.dnskey))
          /\ ac \in Nat /\ call \in DsCalls
      BY <2>1 DEF AddByte, CallInv, TypeOK, CallOK, Helpers
    <3>2. /\ Rdata(call.dnskey) \in Seq(Bytes) /\ Len(Rdata(call.dnskey)) \in Nat
          /\ Len(Rdata(call.dnskey)) <= 65535
      BY <3>1, RdataBytes
    <3>3. Rdata(call.dnskey)[at] \in Bytes
      BY <3>1, <3>2
    <3>4. PICK byte \in Bytes : ac' = ac + byte * (IF (at - 1) % 2 = 0 THEN 256 ELSE 1)
      BY <2>1, <3>3 DEF AddByte
    <3>5. ac' <= ac + 65280
      BY <3>1, <3>4, SMT DEF Bytes
    <3>6. /\ ac <= 65280 * (at - 1) /\ at' = at + 1 /\ ac' \in Nat
      BY <2>1, <3>1, <3>4, SMT DEF AcBound, AddByte, Bytes
    <3>7. ac' <= 65280 * at /\ at <= 65535
      BY <3>1, <3>2, <3>5, <3>6, SMT
    <3> QED  BY <3>1, <3>6, <3>7, SMT DEF AcBound, MaxSum, MaxCarry
  <2>2. CASE FoldCarry
    <3>1. /\ fn = "verify_ds" /\ at \in Nat /\ ac \in Nat /\ call \in DsCalls
          /\ at <= Len(Rdata(call.dnskey)) + 1 /\ pc' = "tag"
      BY <2>2 DEF FoldCarry, Goto, CallInv, TypeOK, CallOK, Helpers
    <3>2. Len(Rdata(call.dnskey)) \in Nat /\ Len(Rdata(call.dnskey)) <= 65535
      BY <3>1, RdataBytes
    <3>3. ac <= MaxSum
      BY <2>2, <3>1, <3>2, SMT DEF FoldCarry, AcBound, MaxSum
    <3>4. (ac \div 65536) % 65536 <= MaxCarry
      BY <3>1, <3>3, SMT DEF MaxSum, MaxCarry
    <3> QED  BY <2>2, <3>1, <3>3, <3>4, SMT DEF FoldCarry, AcBound, MaxSum, MaxCarry
  <2>3. CASE ~AddByte /\ ~FoldCarry
    <3>1. UNCHANGED <<ac, fn>> /\ (pc' \in {"verify_ds", "sum"} => pc \in {"verify_ds", "sum"})
      BY <2>3 DEF CallNext, callVars, VerifyDs, CompareTag, CompareDigest, CheckSignatureValidity,
             TryNsec, NoProof, FindSignatures, FindKeys, Return, Goto
    <3>2. fn = "verify_ds" => at' = at
      BY <2>3 DEF CallInv, TypeOK, CallOK, CallNext, callVars, VerifyDs, CompareTag, CompareDigest,
             CheckSignatureValidity, TryNsec, NoProof, FindSignatures, FindKeys, Return, Goto
    <3> QED  BY <3>1, <3>2 DEF AcBound
  <2> QED  BY <2>1, <2>2, <2>3
<1> QED
  BY <1>1, <1>2, Typing, PTL DEF CallSpec

\* compute_key_tag's u32 accumulator does not overflow, neither in the sum nor
\* when the carry is added, for any key that fits in a record.
THEOREM AccumulatorFits == CallSpec => [](ac < 65536 * 65536)
<1>1. CallInv /\ AcBound => ac < 65536 * 65536
  BY SMT DEF AcBound, MaxSum, MaxCarry, CallInv, TypeOK
<1> QED
  BY <1>1, AcBounded, Typing, PTL

-----------------------------------------------------------------------------
(* The times of a signature *)

LEMMA DivMod ==
  ASSUME NEW T \in Nat \ {0}, NEW n \in Nat
  PROVE  /\ n \div T \in Nat /\ n % T \in 0 .. T - 1
         /\ n = T * (n \div T) + (n % T)
OBVIOUS

LEMMA Multiples ==
  ASSUME NEW T \in Nat \ {0}, NEW p \in Int, NEW q \in Int
  PROVE  /\ p < q => T * p + T <= T * q
         /\ T * p \in Int /\ T * q \in Int
<1>1. T * p \in Int /\ T * q \in Int /\ T * (q - p) = T * q - T * p
  OBVIOUS
<1>2. ASSUME p < q PROVE T <= T * (q - p)
  <2>1. PICK d \in Nat : q - p = d + 1
    BY <1>2
  <2>2. T * (d + 1) = T * d + T /\ T * d \in Nat
    OBVIOUS
  <2> QED BY <2>1, <2>2
<1> QED BY <1>1, <1>2

LEMMA TimesCut ==
  ASSUME NEW T \in Nat \ {0}, NEW from \in Nat, NEW to \in Nat, NEW now \in Nat,
         from <= to, to < from + T \div 2
  PROVE  LET accepted == from % T <= now % T /\ now % T <= to % T
             meant == from <= now /\ now <= to
         IN  /\ accepted /\ now < from + T \div 2 /\ from < now + T \div 2 => meant
             /\ meant /\ from \div T = to \div T => accepted
<1> DEFINE qf == from \div T
           qt == to \div T
           qn == now \div T
           rf == from % T
           rt == to % T
           rn == now % T
           half == T \div 2
<1>1. /\ qf \in Nat /\ rf \in 0 .. T - 1 /\ from = T * qf + rf
      /\ qt \in Nat /\ rt \in 0 .. T - 1 /\ to = T * qt + rt
      /\ qn \in Nat /\ rn \in 0 .. T - 1 /\ now = T * qn + rn
  BY DivMod
<1>2. half \in Nat /\ half + half <= T /\ to < from + half
  OBVIOUS
<1> HIDE DEF qf, qt, qn, rf, rt, rn, half
<1>3. /\ qf < qt => T * qf + T <= T * qt
      /\ qt < qf => T * qt + T <= T * qf
      /\ qf < qn => T * qf + T <= T * qn
      /\ qn < qf => T * qn + T <= T * qf
      /\ T * qf \in Int /\ T * qt \in Int /\ T * qn \in Int
  BY <1>1, Multiples
<1>4. PICK mf \in Int, mt \in Int, mn \in Int : mf = T * qf /\ mt = T * qt /\ mn = T * qn
  BY <1>3
<1>5. ASSUME rf <= rn, rn <= rt, now < from + half, from < now + half
      PROVE  from <= now /\ now <= to
  <2>1. qf = qt
    BY <1>1, <1>2, <1>3, <1>4, <1>5
  <2>2. qn = qf
    BY <1>1, <1>2, <1>3, <1>4, <1>5, <2>1
  <2> QED BY <1>1, <1>4, <1>5, <2>1, <2>2
<1>6. ASSUME from <= now, now <= to, qf = qt
      PROVE  rf <= rn /\ rn <= rt
  <2>1. qn = qf
    BY <1>1, <1>3, <1>4, <1>6
  <2> QED BY <1>1, <1>4, <1>6, <2>1
<1> QED
  BY <1>5, <1>6 DEF qf, qt, qn, rf, rt, rn, half

\* While the clock is within half a span of a signature's period, times cut to 32
\* bits never make check_signature_validity accept the signature outside of it,
\* and within it the signature is accepted unless the period holds a wrap.
THEOREM SignaturesTimely == CallSpec => []SignatureTimely
<1>1. CallInit => SignatureTimely
  BY DEF CallInit, SignatureTimely
<1>2. CallInv /\ SignatureTimely /\ [CallNext]_callVars => SignatureTimely'
  <2> SUFFICES ASSUME CallInv, SignatureTimely, [CallNext]_callVars,
                      fn' = "check_signature_validity", pc' = "done"
               PROVE  SignatureTimely'
    BY DEF SignatureTimely
  <2>1. CASE CheckSignatureValidity
    <3>1. /\ call \in TimeCalls /\ call' = call
          /\ result' = IF call.now % TimeSpan < call.from % TimeSpan
                          \/ call.now % TimeSpan > call.to % TimeSpan THEN "err" ELSE "ok"
      BY <2>1 DEF CheckSignatureValidity, Return, CallInv, TypeOK, CallOK, Helpers
    <3>2. /\ call.from \in Nat /\ call.to \in Nat /\ call.now \in Nat
          /\ TimeSpan \in Nat \ {0}
      BY <3>1, DnssecAssumption
    <3>3. /\ call.from % TimeSpan \in Nat /\ call.to % TimeSpan \in Nat
          /\ call.now % TimeSpan \in Nat
      BY <3>2, DivMod
    <3>4. result' = "ok" <=> /\ call.from % TimeSpan <= call.now % TimeSpan
                             /\ call.now % TimeSpan <= call.to % TimeSpan
      BY <3>1, <3>3
    <3> SUFFICES ASSUME call.from <= call.to, call.to < call.from + TimeSpan \div 2
                 PROVE  LET half == TimeSpan \div 2
                            meant == call.from <= call.now /\ call.now <= call.to
                        IN  /\ result' = "ok" /\ call.now < call.from + half
                               /\ call.from < call.now + half => meant
                            /\ meant /\ call.from \div TimeSpan = call.to \div TimeSpan
                               => result' = "ok"
      BY <3>1 DEF SignatureTimely
    <3> QED  BY <3>2, <3>4, TimesCut
  <2>2. CASE ~CheckSignatureValidity
    <3>1. UNCHANGED <<fn, pc, call, result>>
      BY <2>2 DEF CallInv, TypeOK, CallOK, CallNext, callVars, VerifyDs, AddByte, FoldCarry, CompareTag,
           CompareDigest, TryNsec, NoProof, FindSignatures, FindKeys, Return, Goto
    <3> QED  BY <3>1 DEF SignatureTimely
  <2> QED  BY <2>1, <2>2
<1> QED
  BY <1>1, <1>2, Typing, PTL DEF CallSpec

-----------------------------------------------------------------------------
(* The order of names *)

LEMMA GreatestName ==
  ASSUME NEW S, IsFiniteSet(S), S # {}, S \subseteq Seq(Nat)
  PROVE  \E z \in S : \A y \in S : ~NameLess(z, y)
<1> DEFINE Above(z) == {y \in S : NameLess(z, y)}
           sizes == {Cardinality(Above(z)) : z \in S}
<1>1. ASSUME NEW z \in S PROVE IsFiniteSet(Above(z)) /\ Cardinality(Above(z)) \in Nat
  <2>1. Above(z) \subseteq S
    OBVIOUS
  <2> HIDE DEF Above
  <2> QED  BY <2>1, FS_Subset, FS_CardinalityType
<1>2. PICK n \in sizes : \A k \in sizes : n <= k
  <2>1. sizes \subseteq Nat /\ sizes # {}
    BY <1>1
  <2> HIDE DEF sizes
  <2> QED  BY <2>1, LeastNumber
<1>3. PICK z \in S : \A y \in S : Cardinality(Above(z)) <= Cardinality(Above(y))
  BY <1>2
<1>4. ASSUME NEW y \in S, NameLess(z, y) PROVE FALSE
  <2>1. Above(y) \subseteq Above(z)
    BY <1>4, NameLessTransitive
  <2>2. y \in Above(z) /\ y \notin Above(y)
    BY <1>4, NameLessIrreflexive
  <2>3. Cardinality(Above(y)) < Cardinality(Above(z))
    <3>1. IsFiniteSet(Above(y)) /\ IsFiniteSet(Above(z)) /\ Above(y) # Above(z)
      BY <1>1, <2>2
    <3> HIDE DEF Above
    <3>2. Cardinality(Above(y)) \in Nat /\ Cardinality(Above(z)) \in Nat
      BY <1>1
    <3>3. /\ Cardinality(Above(y)) <= Cardinality(Above(z))
          /\ Cardinality(Above(z)) # Cardinality(Above(y))
      BY <2>1, <3>1, FS_Subset, Zenon
    <3> QED  BY <3>2, <3>3
  <2>4. Cardinality(Above(z)) <= Cardinality(Above(y))
    BY <1>3
  <2> HIDE DEF Above
  <2> QED  BY <1>1, <2>3, <2>4
<1> QED  BY <1>4

-----------------------------------------------------------------------------
(* The completeness of a denial *)

\* The test of one turn of validate_nsec_denial's loop.
Denies(nsec, name, rtype) ==
  \/ CoversName(nsec, name)
  \/ name = nsec.name /\ rtype \notin nsec.types

\* A chain with a record for every name of the zone has one that denies what
\* the zone does not hold: the one at the name itself, at the greatest name
\* before it or, if none is before it, at the greatest name of the zone.
LEMMA ChainDenies ==
  ASSUME NEW data, NEW chain, NEW name \in Seq(Nat), NEW rtype,
         DOMAIN data \subseteq Seq(Nat), IsFiniteSet(DOMAIN data), DOMAIN data # {},
         \A nsec \in chain : IsNsec(nsec, data),
         \A z \in DOMAIN data : \E nsec \in chain : nsec.name = z,
         ~(name \in DOMAIN data /\ rtype \in data[name])
  PROVE  \E nsec \in chain : Denies(nsec, name, rtype)
<1> DEFINE owners == DOMAIN data
           before == {z \in owners : NameLess(z, name)}
<1>1. CASE name \in owners
  <2>1. PICK nsec \in chain : nsec.name = name
    BY <1>1
  <2>2. nsec.types = data[name]
    BY <2>1 DEF IsNsec
  <2> QED  BY <1>1, <2>1, <2>2 DEF Denies
<1>2. CASE name \notin owners /\ before # {}
  <2>1. before \subseteq owners
    OBVIOUS
  <2>2. IsFiniteSet(before) /\ before \subseteq Seq(Nat)
    <3> HIDE DEF before
    <3> QED  BY <2>1, FS_Subset
  <2>3. PICK z \in before : \A y \in before : ~NameLess(z, y)
    <3> HIDE DEF before
    <3> QED  BY <1>2, <2>2, GreatestName
  <2>4. PICK nsec \in chain : nsec.name = z
    OBVIOUS
  <2>5. /\ IsNsec(nsec, data) /\ nsec.next \in owners /\ nsec.next # name
        /\ z \in owners /\ NameLess(z, name)
    BY <1>2, <2>4 DEF IsNsec
  <2>6. CASE NameLess(z, nsec.next)
    <3>1. ~NameLess(nsec.next, name)
      BY <2>3, <2>5, <2>6
    <3>2. NameLess(name, nsec.next)
      BY <2>5, <3>1, NameLessTotal
    <3> QED  BY <2>4, <2>5, <2>6, <3>2 DEF Denies, CoversName
  <2>7. CASE ~NameLess(z, nsec.next)
    BY <2>4, <2>5, <2>7 DEF Denies, CoversName
  <2> QED  BY <2>6, <2>7
<1>3. CASE name \notin owners /\ before = {}
  <2>1. PICK z \in owners : \A y \in owners : ~NameLess(z, y)
    BY GreatestName
  <2>2. PICK nsec \in chain : nsec.name = z
    OBVIOUS
  <2>3. IsNsec(nsec, data) /\ nsec.next \in owners /\ nsec.next # name
    BY <1>3, <2>2 DEF IsNsec
  <2>4. ~NameLess(z, nsec.next)
    BY <2>1, <2>3
  <2>5. NameLess(name, nsec.next)
    BY <1>3, <2>3, NameLessTotal
  <2> QED  BY <2>2, <2>4, <2>5 DEF Denies, CoversName
<1> QED  BY <1>1, <1>2, <1>3

\* The records looked at so far do not deny what was asked, and "err" means that
\* all were looked at.
Tried ==
  fn = "validate_nsec_denial" =>
    /\ result # "ok" => \A i \in 1 .. at - 1 :
         call.nsecs[i].type = NSEC => ~Denies(call.nsecs[i], call.qname, call.qtype)
    /\ result = "err" => at > Len(call.nsecs)

\* With the whole NSEC chain, validate_nsec_denial denies whatever the zone does
\* not hold: no name falls between two records, before the first or after the last.
THEOREM DenialIsComplete == CallSpec => []DenialComplete
<1>1. CallInit => Tried
  BY DEF CallInit, Tried
<1>2. CallInv /\ Tried /\ [CallNext]_callVars => Tried'
  <2> SUFFICES ASSUME CallInv, Tried, [CallNext]_callVars, fn' = "validate_nsec_denial" PROVE Tried'
    BY DEF Tried
  <2>1. fn = "validate_nsec_denial" /\ call' = call /\ call \in DenialCalls
        /\ at \in Nat \ {0}
    BY DEF CallNext, callVars, VerifyDs, AddByte, FoldCarry, CompareTag, CompareDigest, CallInv, CallOK,
           TypeOK, CheckSignatureValidity, TryNsec, NoProof, FindSignatures, FindKeys, Return, Goto
  <2>2. CASE TryNsec
    <3>1. CASE call.nsecs[at].type = NSEC /\ Denies(call.nsecs[at], call.qname, call.qtype)
      BY <2>1, <2>2, <3>1 DEF TryNsec, Return, Tried, Denies
    <3>2. CASE ~(call.nsecs[at].type = NSEC /\ Denies(call.nsecs[at], call.qname, call.qtype))
      <4>1. at' = at + 1 /\ result' = result /\ at <= Len(call.nsecs) /\ result = "none"
        BY <2>2, <3>2 DEF TryNsec, Denies, CallInv, TypeOK
      <4>2. \A i \in 1 .. at : i \in 1 .. at - 1 \/ i = at
        BY <2>1
      <4> QED  BY <2>1, <3>2, <4>1, <4>2 DEF Tried
    <3> QED  BY <3>1, <3>2
  <2>3. CASE NoProof
    BY <2>1, <2>3 DEF NoProof, Return, Tried, CallInv, TypeOK
  <2>4. CASE ~TryNsec /\ ~NoProof
    <3>1. UNCHANGED <<fn, call, at, result>>
      BY <2>1, <2>4 DEF CallInv, TypeOK, CallOK, CallNext, callVars, VerifyDs, AddByte, FoldCarry, CompareTag,
           CompareDigest, CheckSignatureValidity, FindSignatures, FindKeys, Return, Goto
    <3> QED  BY <3>1 DEF Tried
  <2> QED  BY <2>2, <2>3, <2>4
<1>3. CallInv /\ Tried => DenialComplete
  <2> SUFFICES ASSUME CallInv, Tried, fn = "validate_nsec_denial", result = "err",
                      DOMAIN call.data \subseteq
                        {n.name : n \in {n \in ToSet(call.nsecs) : n.type = NSEC}},
                      ~Exists
               PROVE  FALSE
    BY DEF DenialComplete
  <2> DEFINE chain == {n \in ToSet(call.nsecs) : n.type = NSEC}
  <2>1. /\ call \in DenialCalls /\ at > Len(call.nsecs) /\ at \in Nat
        /\ \A i \in 1 .. at - 1 :
             call.nsecs[i].type = NSEC => ~Denies(call.nsecs[i], call.qname, call.qtype)
    BY DEF CallInv, CallOK, TypeOK, Tried
  <2>2. /\ call.qname \in Seq(Nat) /\ DOMAIN call.data \subseteq Seq(Nat)
        /\ IsFiniteSet(DOMAIN call.data) /\ DOMAIN call.data # {}
        /\ call.nsecs \in Seq(ToSet(call.nsecs))
        /\ \A i \in 1 .. Len(call.nsecs) :
             call.nsecs[i].type = NSEC => IsNsec(call.nsecs[i], call.data)
    BY <2>1, DnssecAssumption
  <2>3. Len(call.nsecs) \in Nat /\ DOMAIN call.nsecs = 1 .. Len(call.nsecs)
    BY <2>2
  <2>4. \A n \in chain : IsNsec(n, call.data) /\ ~Denies(n, call.qname, call.qtype)
    <3> SUFFICES ASSUME NEW i \in 1 .. Len(call.nsecs), call.nsecs[i].type = NSEC
                 PROVE  /\ IsNsec(call.nsecs[i], call.data)
                        /\ ~Denies(call.nsecs[i], call.qname, call.qtype)
      BY <2>3 DEF ToSet
    <3>1. i \in 1 .. at - 1
      BY <2>1, <2>3
    <3> QED  BY <2>1, <2>2, <3>1
  <2>5. \A z \in DOMAIN call.data : \E n \in chain : n.name = z
    OBVIOUS
  <2>6. \E n \in chain : Denies(n, call.qname, call.qtype)
    <3> HIDE DEF chain
    <3> QED  BY <2>2, <2>4, <2>5, ChainDenies DEF Exists
  <2> QED  BY <2>4, <2>6
<1> QED
  BY <1>1, <1>2, <1>3, Typing, PTL DEF CallSpec

-----------------------------------------------------------------------------
(* The key tag *)

LEMMA PartialSums ==
  ASSUME NEW n \in Nat, NEW w \in [1 .. n -> Nat]
  PROVE  \E f \in [0 .. n -> Nat] : f = [k \in 0 .. n |-> IF k = 0 THEN 0 ELSE f[k - 1] + w[k]]
<1> DEFINE R(m, f) == /\ f \in [0 .. m -> Nat]
                      /\ f[0] = 0
                      /\ \A k \in 1 .. m : f[k] = f[k - 1] + w[k]
           bad == {m \in 0 .. n : ~\E f : R(m, f)}
<1>1. bad = {}
  <2> SUFFICES ASSUME bad # {} PROVE FALSE
    OBVIOUS
  <2>1. PICK m \in bad : \A y \in bad : m <= y
    <3>1. bad \subseteq Nat
      OBVIOUS
    <3> HIDE DEF bad
    <3> QED  BY <3>1, LeastNumber
  <2>2. m \in 0 .. n /\ ~\E f : R(m, f)
    OBVIOUS
  <2>3. m # 0
    <3> DEFINE f0 == [k \in 0 .. 0 |-> 0]
    <3>1. R(0, f0)
      OBVIOUS
    <3> HIDE DEF R, f0
    <3> QED  BY <2>2, <3>1
  <2>4. PICK g : R(m - 1, g)
    <3> HIDE DEF R
    <3>1. m - 1 \in 0 .. n /\ ~(m <= m - 1)
      BY <2>2, <2>3
    <3> QED  BY <2>1, <3>1
  <2> DEFINE h == [k \in 0 .. m |-> IF k = m THEN g[m - 1] + w[m] ELSE g[k]]
  <2>5. R(m, h)
    <3>1. w[m] \in Nat /\ g[m - 1] \in Nat /\ m \in Nat
      BY <2>2, <2>3, <2>4
    <3>2. h \in [0 .. m -> Nat] /\ h[0] = 0
      BY <2>2, <2>3, <2>4, <3>1
    <3>3. ASSUME NEW k \in 1 .. m PROVE h[k] = h[k - 1] + w[k]
      <4>1. k - 1 \in 0 .. m - 1
        BY <3>1
      <4>2. h[k - 1] = g[k - 1]
        BY <3>1, <4>1
      <4>3. CASE k = m
        BY <3>1, <4>2, <4>3
      <4>4. CASE k # m
        <5>1. k \in 1 .. m - 1 /\ h[k] = g[k]
          BY <3>1, <4>4
        <5> QED  BY <2>4, <4>2, <5>1
      <4> QED  BY <4>3, <4>4
    <3> QED  BY <3>2, <3>3
  <2> HIDE DEF R
  <2> QED  BY <2>2, <2>5
<1>2. PICK f : R(n, f)
  <2> HIDE DEF R
  <2>1. n \in 0 .. n
    OBVIOUS
  <2> QED  BY <1>1, <2>1
<1>3. f = [k \in 0 .. n |-> IF k = 0 THEN 0 ELSE f[k - 1] + w[k]]
  <2>1. \A k \in 0 .. n : f[k] = IF k = 0 THEN 0 ELSE f[k - 1] + w[k]
    BY <1>2
  <2>2. f = [k \in 0 .. n |-> f[k]]
    BY <1>2
  <2> QED  BY <2>1, <2>2
<1> QED  BY <1>2, <1>3

WordCount(rdata) == (Len(rdata) + 1) \div 2

LEMMA WordIsNat ==
  ASSUME NEW rdata \in Seq(Bytes), NEW k \in Nat \ {0}
  PROVE  /\ Word(rdata, k) \in Nat
         /\ 2 * k <= Len(rdata) => Word(rdata, k) = 256 * rdata[2 * k - 1] + rdata[2 * k]
         /\ 2 * k - 1 = Len(rdata) => Word(rdata, k) = 256 * rdata[2 * k - 1]
<1> DEFINE Byte(i) == IF i \in DOMAIN rdata THEN rdata[i] ELSE 0
<1>1. \A i \in Nat : Byte(i) \in Nat
  BY DEF Bytes
<1>2. 2 * k - 1 \in Nat /\ 2 * k \in Nat
  OBVIOUS
<1>3. Word(rdata, k) = 256 * Byte(2 * k - 1) + Byte(2 * k)
  BY DEF Word
<1>4. Len(rdata) \in Nat /\ DOMAIN rdata = 1 .. Len(rdata)
  OBVIOUS
<1>5. ASSUME 2 * k <= Len(rdata)
      PROVE  Byte(2 * k - 1) = rdata[2 * k - 1] /\ Byte(2 * k) = rdata[2 * k]
  BY <1>4, <1>5
<1>6. ASSUME 2 * k - 1 = Len(rdata)
      PROVE  Byte(2 * k - 1) = rdata[2 * k - 1] /\ Byte(2 * k) = 0
  BY <1>4, <1>6
<1>7. Byte(2 * k - 1) \in Nat /\ Byte(2 * k) \in Nat
  BY <1>1, <1>2
<1> HIDE DEF Byte
<1>8. Word(rdata, k) \in Nat
  BY <1>3, <1>7
<1>9. ASSUME 2 * k - 1 = Len(rdata) PROVE Word(rdata, k) = 256 * rdata[2 * k - 1]
  BY <1>3, <1>6, <1>7, <1>9
<1> QED  BY <1>3, <1>5, <1>8, <1>9

LEMMA WordSumsRecursion ==
  ASSUME NEW rdata \in Seq(Bytes)
  PROVE  /\ WordCount(rdata) \in Nat
         /\ WordSums(rdata) \in [0 .. WordCount(rdata) -> Nat]
         /\ WordSums(rdata)[0] = 0
         /\ \A k \in 1 .. WordCount(rdata) :
              WordSums(rdata)[k] = WordSums(rdata)[k - 1] + Word(rdata, k)
<1> DEFINE n == WordCount(rdata)
           w == [k \in 1 .. n |-> Word(rdata, k)]
           sums == WordSums(rdata)
<1>1. n \in Nat
  BY DEF WordCount
<1>2. w \in [1 .. n -> Nat]
  BY <1>1, WordIsNat
<1>3. PICK f \in [0 .. n -> Nat] : f = [k \in 0 .. n |-> IF k = 0 THEN 0 ELSE f[k - 1] + w[k]]
  <2> HIDE DEF n, w
  <2> QED  BY <1>1, <1>2, PartialSums
<1>4. f = [k \in 0 .. n |-> IF k = 0 THEN 0 ELSE f[k - 1] + Word(rdata, k)]
  <2>1. \A k \in 0 .. n : k # 0 => w[k] = Word(rdata, k)
    BY <1>1
  <2> HIDE DEF n, w
  <2> QED  BY <1>3, <2>1
<1>5. sums = [k \in 0 .. n |-> IF k = 0 THEN 0 ELSE sums[k - 1] + Word(rdata, k)]
  <2>1. sums = CHOOSE g : g = [k \in 0 .. n |-> IF k = 0 THEN 0 ELSE g[k - 1] + Word(rdata, k)]
    BY DEF WordSums, WordCount
  <2> HIDE DEF sums
  <2> QED  BY <1>4, <2>1, Zenon
<1> HIDE DEF n, sums
<1>6. \A k \in 0 .. n : sums[k] = IF k = 0 THEN 0 ELSE sums[k - 1] + Word(rdata, k)
  BY <1>5
<1>7. sums[0] = 0 /\ \A k \in 1 .. n : sums[k] = sums[k - 1] + Word(rdata, k)
  BY <1>1, <1>6
<1>8. \A k \in 0 .. n : sums[k] \in Nat
  <2> DEFINE bad == {k \in 0 .. n : sums[k] \notin Nat}
  <2> SUFFICES ASSUME bad # {} PROVE FALSE
    OBVIOUS
  <2>1. PICK m \in bad : \A y \in bad : m <= y
    <3>1. bad \subseteq Nat
      BY <1>1
    <3> HIDE DEF bad
    <3> QED  BY <3>1, LeastNumber
  <2>2. m \in 1 .. n /\ sums[m] \notin Nat
    BY <1>1, <1>7
  <2>3. sums[m - 1] \in Nat
    <3>1. m - 1 \in 0 .. n /\ ~(m <= m - 1)
      BY <1>1, <2>2
    <3> QED  BY <2>1, <3>1
  <2>4. sums[m] = sums[m - 1] + Word(rdata, m) /\ Word(rdata, m) \in Nat
    BY <1>1, <1>7, <2>2, WordIsNat
  <2> QED  BY <2>2, <2>3, <2>4
<1>9. sums \in [0 .. n -> Nat]
  BY <1>5, <1>8
<1> QED
  BY <1>1, <1>7, <1>9 DEF n, sums

\* What the first n bytes add up to: whole words, and the high half of one more.
BytesSum(rdata, n) ==
  IF n % 2 = 0 THEN WordSums(rdata)[n \div 2]
  ELSE WordSums(rdata)[(n - 1) \div 2] + 256 * rdata[n]

LEMMA BytesSumStep ==
  ASSUME NEW rdata \in Seq(Bytes), NEW i \in 1 .. Len(rdata)
  PROVE  BytesSum(rdata, i) =
           BytesSum(rdata, i - 1) + rdata[i] * (IF (i - 1) % 2 = 0 THEN 256 ELSE 1)
<1>1. Len(rdata) \in Nat /\ rdata[i] \in Nat /\ i \in Nat /\ i >= 1
  BY DEF Bytes
<1>2. CASE (i - 1) % 2 = 0
  <2>1. i % 2 # 0
    BY <1>1, <1>2
  <2>2. /\ BytesSum(rdata, i) = WordSums(rdata)[(i - 1) \div 2] + 256 * rdata[i]
        /\ BytesSum(rdata, i - 1) = WordSums(rdata)[(i - 1) \div 2]
    BY <1>2, <2>1 DEF BytesSum
  <2> QED  BY <1>1, <1>2, <2>2
<1>3. CASE (i - 1) % 2 # 0
  <2>1. PICK k \in Nat \ {0} : i = 2 * k
    <3>1. i = 2 * (i \div 2) /\ i \div 2 \in Nat \ {0}
      BY <1>1, <1>3
    <3> QED  BY <3>1
  <2>2. i % 2 = 0 /\ i \div 2 = k /\ ((i - 1) - 1) \div 2 = k - 1 /\ 2 * k - 1 \in 1 .. Len(rdata)
    BY <1>1, <2>1
  <2>3. k \in 1 .. WordCount(rdata)
    BY <1>1, <2>1 DEF WordCount
  <2>4. /\ WordSums(rdata)[k] = WordSums(rdata)[k - 1] + Word(rdata, k)
        /\ WordSums(rdata)[k - 1] \in Nat
    <3>1. k - 1 \in 0 .. WordCount(rdata) /\ WordCount(rdata) \in Nat
      BY <2>3, WordSumsRecursion
    <3> QED  BY <2>3, <3>1, WordSumsRecursion
  <2>5. Word(rdata, k) = 256 * rdata[2 * k - 1] + rdata[2 * k] /\ rdata[2 * k - 1] \in Nat
    <3>1. rdata[2 * k - 1] \in Bytes
      BY <2>2
    <3> QED  BY <1>1, <2>1, <3>1, WordIsNat DEF Bytes
  <2>6. /\ BytesSum(rdata, i) = WordSums(rdata)[k]
        /\ BytesSum(rdata, i - 1) = WordSums(rdata)[k - 1] + 256 * rdata[2 * k - 1]
    BY <1>3, <2>1, <2>2 DEF BytesSum
  <2>7. rdata[2 * k] = rdata[i]
    BY <2>1
  <2> HIDE DEF BytesSum
  <2> QED  BY <1>1, <1>3, <2>4, <2>5, <2>6, <2>7
<1> QED  BY <1>2, <1>3

LEMMA BytesSumEnd ==
  ASSUME NEW rdata \in Seq(Bytes)
  PROVE  /\ BytesSum(rdata, Len(rdata)) = WordSums(rdata)[WordCount(rdata)]
         /\ BytesSum(rdata, 0) = 0
<1> DEFINE n == Len(rdata)
<1>1. n \in Nat
  OBVIOUS
<1>2. CASE n % 2 = 0
  <2>1. (n + 1) \div 2 = n \div 2
    BY <1>1, <1>2
  <2> QED  BY <1>2, <2>1, WordSumsRecursion DEF BytesSum, WordCount
<1>3. CASE n % 2 # 0
  <2>1. PICK k \in Nat \ {0} : n = 2 * k - 1
    <3>1. n = 2 * ((n + 1) \div 2) - 1 /\ (n + 1) \div 2 \in Nat \ {0}
      BY <1>1, <1>3
    <3> QED  BY <3>1
  <2>2. WordCount(rdata) = k /\ (n - 1) \div 2 = k - 1
    BY <1>1, <2>1 DEF WordCount
  <2>3. WordSums(rdata)[k] = WordSums(rdata)[k - 1] + Word(rdata, k)
    BY <2>2, WordSumsRecursion
  <2>4. Word(rdata, k) = 256 * rdata[n]
    BY <2>1, WordIsNat
  <2>5. BytesSum(rdata, n) = WordSums(rdata)[k - 1] + 256 * rdata[n]
    BY <1>3, <2>2 DEF BytesSum
  <2> QED  BY <2>2, <2>3, <2>4, <2>5, WordSumsRecursion DEF BytesSum
<1> QED  BY <1>2, <1>3

\* What verify_ds has established at each point, and the sum so far.
DsInv ==
  fn = "verify_ds" =>
    LET rdata == Rdata(call.dnskey)
    IN  /\ pc = "verify_ds" => at = 1 /\ ac = 0
        /\ pc \in {"sum", "tag", "digest"} => /\ call.ds.type = DS /\ call.dnskey.type = DNSKEY
                                              /\ call.ds.algorithm = call.dnskey.algorithm
        /\ pc = "sum" => ac = BytesSum(rdata, at - 1)
        /\ pc \in {"tag", "digest"} => KeyTag = TagOfWords(rdata)
        /\ pc = "digest" => call.ds.tag = TagOfWords(rdata)

\* verify_ds accepts a DS record for a key exactly if it is the one a parent
\* would publish for it: type, algorithm, digest, and the key tag of RFC 4034.
THEOREM DsIsBound == CallSpec => []DsBinds
<1>1. CallInit => DsInv /\ DsBinds
  BY DEF CallInit, DsInv, DsBinds
<1>2. CallInv /\ AcBound /\ DsInv /\ DsBinds /\ [CallNext]_callVars => DsInv' /\ DsBinds'
  <2> SUFFICES ASSUME CallInv, AcBound, DsInv, DsBinds, [CallNext]_callVars, fn' = "verify_ds"
               PROVE  DsInv' /\ DsBinds'
    BY DEF DsInv, DsBinds
  <2>0. fn = "verify_ds" /\ call' = call /\ call \in DsCalls /\ at \in Nat /\ ac \in Nat
    BY DEF CallNext, callVars, VerifyDs, AddByte, FoldCarry, CompareTag, CompareDigest, CallInv, CallOK,
           TypeOK, CheckSignatureValidity, TryNsec, NoProof, FindSignatures, FindKeys, Return, Goto
  <2> DEFINE rdata == Rdata(call.dnskey)
  <2>1. rdata \in Seq(Bytes) /\ Len(rdata) \in Nat
    BY <2>0, RdataBytes
  <2> HIDE DEF rdata
  <2>2. CASE VerifyDs
    <3>1. BytesSum(rdata, 0) = 0
      BY <2>1, BytesSumEnd
    <3> QED  BY <2>0, <2>2, <3>1 DEF VerifyDs, Goto, Return, DsInv, DsBinds, rdata
  <2>3. CASE AddByte
    <3>1. at \in 1 .. Len(rdata) /\ ac = BytesSum(rdata, at - 1) /\ pc' = "sum" /\ pc = "sum"
      BY <2>0, <2>1, <2>3 DEF AddByte, CallInv, TypeOK, DsInv, rdata
    <3>2. ac' = BytesSum(rdata, at)
      BY <2>1, <2>3, <3>1, BytesSumStep DEF AddByte, rdata
    <3>3. at' = at + 1 /\ at' - 1 = at
      BY <2>0, <2>3 DEF AddByte
    <3> QED  BY <2>0, <3>1, <3>2, <3>3 DEF DsInv, DsBinds, rdata
  <2>4. CASE FoldCarry
    <3>1. ac = BytesSum(rdata, at - 1) /\ at = Len(rdata) + 1 /\ pc' = "tag" /\ pc = "sum"
      BY <2>0, <2>1, <2>4 DEF FoldCarry, Goto, CallInv, TypeOK, DsInv, rdata
    <3>2. ac = WordSums(rdata)[WordCount(rdata)]
      <4>1. at - 1 = Len(rdata)
        BY <2>1, <3>1
      <4> QED  BY <2>1, <3>1, <4>1, BytesSumEnd
    <3>3. ac \div 65536 \in Nat /\ ac \div 65536 < 65536
      BY <2>0 DEF AcBound, MaxSum, MaxCarry
    <3>4. (ac \div 65536) % 65536 = ac \div 65536
      BY <3>3
    <3>5. ac' % 65536 = TagOfWords(rdata)
      BY <2>4, <3>2, <3>4 DEF FoldCarry, TagOfWords, WordCount
    <3> QED  BY <2>0, <3>1, <3>5 DEF DsInv, DsBinds, KeyTag, rdata
  <2>5. CASE CompareTag
    BY <2>0, <2>5 DEF CompareTag, Goto, Return, DsInv, DsBinds, KeyTag
  <2>6. CASE CompareDigest
    BY <2>0, <2>6 DEF CompareDigest, Return, DsInv, DsBinds, DigestInput, Canonical
  <2>7. CASE ~VerifyDs /\ ~AddByte /\ ~FoldCarry /\ ~CompareTag /\ ~CompareDigest
    <3>1. UNCHANGED <<fn, call, pc, at, ac, result>>
      BY <2>0, <2>7 DEF CallInv, TypeOK, CallOK, CallNext, callVars, CheckSignatureValidity, TryNsec,
             NoProof, FindSignatures, FindKeys, Return, Goto
    <3> QED  BY <3>1 DEF DsInv, DsBinds, KeyTag
  <2> QED  BY <2>2, <2>3, <2>4, <2>5, <2>6, <2>7
<1> QED
  BY <1>1, <1>2, Typing, AcBounded, PTL DEF CallSpec
=============================================================================
