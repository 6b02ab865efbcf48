---------------------------- MODULE MetricsProofs ----------------------------
(***************************************************************************)
(* Proofs about Metrics for any number of handlers, any sequence of the    *)
(* requests of server.rs, any interleaving of their updates with the loads *)
(* of get_snapshot, and any order of these loads.                          *)
(***************************************************************************)
EXTENDS Metrics, SequenceTheorems, FiniteSetTheorems, WellFoundedInduction, TLAPS

-----------------------------------------------------------------------------
(* Induction over numbers and finite sets *)

LEMMA LeastNumber ==
  ASSUME NEW T, T \subseteq Nat, T # {}
  PROVE  \E x \in T : \A y \in T : x <= y
<1>1. IsWellFoundedOn(OpToRel(<, Nat), Nat)
  BY NatLessThanWellFounded
<1>2. PICK x \in T : \A y \in T : ~(<<y, x>> \in OpToRel(<, Nat))
  BY <1>1, WFMin
<1>3. \A y \in T : ~(y < x)
  BY <1>2 DEF OpToRel
<1> QED  BY <1>3

-----------------------------------------------------------------------------
(* Sums over finite sets *)

Some(s) == CHOOSE x \in s : TRUE

\* The recursion that SumOf is defined by.
IsSum(g, f, S) ==
  g = [s \in SUBSET S |-> IF s = {} THEN 0 ELSE f[Some(s)] + g[s \ {Some(s)}]]

LEMMA SumUnfold ==
  ASSUME NEW f, NEW S
  PROVE  SumOf(f, S) = (CHOOSE g : IsSum(g, f, S))[S]
BY DEF SumOf, MapThenSumSet, MapThenFoldSet, IsSum, Some

LEMMA NatInductionOn ==
  ASSUME NEW Q, 0 \in Q, \A n \in Nat : n \in Q => n + 1 \in Q
  PROVE  Nat \subseteq Q
<1> DEFINE bad == Nat \ Q
<1> SUFFICES ASSUME bad # {} PROVE FALSE
  OBVIOUS
<1>1. PICK m \in bad : \A y \in bad : m <= y
  <2>1. bad \subseteq Nat
    OBVIOUS
  <2> HIDE DEF bad
  <2> QED  BY <2>1, LeastNumber
<1>2. m \in Nat /\ m # 0 /\ m \notin Q
  OBVIOUS
<1>3. m - 1 \in Nat /\ ~(m <= m - 1) /\ (m - 1) + 1 = m
  BY <1>2
<1>4. m - 1 \in Q
  BY <1>1, <1>3
<1> QED  BY <1>2, <1>3, <1>4

LEMMA FiniteInduction ==
  ASSUME NEW S, IsFiniteSet(S), NEW Q,
         \A T \in SUBSET S : (\A x \in T : T \ {x} \in Q) => T \in Q
  PROVE  SUBSET S \subseteq Q
<1> DEFINE missed == {T \in SUBSET S : T \notin Q}
           sizes == {Cardinality(T) : T \in missed}
<1>1. \A T \in SUBSET S : IsFiniteSet(T) /\ Cardinality(T) \in Nat
  BY FS_Subset, FS_CardinalityType
<1> SUFFICES ASSUME sizes # {} PROVE FALSE
  OBVIOUS
<1>2. PICK n \in sizes : \A k \in sizes : n <= k
  <2>1. sizes \subseteq Nat
    BY <1>1
  <2> HIDE DEF sizes
  <2> QED  BY <2>1, LeastNumber
<1>3. PICK T \in missed : n = Cardinality(T)
  OBVIOUS
<1>4. ASSUME NEW x \in T PROVE T \ {x} \in Q
  <2>1. T \ {x} \in SUBSET S /\ Cardinality(T \ {x}) = Cardinality(T) - 1
    BY <1>1, FS_RemoveElement
  <2>2. ~(n <= n - 1) /\ n \in Nat
    BY <1>1, <1>3
  <2> QED  BY <1>2, <1>3, <2>1, <2>2
<1> QED  BY <1>3, <1>4

LEMMA SumExists ==
  ASSUME NEW S, IsFiniteSet(S), NEW f
  PROVE  \E g : IsSum(g, f, S)
<1> DEFINE Small(n) == {s \in SUBSET S : Cardinality(s) <= n}
           Eq(g, s) == IF s = {} THEN 0 ELSE f[Some(s)] + g[s \ {Some(s)}]
           R(n, g) == g = [s \in Small(n) |-> Eq(g, s)]
           Q == {n \in Nat : \E g : R(n, g)}
<1>1. \A s \in SUBSET S : IsFiniteSet(s) /\ Cardinality(s) \in Nat
  BY FS_Subset, FS_CardinalityType
<1>2. 0 \in Q
  <2> DEFINE g == [s \in Small(0) |-> 0]
  <2>1. \A s \in Small(0) : s = {}
    BY <1>1, FS_EmptySet
  <2>2. \A s \in Small(0) : Eq(g, s) = 0
    BY <2>1
  <2>3. R(0, g)
    <3> HIDE DEF Eq, Small
    <3> QED  BY <2>2
  <2> HIDE DEF R, g
  <2> QED  BY <2>3
<1>3. ASSUME NEW n \in Nat, n \in Q PROVE n + 1 \in Q
  <2>1. PICK g : R(n, g)
    BY <1>3
  <2> DEFINE h == [s \in Small(n + 1) |-> Eq(g, s)]
  <2>2. \A s \in Small(n) : s \in Small(n + 1)
    BY <1>1
  <2>3. \A s \in Small(n) : h[s] = g[s]
    <3> HIDE DEF Small, Eq
    <3> QED  BY <2>1, <2>2
  <2>4. ASSUME NEW s \in Small(n + 1) PROVE Eq(g, s) = Eq(h, s)
    <3>1. CASE s = {}
      BY <3>1
    <3>2. CASE s # {}
      <4>1. Some(s) \in s
        BY <3>2 DEF Some
      <4>2. s \in SUBSET S /\ Cardinality(s) <= n + 1
        OBVIOUS
      <4>3. Cardinality(s \ {Some(s)}) = Cardinality(s) - 1
        BY <1>1, <4>1, <4>2, FS_RemoveElement
      <4>4. s \ {Some(s)} \in Small(n)
        BY <1>1, <4>2, <4>3
      <4>5. h[s \ {Some(s)}] = g[s \ {Some(s)}]
        BY <2>3, <4>4
      <4> HIDE DEF h
      <4> QED  BY <3>2, <4>5
    <3> QED  BY <3>1, <3>2
  <2>5. R(n + 1, h)
    <3> HIDE DEF Small, Eq
    <3>1. \A s \in Small(n + 1) : h[s] = Eq(h, s)
      BY <2>4
    <3> QED  BY <2>4, Zenon
  <2> HIDE DEF R, h
  <2> QED  BY <2>5
<1>4. Cardinality(S) \in Nat /\ Small(Cardinality(S)) = SUBSET S
  BY <1>1, FS_Subset, FS_CardinalityType
<1>5. Cardinality(S) \in Q
  <2> HIDE DEF Q
  <2> QED  BY <1>2, <1>3, <1>4, NatInductionOn
<1>6. PICK g : R(Cardinality(S), g)
  <2> HIDE DEF R
  <2> QED  BY <1>5
<1>7. g = [s \in SUBSET S |-> Eq(g, s)]
  <2> HIDE DEF Small, Eq
  <2> QED  BY <1>4, <1>6
<1> QED  BY <1>7 DEF IsSum

LEMMA SumStep ==
  ASSUME NEW S, IsFiniteSet(S), NEW f
  PROVE  SumOf(f, S) = IF S = {} THEN 0 ELSE f[Some(S)] + SumOf(f, S \ {Some(S)})
<1> DEFINE Sum(T) == CHOOSE g : IsSum(g, f, T)
<1>1. \A T \in SUBSET S : IsFiniteSet(T)
  BY FS_Subset
<1>2. \A T \in SUBSET S : IsSum(Sum(T), f, T)
  <2> SUFFICES ASSUME NEW T \in SUBSET S PROVE IsSum(Sum(T), f, T)
    OBVIOUS
  <2>1. \E g : IsSum(g, f, T)
    BY <1>1, SumExists
  <2> QED  BY <2>1, Zenon
<1> HIDE DEF Sum
<1>3. \A T \in SUBSET S : \A s \in SUBSET T :
        Sum(T)[s] = IF s = {} THEN 0 ELSE f[Some(s)] + Sum(T)[s \ {Some(s)}]
  <2> SUFFICES ASSUME NEW T \in SUBSET S, NEW s \in SUBSET T
               PROVE  Sum(T)[s] = IF s = {} THEN 0 ELSE f[Some(s)] + Sum(T)[s \ {Some(s)}]
    OBVIOUS
  <2>1. Sum(T) = [r \in SUBSET T |-> IF r = {} THEN 0 ELSE f[Some(r)] + Sum(T)[r \ {Some(r)}]]
    BY <1>2 DEF IsSum
  <2> QED  BY <2>1, Zenon
<1>4. ASSUME NEW T \in SUBSET S PROVE \A s \in SUBSET T : Sum(T)[s] = Sum(S)[s]
  <2> DEFINE Q == {s \in SUBSET T : Sum(T)[s] = Sum(S)[s]}
  <2>1. ASSUME NEW s \in SUBSET T, \A x \in s : s \ {x} \in Q PROVE s \in Q
    <3>1. CASE s = {}
      BY <1>3, <3>1
    <3>2. CASE s # {}
      <4>1. Some(s) \in s
        BY <3>2 DEF Some
      <4>2. Sum(T)[s \ {Some(s)}] = Sum(S)[s \ {Some(s)}]
        BY <2>1, <4>1
      <4>3. /\ Sum(T)[s] = f[Some(s)] + Sum(T)[s \ {Some(s)}]
            /\ Sum(S)[s] = f[Some(s)] + Sum(S)[s \ {Some(s)}]
        BY <1>3, <3>2
      <4> QED  BY <4>2, <4>3
    <3> QED  BY <3>1, <3>2
  <2>2. SUBSET T \subseteq Q
    <3> HIDE DEF Q
    <3> QED  BY <1>1, <2>1, FiniteInduction
  <2> QED  BY <2>2
<1>5. \A T \in SUBSET S : SumOf(f, T) = Sum(S)[T]
  BY <1>4, SumUnfold DEF Sum
<1> QED  BY <1>3, <1>5

LEMMA SumSame ==
  ASSUME NEW S, IsFiniteSet(S), NEW f, NEW g, \A x \in S : f[x] = g[x]
  PROVE  SumOf(f, S) = SumOf(g, S)
<1> DEFINE Q == {T \in SUBSET S : SumOf(f, T) = SumOf(g, T)}
<1>1. ASSUME NEW T \in SUBSET S, \A x \in T : T \ {x} \in Q PROVE T \in Q
  <2>1. IsFiniteSet(T)
    BY FS_Subset
  <2>2. CASE T = {}
    BY <2>1, <2>2, SumStep
  <2>3. CASE T # {}
    <3>1. Some(T) \in T
      BY <2>3 DEF Some
    <3>2. SumOf(f, T \ {Some(T)}) = SumOf(g, T \ {Some(T)}) /\ f[Some(T)] = g[Some(T)]
      BY <1>1, <3>1
    <3>3. /\ SumOf(f, T) = f[Some(T)] + SumOf(f, T \ {Some(T)})
          /\ SumOf(g, T) = g[Some(T)] + SumOf(g, T \ {Some(T)})
      BY <2>1, <2>3, SumStep
    <3> QED  BY <3>2, <3>3
  <2> QED  BY <2>2, <2>3
<1>2. SUBSET S \subseteq Q
  <2> HIDE DEF Q
  <2> QED  BY <1>1, FiniteInduction
<1> QED  BY <1>2

LEMMA SumNat ==
  ASSUME NEW S, IsFiniteSet(S), NEW f, \A x \in S : f[x] \in Nat
  PROVE  SumOf(f, S) \in Nat
<1> DEFINE Q == {T \in SUBSET S : SumOf(f, T) \in Nat}
<1>1. ASSUME NEW T \in SUBSET S, \A x \in T : T \ {x} \in Q PROVE T \in Q
  <2>1. IsFiniteSet(T)
    BY FS_Subset
  <2>2. CASE T = {}
    <3>1. SumOf(f, T) = 0
      BY <2>1, <2>2, SumStep
    <3> QED  BY <3>1
  <2>3. CASE T # {}
    <3>1. Some(T) \in T
      BY <2>3 DEF Some
    <3>2. SumOf(f, T) = f[Some(T)] + SumOf(f, T \ {Some(T)})
      BY <2>1, <2>3, SumStep
    <3> QED  BY <1>1, <3>1, <3>2
  <2> QED  BY <2>2, <2>3
<1>2. SUBSET S \subseteq Q
  <2> HIDE DEF Q
  <2> QED  BY <1>1, FiniteInduction
<1> QED  BY <1>2

\* A sum does not depend on the order in which its terms are taken.
LEMMA SumRemove ==
  ASSUME NEW S, IsFiniteSet(S), NEW f, \A x \in S : f[x] \in Nat
  PROVE  \A x \in S : SumOf(f, S) = f[x] + SumOf(f, S \ {x})
<1> DEFINE Q == {T \in SUBSET S : \A x \in T : SumOf(f, T) = f[x] + SumOf(f, T \ {x})}
<1>0. \A T \in SUBSET S : IsFiniteSet(T) /\ SumOf(f, T) \in Nat
  <2> SUFFICES ASSUME NEW T \in SUBSET S PROVE IsFiniteSet(T) /\ SumOf(f, T) \in Nat
    OBVIOUS
  <2>1. IsFiniteSet(T)
    BY FS_Subset
  <2> QED  BY <2>1, SumNat
<1>1. ASSUME NEW T \in SUBSET S, \A x \in T : T \ {x} \in Q PROVE T \in Q
  <2> SUFFICES ASSUME NEW x \in T PROVE SumOf(f, T) = f[x] + SumOf(f, T \ {x})
    OBVIOUS
  <2> DEFINE c == Some(T)
  <2>1. c \in T
    BY DEF Some
  <2>2. SumOf(f, T) = f[c] + SumOf(f, T \ {c})
    BY <1>0, SumStep
  <2> HIDE DEF c
  <2>3. CASE x = c
    BY <2>2, <2>3
  <2>4. CASE x # c
    <3>1. SumOf(f, T \ {c}) = f[x] + SumOf(f, (T \ {c}) \ {x})
      BY <1>1, <2>1, <2>4
    <3>2. SumOf(f, T \ {x}) = f[c] + SumOf(f, (T \ {x}) \ {c})
      BY <1>1, <2>1, <2>4
    <3>3. (T \ {c}) \ {x} = (T \ {x}) \ {c} /\ (T \ {x}) \ {c} \in SUBSET S
      OBVIOUS
    <3>4. SumOf(f, (T \ {x}) \ {c}) \in Nat /\ f[x] \in Nat /\ f[c] \in Nat
      BY <1>0, <2>1, <3>3
    <3>5. SumOf(f, T \ {c}) = f[x] + SumOf(f, (T \ {x}) \ {c})
      BY <3>1, <3>3
    <3>6. \A i, j, r \in Nat : i + (j + r) = j + (i + r)
      OBVIOUS
    <3> QED  BY <2>2, <3>2, <3>4, <3>5, <3>6
  <2> QED  BY <2>3, <2>4
<1>2. SUBSET S \subseteq Q
  <2> HIDE DEF Q
  <2> QED  BY <1>1, FiniteInduction
<1> QED  BY <1>2

LEMMA SumIncrement ==
  ASSUME NEW S, IsFiniteSet(S), NEW f, NEW g, \A x \in S : f[x] \in Nat,
         NEW k, NEW n \in Nat,
         \A x \in S : g[x] = IF x = k THEN f[x] + n ELSE f[x]
  PROVE  SumOf(g, S) = IF k \in S THEN SumOf(f, S) + n ELSE SumOf(f, S)
<1>1. CASE k \notin S
  <2>1. \A x \in S : f[x] = g[x]
    BY <1>1
  <2>2. SumOf(f, S) = SumOf(g, S)
    BY <2>1, SumSame
  <2> QED  BY <1>1, <2>2
<1>2. CASE k \in S
  <2>1. /\ SumOf(f, S) = f[k] + SumOf(f, S \ {k})
        /\ SumOf(g, S) = g[k] + SumOf(g, S \ {k})
    <3>1. \A x \in S : g[x] \in Nat
      OBVIOUS
    <3> QED  BY <1>2, <3>1, SumRemove
  <2>2. IsFiniteSet(S \ {k}) /\ \A x \in S \ {k} : f[x] = g[x] /\ f[x] \in Nat
    BY FS_RemoveElement
  <2>3. SumOf(f, S \ {k}) = SumOf(g, S \ {k}) /\ SumOf(f, S \ {k}) \in Nat
    BY <2>2, SumSame, SumNat
  <2> QED  BY <1>2, <2>1, <2>3
<1> QED  BY <1>1, <1>2

LEMMA SumOne ==
  ASSUME NEW f, NEW x, f[x] \in Nat
  PROVE  SumOf(f, {x}) = f[x]
<1>1. IsFiniteSet({x}) /\ IsFiniteSet({}) /\ {x} \ {x} = {}
  BY FS_Singleton, FS_EmptySet
<1>2. SumOf(f, {x}) = f[x] + SumOf(f, {x} \ {x})
  BY <1>1, SumRemove
<1>3. SumOf(f, {}) = 0
  BY <1>1, SumStep
<1> QED  BY <1>1, <1>2, <1>3

LEMMA SumTwo ==
  ASSUME NEW f, NEW x, NEW y, x # y, f[x] \in Nat, f[y] \in Nat
  PROVE  SumOf(f, {x, y}) = f[x] + f[y]
<1>1. IsFiniteSet({x} \cup {y}) /\ {x} \cup {y} = {x, y}
  BY FS_Singleton, FS_Union
<1>2. SumOf(f, {x, y}) = f[x] + SumOf(f, {x, y} \ {x}) /\ {x, y} \ {x} = {y}
  BY <1>1, SumRemove
<1> QED  BY <1>2, SumOne

-----------------------------------------------------------------------------
(* Scripts *)

Total == "total_queries"
Edns == "edns_queries"
Latency == "total_latency_us"
Minimal == "min_latency_us"
Maximal == "max_latency_us"
PerConnection == "tcp_queries_per_connection"
Faults == {"errors", "rate_limited"}
Timing == {Latency, Minimal, Maximal}

\* The order in which every handler updates the counters.
Rank(k) ==
  CASE k = "tcp_connections" -> 1 [] k = Total -> 2 [] k \in Protocols -> 3
    [] k = Edns -> 4 [] k \in QTypes -> 5 [] k \in Faults -> 6 [] k \in Responses -> 7
    [] k = Latency -> 8 [] k = Minimal -> 9 [] k = Maximal -> 10
    [] k = "tcp_connection_timeouts" -> 11 [] k = PerConnection -> 12

LEMMA RankOf ==
  /\ \A k \in Counters : Rank(k) \in 1 .. 12
  /\ Rank("tcp_connections") = 1 /\ Rank(Total) = 2
  /\ \A k \in Protocols : Rank(k) = 3
  /\ Rank(Edns) = 4
  /\ \A k \in QTypes : Rank(k) = 5
  /\ \A k \in Faults : Rank(k) = 6
  /\ \A k \in Responses : Rank(k) = 7
  /\ Rank(Latency) = 8 /\ Rank(Minimal) = 9 /\ Rank(Maximal) = 10
  /\ Rank("tcp_connection_timeouts") = 11 /\ Rank(PerConnection) = 12
<1> USE DEF Rank, Total, Edns, Latency, Minimal, Maximal, PerConnection, Faults, Responses,
            Protocols
<1>1. \A k \in QTypes : k \notin Plain /\ k # Minimal /\ k # Maximal
  BY MetricsAssumption
<1>2. \A k \in QTypes : Rank(k) = 5
  BY <1>1 DEF Plain
<1>3. \A k \in (Plain \cup {Minimal, Maximal}) : k \notin QTypes
  BY <1>1
<1>4. /\ Rank("tcp_connections") = 1 /\ Rank(Total) = 2
      /\ \A k \in Protocols : Rank(k) = 3
      /\ Rank(Edns) = 4
      /\ \A k \in Faults : Rank(k) = 6
      /\ \A k \in Responses : Rank(k) = 7
      /\ Rank(Latency) = 8 /\ Rank(Minimal) = 9 /\ Rank(Maximal) = 10
      /\ Rank("tcp_connection_timeouts") = 11 /\ Rank(PerConnection) = 12
  BY <1>3 DEF Plain
<1>5. \A k \in Counters : Rank(k) \in 1 .. 12
  BY <1>2, <1>4 DEF Counters, Plain
<1> QED  BY <1>2, <1>4, <1>5

Amounts == {"add", "min", "max"} \X Counters \X Nat

\* A single update: what is not a latency is counted one by one.
Proper(o) ==
  /\ o \in Amounts
  /\ o[1] = "min" <=> o[2] = Minimal
  /\ o[1] = "max" <=> o[2] = Maximal
  /\ o[2] \in Timing => o[3] < U64Max
  /\ o[2] \notin Timing => o[3] = 1

Ordered(t) == \A i, j \in 1 .. Len(t) : i < j => Rank(t[i][2]) < Rank(t[j][2])
Touched(t) == {o[2] : o \in ToSet(t)}

\* A script as far as its handler has still to run it.
Suffix(t) ==
  /\ t \in Seq(Amounts) /\ Ordered(t)
  /\ \A o \in ToSet(t) : Proper(o)
  /\ \A o, p \in ToSet(t) : o[2] \in Timing /\ p[2] \in Timing => o[3] = p[3]
  /\ Total \in Touched(t) => \E k \in Protocols : k \in Touched(t)
  /\ Latency \in Touched(t) => Minimal \in Touched(t)
  /\ Minimal \in Touched(t) => Maximal \in Touched(t)

Hits(t, K) == \E k \in K : k \in Touched(t)

\* A whole script: what is counted later was counted first as something else.
Whole(t) ==
  /\ Suffix(t)
  /\ Hits(t, Protocols) => Hits(t, {Total})
  /\ Hits(t, QTypes) => Hits(t, {Total})
  /\ Hits(t, {Edns}) => Hits(t, Protocols)
  /\ Hits(t, Responses) => Hits(t, {Total} \cup Faults)
  /\ Hits(t, Responses) => Hits(t, {Latency}) \/ Hits(t, Faults)
  /\ Hits(t, {PerConnection}) => Hits(t, {"tcp_queries"})
  /\ Hits(t, Timing) => Hits(t, {Latency}) /\ Hits(t, {Total} \cup Faults)

LEMMA ConcatOps ==
  ASSUME NEW S, NEW s \in Seq(S), NEW t \in Seq(S)
  PROVE  /\ s \o t \in Seq(S) /\ ToSet(s \o t) = ToSet(s) \cup ToSet(t)
         /\ (/\ Ordered(s) /\ Ordered(t)
             /\ \A o \in ToSet(s), p \in ToSet(t) : Rank(o[2]) < Rank(p[2]))
            => Ordered(s \o t)
<1>1. /\ s \o t \in Seq(S) /\ Len(s \o t) = Len(s) + Len(t)
      /\ \A i \in 1 .. Len(s) + Len(t) :
           (s \o t)[i] = IF i <= Len(s) THEN s[i] ELSE t[i - Len(s)]
  BY ConcatProperties
<1>2. Len(s) \in Nat /\ Len(t) \in Nat /\ DOMAIN s = 1 .. Len(s) /\ DOMAIN t = 1 .. Len(t)
      /\ DOMAIN (s \o t) = 1 .. Len(s) + Len(t)
  BY <1>1
<1> DEFINE st == s \o t
<1>3. ToSet(st) = ToSet(s) \cup ToSet(t)
  <2>1. ASSUME NEW i \in 1 .. Len(s) + Len(t) PROVE st[i] \in ToSet(s) \cup ToSet(t)
    <3>1. CASE i <= Len(s)
      <4>1. st[i] = s[i] /\ i \in DOMAIN s
        BY <1>1, <1>2, <3>1
      <4> QED  BY <4>1 DEF ToSet
    <3>2. CASE ~(i <= Len(s))
      <4>1. st[i] = t[i - Len(s)] /\ i - Len(s) \in DOMAIN t
        BY <1>1, <1>2, <3>2
      <4> HIDE DEF st
      <4> QED  BY <4>1 DEF ToSet
    <3> QED  BY <3>1, <3>2
  <2>2. ASSUME NEW i \in 1 .. Len(s) PROVE s[i] \in ToSet(st)
    <3>1. i \in 1 .. Len(s) + Len(t) /\ st[i] = s[i]
      BY <1>1, <1>2
    <3> QED  BY <1>2, <3>1 DEF ToSet
  <2>3. ASSUME NEW i \in 1 .. Len(t) PROVE t[i] \in ToSet(st)
    <3>1. /\ i + Len(s) \in 1 .. Len(s) + Len(t) /\ ~(i + Len(s) <= Len(s))
          /\ (i + Len(s)) - Len(s) = i
      BY <1>2
    <3>2. st[i + Len(s)] = t[i]
      BY <1>1, <3>1
    <3> QED  BY <1>2, <3>1, <3>2 DEF ToSet
  <2> QED  BY <1>2, <2>1, <2>2, <2>3 DEF ToSet
<1>4. ASSUME Ordered(s), Ordered(t), \A o \in ToSet(s), p \in ToSet(t) : Rank(o[2]) < Rank(p[2])
      PROVE  Ordered(st)
  <2> SUFFICES ASSUME NEW i \in 1 .. Len(s) + Len(t), NEW j \in 1 .. Len(s) + Len(t), i < j
               PROVE  Rank(st[i][2]) < Rank(st[j][2])
    BY <1>1 DEF Ordered
  <2>1. CASE j <= Len(s)
    BY <1>1, <1>2, <1>4, <2>1 DEF Ordered
  <2>2. CASE i <= Len(s) /\ ~(j <= Len(s))
    <3>1. i \in DOMAIN s /\ j - Len(s) \in DOMAIN t /\ st[i] = s[i] /\ st[j] = t[j - Len(s)]
      BY <1>1, <1>2, <2>2
    <3>2. s[i] \in ToSet(s) /\ t[j - Len(s)] \in ToSet(t)
      BY <3>1 DEF ToSet
    <3> QED  BY <1>4, <3>1, <3>2
  <2>3. CASE ~(i <= Len(s))
    <3>1. /\ i - Len(s) \in 1 .. Len(t) /\ j - Len(s) \in 1 .. Len(t) /\ i - Len(s) < j - Len(s)
          /\ st[i] = t[i - Len(s)] /\ st[j] = t[j - Len(s)]
      BY <1>1, <1>2, <2>3
    <3> HIDE DEF st
    <3> QED  BY <1>4, <3>1 DEF Ordered
  <2> QED  BY <1>2, <2>1, <2>2, <2>3
<1> QED  BY <1>1, <1>3, <1>4

\* Taking the first update off a script removes its counter and no other.
LEMMA TailOps ==
  ASSUME NEW t, Suffix(t), t # <<>>
  PROVE  /\ t[1] \in ToSet(t) /\ Proper(t[1])
         /\ Suffix(Tail(t))
         /\ ToSet(Tail(t)) = ToSet(t) \ {t[1]}
         /\ Touched(Tail(t)) = Touched(t) \ {t[1][2]}
         /\ \A o \in ToSet(Tail(t)) : Rank(t[1][2]) < Rank(o[2])
<1>1. /\ t \in Seq(Amounts) /\ Len(t) \in Nat /\ Len(t) > 0 /\ DOMAIN t = 1 .. Len(t)
      /\ Tail(t) \in Seq(Amounts) /\ Len(Tail(t)) = Len(t) - 1
      /\ DOMAIN Tail(t) = 1 .. Len(t) - 1
      /\ \A i \in 1 .. Len(t) - 1 : Tail(t)[i] = t[i + 1]
  <2>1. t \in Seq(Amounts)
    BY DEF Suffix
  <2> QED  BY <2>1
<1>2. t[1] \in ToSet(t) /\ Proper(t[1])
  <2>1. 1 \in DOMAIN t
    BY <1>1
  <2>2. t[1] \in ToSet(t)
    BY <2>1 DEF ToSet
  <2> QED  BY <2>2 DEF Suffix
<1>3. \A i, j \in 1 .. Len(t) : i < j => Rank(t[i][2]) < Rank(t[j][2])
  BY DEF Suffix, Ordered
<1>4. \A i \in 1 .. Len(t) : Rank(t[i][2]) \in 1 .. 12 /\ t[i] \in ToSet(t)
  <2> SUFFICES ASSUME NEW i \in 1 .. Len(t)
               PROVE  Rank(t[i][2]) \in 1 .. 12 /\ t[i] \in ToSet(t)
    OBVIOUS
  <2>1. t[i] \in Amounts
    BY <1>1
  <2>2. t[i][2] \in Counters
    BY <2>1 DEF Amounts
  <2> QED  BY <1>1, <2>2, RankOf DEF ToSet
<1>5. \A o \in ToSet(Tail(t)) :
        Rank(t[1][2]) < Rank(o[2]) /\ o \in ToSet(t) /\ Rank(o[2]) \in 1 .. 12
  <2> SUFFICES ASSUME NEW i \in 1 .. Len(t) - 1
               PROVE  /\ Rank(t[1][2]) < Rank(Tail(t)[i][2]) /\ Tail(t)[i] \in ToSet(t)
                      /\ Rank(Tail(t)[i][2]) \in 1 .. 12
    BY <1>1 DEF ToSet
  <2>1. i + 1 \in 1 .. Len(t) /\ 1 \in 1 .. Len(t) /\ 1 < i + 1 /\ Tail(t)[i] = t[i + 1]
    BY <1>1
  <2> QED  BY <1>3, <1>4, <2>1
<1>6. \A o \in ToSet(t) : o = t[1] \/ o \in ToSet(Tail(t))
  <2> SUFFICES ASSUME NEW i \in 1 .. Len(t) PROVE t[i] = t[1] \/ t[i] \in ToSet(Tail(t))
    BY <1>1 DEF ToSet
  <2>1. CASE i = 1
    BY <2>1
  <2>2. CASE i # 1
    <3>1. i - 1 \in 1 .. Len(t) - 1 /\ (i - 1) + 1 = i
      BY <1>1, <2>2
    <3>2. Tail(t)[i - 1] = t[i] /\ i - 1 \in DOMAIN Tail(t)
      BY <1>1, <3>1
    <3> QED  BY <3>2 DEF ToSet
  <2> QED  BY <2>1, <2>2
<1>7. \A o \in ToSet(Tail(t)) : o[2] # t[1][2] /\ o # t[1]
  BY <1>5
<1>8. ToSet(Tail(t)) = ToSet(t) \ {t[1]}
  BY <1>2, <1>5, <1>6, <1>7
<1>9. Touched(Tail(t)) = Touched(t) \ {t[1][2]}
  BY <1>2, <1>5, <1>6, <1>7 DEF Touched
<1>10. Ordered(Tail(t))
  <2> SUFFICES ASSUME NEW i \in 1 .. Len(t) - 1, NEW j \in 1 .. Len(t) - 1, i < j
               PROVE  Rank(Tail(t)[i][2]) < Rank(Tail(t)[j][2])
    BY <1>1 DEF Ordered
  <2>1. i + 1 \in 1 .. Len(t) /\ j + 1 \in 1 .. Len(t) /\ i + 1 < j + 1
    BY <1>1
  <2> QED  BY <1>1, <1>3, <2>1
<1>11. \A k \in Touched(Tail(t)) : Rank(t[1][2]) < Rank(k) /\ Rank(k) \in 1 .. 12
  BY <1>5 DEF Touched
<1>12. Rank(t[1][2]) \in 1 .. 12
  BY <1>1, <1>4
<1>13. Suffix(Tail(t))
  <2>1. Total \in Touched(Tail(t)) => \E k \in Protocols : k \in Touched(Tail(t))
    <3> SUFFICES ASSUME Total \in Touched(Tail(t))
                 PROVE  \E k \in Protocols : k \in Touched(Tail(t))
      OBVIOUS
    <3>1. Rank(t[1][2]) < 2
      BY <1>11, RankOf
    <3>2. t[1][2] \notin Protocols
      BY <3>1, RankOf
    <3>3. \E k \in Protocols : k \in Touched(t)
      BY <1>9 DEF Suffix
    <3> QED  BY <1>9, <3>2, <3>3
  <2>2. Latency \in Touched(Tail(t)) => Minimal \in Touched(Tail(t))
    <3> SUFFICES ASSUME Latency \in Touched(Tail(t)) PROVE Minimal \in Touched(Tail(t))
      OBVIOUS
    <3>1. Rank(t[1][2]) < 8 /\ Minimal \in Touched(t)
      BY <1>9, <1>11, RankOf DEF Suffix
    <3>2. t[1][2] # Minimal
      BY <3>1, RankOf
    <3> QED  BY <1>9, <3>1, <3>2
  <2>3. Minimal \in Touched(Tail(t)) => Maximal \in Touched(Tail(t))
    <3> SUFFICES ASSUME Minimal \in Touched(Tail(t)) PROVE Maximal \in Touched(Tail(t))
      OBVIOUS
    <3>1. Rank(t[1][2]) < 9 /\ Maximal \in Touched(t)
      BY <1>9, <1>11, RankOf DEF Suffix
    <3>2. t[1][2] # Maximal
      BY <3>1, RankOf
    <3> QED  BY <1>9, <3>1, <3>2
  <2>4. \A o \in ToSet(Tail(t)) : Proper(o)
    BY <1>8 DEF Suffix
  <2>5. \A o, p \in ToSet(Tail(t)) : o[2] \in Timing /\ p[2] \in Timing => o[3] = p[3]
    BY <1>8 DEF Suffix
  <2> QED  BY <1>1, <1>10, <2>1, <2>2, <2>3, <2>4, <2>5 DEF Suffix
<1> QED  BY <1>2, <1>5, <1>8, <1>9, <1>13

\* A part of a script: its counters have ranks from lo to hi, its latency is us.
Run(s, lo, hi, us) ==
  /\ s \in Seq(Amounts) /\ Ordered(s)
  /\ \A o \in ToSet(s) :
       Proper(o) /\ Rank(o[2]) \in lo .. hi /\ (o[2] \in Timing => o[3] = us)

LEMMA Join ==
  ASSUME NEW lo \in Nat, NEW m \in Nat, NEW n \in Nat, NEW hi \in Nat, NEW us,
         lo <= m, m < n, n <= hi, NEW s, NEW t, Run(s, lo, m, us), Run(t, n, hi, us)
  PROVE  Run(s \o t, lo, hi, us) /\ Touched(s \o t) = Touched(s) \cup Touched(t)
<1>1. s \in Seq(Amounts) /\ t \in Seq(Amounts) /\ Ordered(s) /\ Ordered(t)
  BY DEF Run
<1>2. /\ \A o \in ToSet(s) :
           Proper(o) /\ Rank(o[2]) \in lo .. m /\ (o[2] \in Timing => o[3] = us)
      /\ \A o \in ToSet(t) :
           Proper(o) /\ Rank(o[2]) \in n .. hi /\ (o[2] \in Timing => o[3] = us)
  BY DEF Run
<1>3. \A o \in ToSet(s), p \in ToSet(t) : Rank(o[2]) < Rank(p[2])
  BY <1>2
<1>4. /\ s \o t \in Seq(Amounts) /\ ToSet(s \o t) = ToSet(s) \cup ToSet(t)
      /\ Ordered(s \o t)
  BY <1>1, <1>3, ConcatOps
<1>5. Touched(s \o t) = Touched(s) \cup Touched(t)
  BY <1>4 DEF Touched
<1>6. \A i \in lo .. m : i \in lo .. hi
  OBVIOUS
<1>7. \A i \in n .. hi : i \in lo .. hi
  OBVIOUS
<1> QED  BY <1>2, <1>4, <1>5, <1>6, <1>7 DEF Run

LEMMA JoinTwo ==
  ASSUME NEW lo \in Nat, NEW hi \in Nat, NEW us, lo < hi,
         NEW s, NEW t, Run(s, lo, lo, us), Run(t, hi, hi, us)
  PROVE  Run(s \o t, lo, hi, us) /\ Touched(s \o t) = Touched(s) \cup Touched(t)
<1>1. lo <= lo /\ hi <= hi
  OBVIOUS
<1> QED BY <1>1, Join

LEMMA EmptyRun ==
  ASSUME NEW lo, NEW hi, NEW us
  PROVE  Run(<<>>, lo, hi, us) /\ Touched(<<>>) = {}
<1>1. <<>> \in Seq(Amounts) /\ Len(<<>>) = 0 /\ ToSet(<<>>) = {}
  BY DEF ToSet
<1> QED  BY <1>1 DEF Run, Ordered, Touched

LEMMA SingleRun ==
  ASSUME NEW n \in Nat, NEW us, NEW o, Proper(o), Rank(o[2]) = n, o[2] \in Timing => o[3] = us
  PROVE  Run(<<o>>, n, n, us) /\ Touched(<<o>>) = {o[2]}
<1>1. <<o>> \in Seq(Amounts) /\ Len(<<o>>) = 1 /\ ToSet(<<o>>) = {o}
  BY DEF ToSet, Proper
<1>2. Ordered(<<o>>)
  BY <1>1 DEF Ordered
<1>3. n \in n .. n
  OBVIOUS
<1> QED  BY <1>1, <1>2, <1>3 DEF Run, Touched

\* Counting one more of something that is not a latency.
LEMMA AddRun ==
  ASSUME NEW k \in Counters, k \notin Timing, NEW us
  PROVE  Run(<<Add(k, 1)>>, Rank(k), Rank(k), us) /\ Touched(<<Add(k, 1)>>) = {k}
<1> DEFINE o == Add(k, 1)
<1>1. o \in Amounts /\ o[1] = "add" /\ o[2] = k /\ o[3] = 1
  BY DEF Add, Amounts
<1>2. Proper(o)
  BY <1>1 DEF Proper, Timing
<1>3. Rank(k) \in Nat
  BY RankOf
<1> QED  BY <1>1, <1>2, <1>3, SingleRun

LEMMA Names ==
  /\ Protocols \cup Faults \cup Responses \cup QTypes \cup Timing
       \cup {Total, Edns, PerConnection, "tcp_connections", "tcp_connection_timeouts"}
       \subseteq Counters
  /\ Timing \cap (Protocols \cup Faults \cup Responses \cup QTypes
       \cup {Total, Edns, PerConnection, "tcp_connections", "tcp_connection_timeouts"}) = {}
  /\ QTypes \cap (Protocols \cup Faults \cup Responses
       \cup {Total, Edns, PerConnection, "tcp_connections", "tcp_connection_timeouts"}) = {}
<1> USE DEF Protocols, Faults, Responses, Timing, Total, Edns, PerConnection, Latency,
            Minimal, Maximal, Plain, Counters
<1>1. QTypes \cap (Plain \cup {Minimal, Maximal}) = {}
  BY MetricsAssumption
<1> QED  BY <1>1

LEMMA Pair ==
  ASSUME NEW a, NEW b
  PROVE  <<a>> \o <<b>> = <<a, b>>
<1> DEFINE S == {a, b}
           s == <<a>>
           t == <<b>>
           u == <<a, b>>
<1>1. /\ s \in Seq(S) /\ t \in Seq(S) /\ u \in Seq(S)
      /\ Len(s) = 1 /\ Len(t) = 1 /\ Len(u) = 2
      /\ s[1] = a /\ t[1] = b /\ u[1] = a /\ u[2] = b
  OBVIOUS
<1> HIDE DEF S, s, t, u
<1>2. /\ s \o t \in Seq(S) /\ Len(s \o t) = 2
      /\ \A i \in 1 .. 2 : (s \o t)[i] = IF i <= 1 THEN s[i] ELSE t[i - 1]
  BY <1>1, ConcatProperties
<1>3. \A i \in 1 .. 2 : u[i] = (s \o t)[i]
  BY <1>1, <1>2
<1>4. s \o t = u
  BY <1>1, <1>2, <1>3, SeqEqual
<1> QED  BY <1>4 DEF s, t, u

LEMMA Triple ==
  ASSUME NEW a, NEW b, NEW c
  PROVE  <<a, b, c>> = <<a, b>> \o <<c>>
OBVIOUS

LEMMA QueryRun ==
  ASSUME NEW p \in Protocols, NEW e \in BOOLEAN, NEW us
  PROVE  /\ Run(RecordQuery(p, e), 2, 4, us)
         /\ Touched(RecordQuery(p, e)) = {Total, p} \cup (IF e THEN {Edns} ELSE {})
<1>1. /\ Run(<<Add(Total, 1)>>, 2, 2, us) /\ Touched(<<Add(Total, 1)>>) = {Total}
      /\ Run(<<Add(p, 1)>>, 3, 3, us) /\ Touched(<<Add(p, 1)>>) = {p}
      /\ Run(<<Add(Edns, 1)>>, 4, 4, us) /\ Touched(<<Add(Edns, 1)>>) = {Edns}
  BY AddRun, RankOf, Names
<1> DEFINE both == <<Add(Total, 1)>> \o <<Add(p, 1)>>
           more == IF e THEN <<Add(Edns, 1)>> ELSE <<>>
<1>2. Run(both, 2, 3, us) /\ Touched(both) = {Total, p}
  <2> DEFINE s == <<Add(Total, 1)>>
             t == <<Add(p, 1)>>
  <2>1. Run(s, 2, 2, us) /\ Run(t, 3, 3, us) /\ both = s \o t
    BY <1>1
  <2> HIDE DEF s, t, both
  <2>2. Run(s \o t, 2, 3, us) /\ Touched(s \o t) = Touched(s) \cup Touched(t)
    BY <2>1, JoinTwo
  <2> QED  BY <1>1, <2>1, <2>2 DEF s, t
<1>3. Run(more, 4, 4, us) /\ Touched(more) = IF e THEN {Edns} ELSE {}
  BY <1>1, EmptyRun
<1>4. <<Add(Total, 1), Add(p, 1)>> = both
  BY Pair
<1>5. RecordQuery(p, e) = both \o more
  BY <1>4 DEF RecordQuery, Total, Edns
<1> HIDE DEF both, more
<1>6. Run(both \o more, 2, 4, us) /\ Touched(both \o more) = Touched(both) \cup Touched(more)
  BY <1>2, <1>3, Join
<1> QED  BY <1>2, <1>3, <1>5, <1>6

LEMMA OtherRuns ==
  ASSUME NEW us
  PROVE  /\ \A q \in Asked : /\ Run(RecordQueryType(q), 5, 5, us)
                             /\ Touched(RecordQueryType(q)) \subseteq QTypes
         /\ Run(RecordError, 6, 6, us) /\ Touched(RecordError) = {"errors"}
         /\ Run(RecordRateLimited, 6, 6, us) /\ Touched(RecordRateLimited) = {"rate_limited"}
         /\ \A c \in Rcodes : /\ Run(RecordResponse(c), 7, 7, us)
                              /\ Touched(RecordResponse(c)) \subseteq Responses
         /\ Run(RecordTcpConnection, 1, 1, us)
         /\ Touched(RecordTcpConnection) = {"tcp_connections"}
         /\ Run(RecordTcpConnectionTimeout, 11, 11, us)
         /\ Touched(RecordTcpConnectionTimeout) = {"tcp_connection_timeouts"}
         /\ Run(RecordTcpConnectionClosed(1), 12, 12, us)
         /\ Touched(RecordTcpConnectionClosed(1)) = {PerConnection}
<1>0. Run(<<>>, 5, 5, us) /\ Run(<<>>, 7, 7, us) /\ Touched(<<>>) = {}
  BY EmptyRun
<1>1. ASSUME NEW q \in Asked
      PROVE  Run(RecordQueryType(q), 5, 5, us) /\ Touched(RecordQueryType(q)) \subseteq QTypes
  <2>1. CASE q \in QTypes
    <3>1. Run(<<Add(q, 1)>>, 5, 5, us) /\ Touched(<<Add(q, 1)>>) = {q}
      BY <2>1, AddRun, RankOf, Names
    <3> QED  BY <2>1, <3>1 DEF RecordQueryType
  <2>2. CASE q \notin QTypes
    BY <1>0, <2>2 DEF RecordQueryType
  <2> QED  BY <2>1, <2>2
<1>2. \A k \in Faults : Run(<<Add(k, 1)>>, 6, 6, us) /\ Touched(<<Add(k, 1)>>) = {k}
  BY AddRun, RankOf, Names
<1>3. \A k \in Responses : Run(<<Add(k, 1)>>, 7, 7, us) /\ Touched(<<Add(k, 1)>>) = {k}
  BY AddRun, RankOf, Names
<1>4. ASSUME NEW c \in Rcodes
      PROVE  Run(RecordResponse(c), 7, 7, us) /\ Touched(RecordResponse(c)) \subseteq Responses
  <2>1. \/ RecordResponse(c) = <<>>
        \/ \E k \in Responses : RecordResponse(c) = <<Add(k, 1)>>
    BY DEF RecordResponse, Rcodes, Responses
  <2> QED  BY <1>0, <1>3, <2>1
<1>5. /\ Run(<<Add("tcp_connections", 1)>>, 1, 1, us)
      /\ Touched(<<Add("tcp_connections", 1)>>) = {"tcp_connections"}
      /\ Run(<<Add("tcp_connection_timeouts", 1)>>, 11, 11, us)
      /\ Touched(<<Add("tcp_connection_timeouts", 1)>>) = {"tcp_connection_timeouts"}
      /\ Run(<<Add(PerConnection, 1)>>, 12, 12, us)
      /\ Touched(<<Add(PerConnection, 1)>>) = {PerConnection}
  BY AddRun, RankOf, Names
<1>6. /\ Run(RecordError, 6, 6, us) /\ Touched(RecordError) = {"errors"}
      /\ Run(RecordRateLimited, 6, 6, us) /\ Touched(RecordRateLimited) = {"rate_limited"}
  BY <1>2 DEF Faults, RecordError, RecordRateLimited
<1>7. /\ Run(RecordTcpConnection, 1, 1, us)
      /\ Touched(RecordTcpConnection) = {"tcp_connections"}
      /\ Run(RecordTcpConnectionTimeout, 11, 11, us)
      /\ Touched(RecordTcpConnectionTimeout) = {"tcp_connection_timeouts"}
      /\ Run(RecordTcpConnectionClosed(1), 12, 12, us)
      /\ Touched(RecordTcpConnectionClosed(1)) = {PerConnection}
  BY <1>5 DEF RecordTcpConnection, RecordTcpConnectionTimeout, RecordTcpConnectionClosed,
              PerConnection
<1> QED  BY <1>1, <1>4, <1>6, <1>7

LEMMA LatencyRun ==
  ASSUME NEW us \in Latencies
  PROVE  Run(RecordLatency(us), 8, 10, us) /\ Touched(RecordLatency(us)) = Timing
<1> DEFINE a == <<"add", Latency, us>>
           b == <<"min", Minimal, us>>
           c == <<"max", Maximal, us>>
<1>1. Latency \in Counters /\ Minimal \in Counters /\ Maximal \in Counters
  BY Names DEF Timing
<1>2. us \in Nat /\ us < U64Max
  BY MetricsAssumption DEF Latencies
<1>3. Proper(a) /\ Proper(b) /\ Proper(c)
  BY <1>1, <1>2 DEF Proper, Amounts, Timing, Latency, Minimal, Maximal
<1>4. /\ Run(<<a>>, 8, 8, us) /\ Touched(<<a>>) = {Latency}
      /\ Run(<<b>>, 9, 9, us) /\ Touched(<<b>>) = {Minimal}
      /\ Run(<<c>>, 10, 10, us) /\ Touched(<<c>>) = {Maximal}
  <2>1. /\ a[2] = Latency /\ b[2] = Minimal /\ c[2] = Maximal
        /\ a[3] = us /\ b[3] = us /\ c[3] = us
    OBVIOUS
  <2>2. Rank(a[2]) = 8 /\ Rank(b[2]) = 9 /\ Rank(c[2]) = 10
    BY <2>1, RankOf
  <2> HIDE DEF a, b, c
  <2>3. Run(<<a>>, 8, 8, us) /\ Touched(<<a>>) = {a[2]}
    BY <1>3, <2>1, <2>2, SingleRun
  <2>4. Run(<<b>>, 9, 9, us) /\ Touched(<<b>>) = {b[2]}
    BY <1>3, <2>1, <2>2, SingleRun
  <2>5. Run(<<c>>, 10, 10, us) /\ Touched(<<c>>) = {c[2]}
    BY <1>3, <2>1, <2>2, SingleRun
  <2> QED  BY <2>1, <2>3, <2>4, <2>5
<1> DEFINE sa == <<a>>
           sb == <<b>>
           sc == <<c>>
<1>5. RecordLatency(us) = (sa \o sb) \o sc
  <2>1. RecordLatency(us) = <<a, b, c>>
    BY DEF RecordLatency, Add, Latency, Minimal, Maximal
  <2> HIDE DEF a, b, c
  <2>2. sa \o sb = <<a, b>>
    BY Pair, Zenon
  <2>3. <<a, b, c>> = <<a, b>> \o sc
    BY Triple, Zenon
  <2> HIDE DEF sa, sb, sc
  <2> QED  BY <2>1, <2>2, <2>3
<1>6. /\ Run(sa, 8, 8, us) /\ Touched(sa) = {Latency}
      /\ Run(sb, 9, 9, us) /\ Touched(sb) = {Minimal}
      /\ Run(sc, 10, 10, us) /\ Touched(sc) = {Maximal}
  BY <1>4
<1> HIDE DEF a, b, c, sa, sb, sc
<1>7. Run(sa \o sb, 8, 9, us) /\ Touched(sa \o sb) = Touched(sa) \cup Touched(sb)
  BY <1>6, JoinTwo
<1>8. /\ Run((sa \o sb) \o sc, 8, 10, us)
      /\ Touched((sa \o sb) \o sc) = Touched(sa \o sb) \cup Touched(sc)
  BY <1>6, <1>7, Join
<1> QED  BY <1>5, <1>6, <1>7, <1>8 DEF Timing

LEMMA UnansweredRun ==
  ASSUME NEW p \in Protocols, NEW e \in BOOLEAN, NEW q \in Asked, NEW us
  PROVE  LET t == Unanswered(p, e, q)
         IN  /\ Run(t, 2, 5, us) /\ {Total, p} \subseteq Touched(t)
             /\ Touched(t) \subseteq {Total, p, Edns} \cup QTypes
<1> DEFINE a == RecordQuery(p, e)
           b == RecordQueryType(q)
           front == (IF e THEN {Edns} ELSE {}) \cup {Total, p}
<1>1. Unanswered(p, e, q) = a \o b
  BY DEF Unanswered
<1>2. /\ Run(a, 2, 4, us) /\ Touched(a) = front
      /\ Run(b, 5, 5, us) /\ Touched(b) \subseteq QTypes
  BY QueryRun, OtherRuns
<1> HIDE DEF a, b
<1>3. Run(a \o b, 2, 5, us) /\ Touched(a \o b) = Touched(a) \cup Touched(b)
  BY <1>2, Join
<1> QED  BY <1>1, <1>2, <1>3

LEMMA AnsweredRun ==
  ASSUME NEW p \in Protocols, NEW e \in BOOLEAN, NEW q \in Asked, NEW c \in Rcodes,
         NEW us \in Latencies
  PROVE  LET t == Answered(p, e, q, c, us)
         IN  /\ Run(t, 2, 10, us)
             /\ {Total, p} \cup Timing \subseteq Touched(t)
             /\ Touched(t) \subseteq {Total, p, Edns} \cup QTypes \cup Responses \cup Timing
<1> DEFINE a == Unanswered(p, e, q)
           r == RecordResponse(c)
           d == RecordLatency(us)
<1>1. Answered(p, e, q, c, us) = (a \o r) \o d
  BY DEF Answered
<1>2. /\ Run(a, 2, 5, us) /\ {Total, p} \subseteq Touched(a)
      /\ Touched(a) \subseteq {Total, p, Edns} \cup QTypes
      /\ Run(r, 7, 7, us) /\ Touched(r) \subseteq Responses
      /\ Run(d, 8, 10, us) /\ Touched(d) = Timing
  BY UnansweredRun, OtherRuns, LatencyRun
<1> HIDE DEF a, r, d
<1>4. Run(a \o r, 2, 7, us) /\ Touched(a \o r) = Touched(a) \cup Touched(r)
  BY <1>2, Join
<1>5. /\ Run((a \o r) \o d, 2, 10, us)
      /\ Touched((a \o r) \o d) = Touched(a \o r) \cup Touched(d)
  BY <1>2, <1>4, Join
<1>6. Touched((a \o r) \o d) = Touched(a) \cup Touched(r) \cup Timing
  BY <1>2, <1>4, <1>5
<1> QED  BY <1>1, <1>2, <1>5, <1>6

\* What a run needs to be a whole script.
LEMMA RunWhole ==
  ASSUME NEW t, NEW lo \in Nat, NEW hi \in Nat, NEW us, Run(t, lo, hi, us),
         Total \in Touched(t) => \E k \in Protocols : k \in Touched(t),
         Hits(t, Timing) => Timing \subseteq Touched(t) /\ Hits(t, {Total} \cup Faults),
         Hits(t, Protocols) => Hits(t, {Total}), Hits(t, QTypes) => Hits(t, {Total}),
         Hits(t, {Edns}) => Hits(t, Protocols),
         Hits(t, Responses) => Hits(t, {Total} \cup Faults),
         Hits(t, Responses) => Hits(t, {Latency}) \/ Hits(t, Faults),
         Hits(t, {PerConnection}) => Hits(t, {"tcp_queries"})
  PROVE  Whole(t)
<1>1. Latency \in Touched(t) \/ Minimal \in Touched(t) => Timing \subseteq Touched(t)
  BY DEF Hits, Timing
<1>2. Suffix(t)
  BY <1>1 DEF Suffix, Run, Timing
<1>3. Hits(t, Timing) => Hits(t, {Latency}) /\ Hits(t, {Total} \cup Faults)
  BY DEF Hits, Timing
<1> QED  BY <1>2, <1>3 DEF Whole

\* The groups of counters are apart from each other.
LEMMA Apart ==
  /\ Total \notin Protocols \cup Faults \cup Responses \cup QTypes \cup Timing
  /\ Edns \notin Protocols \cup Faults \cup Responses \cup QTypes \cup Timing \cup {Total}
  /\ PerConnection \notin Protocols \cup Faults \cup Responses \cup QTypes \cup Timing
                            \cup {Total, Edns}
  /\ "tcp_connections" \notin Protocols \cup Faults \cup Responses \cup QTypes \cup Timing
                            \cup {Total, Edns, PerConnection}
  /\ "tcp_connection_timeouts" \notin Protocols \cup Faults \cup Responses \cup QTypes
                            \cup Timing \cup {Total, Edns, PerConnection}
  /\ Protocols \cap (Faults \cup Responses \cup QTypes \cup Timing) = {}
  /\ Faults \cap (Responses \cup QTypes \cup Timing) = {}
  /\ Responses \cap (QTypes \cup Timing) = {} /\ QTypes \cap Timing = {}
  /\ "errors" \in Faults /\ "rate_limited" \in Faults
  /\ "tcp_queries" \in Protocols /\ "udp_queries" \in Protocols
  /\ Latency \in Timing
<1>1. QTypes \cap (Plain \cup {Minimal, Maximal}) = {}
  BY MetricsAssumption DEF Minimal, Maximal
<1> QED
  BY <1>1 DEF Protocols, Faults, Responses, Timing, Total, Edns, PerConnection, Latency,
              Minimal, Maximal, Plain

LEMMA AnsweredWhole ==
  ASSUME NEW p \in Protocols, NEW e \in BOOLEAN, NEW q \in Asked, NEW c \in Rcodes,
         NEW us \in Latencies
  PROVE  Whole(Answered(p, e, q, c, us))
<1> DEFINE t == Answered(p, e, q, c, us)
<1>1. /\ Run(t, 2, 10, us) /\ {Total, p} \cup Timing \subseteq Touched(t)
      /\ Touched(t) \subseteq {Total, p, Edns} \cup QTypes \cup Responses \cup Timing
  BY AnsweredRun
<1> HIDE DEF t
<1>2. Total \in Touched(t) /\ p \in Touched(t) /\ Timing \subseteq Touched(t)
  BY <1>1
<1>3. PerConnection \notin Touched(t)
  BY <1>1, Apart
<1>4. Hits(t, {Total}) /\ Hits(t, Protocols) /\ Hits(t, {Total} \cup Faults)
      /\ ~Hits(t, {PerConnection}) /\ Hits(t, {Latency})
  BY <1>2, <1>3, Apart DEF Hits
<1>5. Whole(t)
  BY <1>1, <1>2, <1>4, RunWhole
<1> QED  BY <1>5 DEF t

LEMMA ProcessingFailedWhole ==
  ASSUME NEW p \in Protocols, NEW e \in BOOLEAN, NEW q \in Asked, NEW us \in Latencies
  PROVE  Whole(ProcessingFailed(p, e, q, us))
<1> DEFINE a == Unanswered(p, e, q)
           r == RecordError
           d == RecordLatency(us)
           t == (a \o r) \o d
<1>1. ProcessingFailed(p, e, q, us) = t
  BY DEF ProcessingFailed
<1>2. /\ Run(a, 2, 5, us) /\ {Total, p} \subseteq Touched(a)
      /\ Touched(a) \subseteq {Total, p, Edns} \cup QTypes
      /\ Run(r, 6, 6, us) /\ Touched(r) = {"errors"}
      /\ Run(d, 8, 10, us) /\ Touched(d) = Timing
  BY UnansweredRun, OtherRuns, LatencyRun
<1> HIDE DEF a, r, d
<1>4. Run(a \o r, 2, 6, us) /\ Touched(a \o r) = Touched(a) \cup Touched(r)
  BY <1>2, Join
<1>5. Run(t, 2, 10, us) /\ Touched(t) = Touched(a \o r) \cup Touched(d)
  BY <1>2, <1>4, Join
<1> HIDE DEF t
<1>6. Touched(t) = Touched(a) \cup {"errors"} \cup Timing
  BY <1>2, <1>4, <1>5
<1>7. /\ Timing \subseteq Touched(t) /\ Latency \in Touched(t) /\ PerConnection \notin Touched(t)
      /\ Total \in Touched(t) /\ p \in Touched(t)
  BY <1>2, <1>6, Apart
<1>8. Hits(t, {Total}) /\ Hits(t, Protocols) /\ Hits(t, {Total} \cup Faults)
      /\ ~Hits(t, {PerConnection}) /\ Hits(t, {Latency})
  BY <1>7 DEF Hits
<1>9. Whole(t)
  BY <1>5, <1>7, <1>8, RunWhole
<1> QED  BY <1>1, <1>9

\* A query that nothing was recorded of but that it came.
LEMMA UncountedWhole ==
  ASSUME NEW t, NEW p \in Protocols, Run(t, 1, 5, 0), {Total, p} \subseteq Touched(t),
         Touched(t) \subseteq {"tcp_connections", Total, p, Edns} \cup QTypes
  PROVE  Whole(t)
<1>1. /\ Total \in Touched(t) /\ p \in Touched(t) /\ PerConnection \notin Touched(t)
      /\ Touched(t) \cap Timing = {} /\ Touched(t) \cap Responses = {}
  BY Apart
<1>2. /\ Hits(t, {Total}) /\ Hits(t, Protocols) /\ ~Hits(t, {PerConnection})
      /\ ~Hits(t, Timing) /\ ~Hits(t, Responses)
  BY <1>1 DEF Hits
<1> QED  BY <1>1, <1>2, RunWhole

LEMMA UnansweredWhole ==
  ASSUME NEW p \in Protocols, NEW e \in BOOLEAN, NEW q \in Asked
  PROVE  Whole(Unanswered(p, e, q))
<1> DEFINE t == Unanswered(p, e, q)
<1>1. /\ Run(t, 2, 5, 0) /\ {Total, p} \subseteq Touched(t)
      /\ Touched(t) \subseteq {Total, p, Edns} \cup QTypes
  BY UnansweredRun
<1> HIDE DEF t
<1>2. \A i \in 2 .. 5 : i \in 1 .. 5
  OBVIOUS
<1>3. Run(t, 1, 5, 0)
  BY <1>1, <1>2 DEF Run
<1>4. Whole(t)
  BY <1>1, <1>3, UncountedWhole
<1> QED  BY <1>4 DEF t

LEMMA BrokenWhole ==
  ASSUME NEW q \in Asked
  PROVE  Whole(TcpConnectionBroken(q))
<1> DEFINE a == RecordTcpConnection
           b == Unanswered("tcp_queries", FALSE, q)
<1>1. TcpConnectionBroken(q) = a \o b
  BY DEF TcpConnectionBroken
<1>2. "tcp_queries" \in Protocols /\ FALSE \in BOOLEAN
  BY DEF Protocols
<1>3. /\ Run(a, 1, 1, 0) /\ Touched(a) = {"tcp_connections"}
      /\ Run(b, 2, 5, 0) /\ {Total, "tcp_queries"} \subseteq Touched(b)
      /\ Touched(b) \subseteq {Total, "tcp_queries", Edns} \cup QTypes
  BY <1>2, OtherRuns, UnansweredRun
<1> HIDE DEF a, b
<1>4. Run(a \o b, 1, 5, 0) /\ Touched(a \o b) = Touched(a) \cup Touched(b)
  BY <1>3, Join
<1> QED  BY <1>1, <1>2, <1>3, <1>4, UncountedWhole

\* A request that is not a query: a fault, a response and its latency.
LEMMA FaultWhole ==
  ASSUME NEW k \in Faults, NEW a, NEW c \in Rcodes, NEW us \in Latencies,
         Run(a, 6, 6, us), Touched(a) = {k}
  PROVE  Whole((a \o RecordResponse(c)) \o RecordLatency(us))
<1> DEFINE r == RecordResponse(c)
           d == RecordLatency(us)
           t == (a \o r) \o d
<1>2. /\ Run(r, 7, 7, us) /\ Touched(r) \subseteq Responses
      /\ Run(d, 8, 10, us) /\ Touched(d) = Timing
  BY OtherRuns, LatencyRun
<1> HIDE DEF r, d
<1>3. Run(a \o r, 6, 7, us) /\ Touched(a \o r) = Touched(a) \cup Touched(r)
  BY <1>2, JoinTwo
<1>4. Run(t, 6, 10, us) /\ Touched(t) = Touched(a \o r) \cup Touched(d)
  BY <1>2, <1>3, Join
<1> HIDE DEF t
<1>5. Touched(t) = {k} \cup Touched(r) \cup Timing
  BY <1>2, <1>3, <1>4
<1>6. /\ Timing \subseteq Touched(t) /\ Total \notin Touched(t) /\ k \in Touched(t)
      /\ Edns \notin Touched(t) /\ PerConnection \notin Touched(t)
      /\ Touched(t) \cap Protocols = {} /\ Touched(t) \cap QTypes = {}
  BY <1>2, <1>5, Apart
<1>7. /\ Hits(t, {Total} \cup Faults) /\ Hits(t, Faults) /\ ~Hits(t, Protocols)
      /\ ~Hits(t, QTypes) /\ ~Hits(t, {Edns}) /\ ~Hits(t, {PerConnection})
  BY <1>6 DEF Hits
<1>8. Whole(t)
  BY <1>4, <1>6, <1>7, RunWhole
<1> QED  BY <1>8 DEF t, r, d

\* The same when nothing is timed, and perhaps not answered.
LEMMA UntimedWhole ==
  ASSUME NEW k \in Faults, NEW t, Run(t, 6, 7, 0), k \in Touched(t),
         Touched(t) \subseteq {k} \cup Responses
  PROVE  Whole(t)
<1>1. /\ Total \notin Touched(t) /\ Touched(t) \cap Timing = {}
      /\ Edns \notin Touched(t) /\ PerConnection \notin Touched(t)
      /\ Touched(t) \cap Protocols = {} /\ Touched(t) \cap QTypes = {}
  BY Apart
<1>2. /\ Hits(t, {Total} \cup Faults) /\ Hits(t, Faults) /\ ~Hits(t, Protocols)
      /\ ~Hits(t, QTypes) /\ ~Hits(t, {Edns}) /\ ~Hits(t, {PerConnection}) /\ ~Hits(t, Timing)
  BY <1>1 DEF Hits
<1> QED  BY <1>1, <1>2, RunWhole

LEMMA FaultThenResponse ==
  ASSUME NEW s, NEW t, NEW us, Run(s, 6, 6, us), Run(t, 7, 7, us)
  PROVE  Run(s \o t, 6, 7, us) /\ Touched(s \o t) = Touched(s) \cup Touched(t)
<1>1. 6 \in Nat /\ 7 \in Nat /\ 6 < 7
  OBVIOUS
<1> QED  BY <1>1, JoinTwo

LEMMA FaultsWhole ==
  Whole(Malformed) /\ Whole(Refused) /\ Whole(UdpRateLimited) /\ Whole(InvalidLength)
<1> DEFINE e == RecordError
           l == RecordRateLimited
           f == RecordResponse("FORMERR")
           r == RecordResponse("REFUSED")
<1>1. "FORMERR" \in Rcodes /\ "REFUSED" \in Rcodes
  BY DEF Rcodes
<1>2. /\ Run(e, 6, 6, 0) /\ Touched(e) = {"errors"}
      /\ Run(l, 6, 6, 0) /\ Touched(l) = {"rate_limited"}
      /\ Run(f, 7, 7, 0) /\ Touched(f) \subseteq Responses
      /\ Run(r, 7, 7, 0) /\ Touched(r) \subseteq Responses
  BY <1>1, OtherRuns
<1>3. /\ Malformed = e \o f /\ Refused = l \o r
      /\ UdpRateLimited = l /\ InvalidLength = e
  BY DEF Malformed, Refused, UdpRateLimited, InvalidLength
<1> HIDE DEF e, l, f, r
<1>4. /\ Run(e \o f, 6, 7, 0) /\ Touched(e \o f) = Touched(e) \cup Touched(f)
      /\ Run(l \o r, 6, 7, 0) /\ Touched(l \o r) = Touched(l) \cup Touched(r)
  BY <1>2, FaultThenResponse
<1>5. Whole(e \o f) /\ Whole(l \o r)
  BY <1>2, <1>4, UntimedWhole, Apart
<1>6. Run(e, 6, 7, 0) /\ Run(l, 6, 7, 0)
  BY <1>2 DEF Run
<1>7. Whole(e) /\ Whole(l)
  BY <1>2, <1>6, UntimedWhole, Apart
<1> QED  BY <1>3, <1>5, <1>7

LEMMA TcpConnectionWhole ==
  ASSUME NEW q \in Asked, NEW us \in Latencies
  PROVE  Whole(TcpConnection(q, us))
<1> DEFINE a == RecordTcpConnection
           b == Answered("tcp_queries", FALSE, q, "NOERROR", us)
           r == RecordTcpConnectionTimeout
           d == RecordTcpConnectionClosed(1)
           t == ((a \o b) \o r) \o d
<1>1. TcpConnection(q, us) = t
  BY DEF TcpConnection
<1>2. /\ Run(a, 1, 1, us) /\ Touched(a) = {"tcp_connections"}
      /\ Run(r, 11, 11, us) /\ Touched(r) = {"tcp_connection_timeouts"}
      /\ Run(d, 12, 12, us) /\ Touched(d) = {PerConnection}
  BY OtherRuns
<1>3. /\ Run(b, 2, 10, us) /\ {Total, "tcp_queries"} \cup Timing \subseteq Touched(b)
      /\ Touched(b) \subseteq {Total, "tcp_queries", Edns} \cup QTypes \cup Responses \cup Timing
  <2>1. "tcp_queries" \in Protocols /\ FALSE \in BOOLEAN /\ "NOERROR" \in Rcodes
    BY DEF Protocols, Rcodes
  <2> QED  BY <2>1, AnsweredRun
<1> HIDE DEF a, b, r, d
<1>4. Run(a \o b, 1, 10, us) /\ Touched(a \o b) = Touched(a) \cup Touched(b)
  BY <1>2, <1>3, Join
<1>5. Run((a \o b) \o r, 1, 11, us) /\ Touched((a \o b) \o r) = Touched(a \o b) \cup Touched(r)
  BY <1>2, <1>4, Join
<1>6. Run(t, 1, 12, us) /\ Touched(t) = Touched((a \o b) \o r) \cup Touched(d)
  BY <1>2, <1>5, Join
<1> HIDE DEF t
<1>7. Touched(b) \subseteq Touched(t)
  BY <1>4, <1>5, <1>6
<1>8. /\ Timing \subseteq Touched(t) /\ Latency \in Touched(t)
      /\ Total \in Touched(t) /\ "tcp_queries" \in Touched(t)
  BY <1>3, <1>7, Apart
<1>9. Hits(t, {Total}) /\ Hits(t, Protocols) /\ Hits(t, {Total} \cup Faults)
      /\ Hits(t, {"tcp_queries"}) /\ Hits(t, {Latency})
  BY <1>8, Apart DEF Hits
<1>10. Whole(t)
  BY <1>6, <1>8, <1>9, Apart, RunWhole
<1> QED  BY <1>1, <1>10

\* Every request server.rs records is a whole script.
LEMMA RequestWhole ==
  ASSUME NEW r \in Requests
  PROVE  Whole(r)
<1>1. IsRequest(r)
  BY MetricsAssumption
<1>2. CASE \E p \in Protocols, e \in BOOLEAN, q \in Asked :
             \/ r = Unanswered(p, e, q)
             \/ \E c \in Rcodes, us \in Latencies : r = Answered(p, e, q, c, us)
             \/ \E us \in Latencies : r = ProcessingFailed(p, e, q, us)
  BY <1>2, UnansweredWhole, AnsweredWhole, ProcessingFailedWhole
<1>3. CASE r \in {Malformed, Refused, UdpRateLimited, InvalidLength}
  BY <1>3, FaultsWhole
<1>4. CASE \E us \in Latencies : r \in {ParseFailed(us), TcpRateLimited(us)}
  <2>1. PICK us \in Latencies : r = ParseFailed(us) \/ r = TcpRateLimited(us)
    BY <1>4
  <2>2. "FORMERR" \in Rcodes /\ "REFUSED" \in Rcodes
    BY DEF Rcodes
  <2>3. /\ Run(RecordError, 6, 6, us) /\ Touched(RecordError) = {"errors"}
        /\ Run(RecordRateLimited, 6, 6, us) /\ Touched(RecordRateLimited) = {"rate_limited"}
    BY OtherRuns
  <2>4. Whole((RecordError \o RecordResponse("FORMERR")) \o RecordLatency(us))
    BY <2>2, <2>3, FaultWhole, Apart
  <2>5. Whole((RecordRateLimited \o RecordResponse("REFUSED")) \o RecordLatency(us))
    BY <2>2, <2>3, FaultWhole, Apart
  <2> QED  BY <2>1, <2>4, <2>5 DEF ParseFailed, TcpRateLimited, Malformed, Refused
<1>5. CASE \E q \in Asked : r = TcpConnectionBroken(q)
  BY <1>5, BrokenWhole
<1>6. CASE \E q \in Asked, us \in Latencies : r = TcpConnection(q, us)
  BY <1>6, TcpConnectionWhole
<1> QED  BY <1>1, <1>2, <1>3, <1>4, <1>5, <1>6 DEF IsRequest

-----------------------------------------------------------------------------
(* One update of a handler, and a request begun *)

Stepped(td, tn, v, w, h, o) ==
  /\ Proper(o) /\ o[2] \in Touched(td[h])
  /\ Touched(tn[h]) = Touched(td[h]) \ {o[2]}
  /\ \A k \in Touched(td[h]) : k = o[2] \/ Rank(o[2]) < Rank(k)
  /\ \A g \in Handlers \ {h} : tn[g] = td[g]
  /\ \A k \in Counters \ {o[2]} : w[k] = v[k]
  /\ o[1] = "add" => w[o[2]] = v[o[2]] + o[3]
  /\ o[1] = "min" => w[o[2]] = IF o[3] < v[o[2]] THEN o[3] ELSE v[o[2]]
  /\ o[1] = "max" => w[o[2]] = IF o[3] > v[o[2]] THEN o[3] ELSE v[o[2]]

Started(td, tn, h) ==
  /\ td[h] = <<>> /\ Whole(tn[h])
  /\ \A g \in Handlers \ {h} : tn[g] = td[g]

\* The handlers that have still to count in D and nothing more to count in C.
Mid(td, D, C) == {h \in Handlers : Hits(td[h], D) /\ ~Hits(td[h], C)}

LEMMA CardChange ==
  ASSUME NEW A, NEW B, IsFiniteSet(A), IsFiniteSet(B), NEW h, A \ {h} = B \ {h}
  PROVE  /\ Cardinality(A) \in Nat /\ Cardinality(B) \in Nat
         /\ (h \in A <=> h \in B) => Cardinality(B) = Cardinality(A)
         /\ h \in A /\ h \notin B => Cardinality(A) = Cardinality(B) + 1
         /\ h \notin A /\ h \in B => Cardinality(B) = Cardinality(A) + 1
<1>1. Cardinality(A) \in Nat /\ Cardinality(B) \in Nat
  BY FS_CardinalityType
<1>2. (h \in A <=> h \in B) => A = B
  OBVIOUS
<1>3. h \in A /\ h \notin B => Cardinality(A) = Cardinality(B) + 1
  <2>1. h \in A /\ h \notin B => A \ {h} = B
    OBVIOUS
  <2>2. h \in A => Cardinality(A \ {h}) = Cardinality(A) - 1
    BY FS_RemoveElement
  <2> QED  BY <1>1, <2>1, <2>2
<1>4. h \notin A /\ h \in B => Cardinality(B) = Cardinality(A) + 1
  <2> SUFFICES ASSUME h \notin A, h \in B PROVE Cardinality(B) = Cardinality(A) + 1
    OBVIOUS
  <2>1. B \ {h} = A
    OBVIOUS
  <2>2. Cardinality(B \ {h}) = Cardinality(B) - 1
    BY FS_RemoveElement
  <2>3. Cardinality(A) = Cardinality(B) - 1
    BY <2>1, <2>2
  <2> QED  BY <1>1, <2>3
<1> QED  BY <1>1, <1>2, <1>3, <1>4

LEMMA MidFinite ==
  ASSUME NEW td, NEW D, NEW C
  PROVE  IsFiniteSet(Mid(td, D, C)) /\ Cardinality(Mid(td, D, C)) \in Nat
<1>1. Mid(td, D, C) \subseteq Handlers
  BY DEF Mid
<1> QED  BY <1>1, MetricsAssumption, FS_Subset, FS_CardinalityType

\* How an update changes what is hit.
LEMMA HitsStep ==
  ASSUME NEW td, NEW tn, NEW v, NEW w, NEW h \in Handlers, NEW o, Stepped(td, tn, v, w, h, o),
         NEW K
  PROVE  /\ Hits(td[h], K) <=> (o[2] \in K \/ Hits(tn[h], K))
         /\ (\A k, j \in K : Rank(k) = Rank(j)) /\ K \subseteq Counters /\ o[2] \in K
              => ~Hits(tn[h], K)
<1>1. Hits(td[h], K) <=> (o[2] \in K \/ Hits(tn[h], K))
  BY DEF Stepped, Hits
<1>2. ASSUME \A k, j \in K : Rank(k) = Rank(j), K \subseteq Counters, o[2] \in K
      PROVE  ~Hits(tn[h], K)
  <2> SUFFICES ASSUME NEW k \in K, k \in Touched(tn[h]) PROVE FALSE
    BY DEF Hits
  <2>1. Rank(o[2]) < Rank(k) /\ Rank(o[2]) = Rank(k)
    BY <1>2 DEF Stepped
  <2>2. Rank(k) \in 1 .. 12
    BY <1>2, RankOf
  <2> QED  BY <2>1, <2>2
<1> QED  BY <1>1, <1>2

LEMMA SumStepped ==
  ASSUME NEW td, NEW tn, NEW v \in [Counters -> Nat], NEW w, NEW h \in Handlers, NEW o,
         Stepped(td, tn, v, w, h, o),
         NEW K, IsFiniteSet(K), K \subseteq Counters \ Timing
  PROVE  /\ SumOf(v, K) \in Nat
         /\ SumOf(w, K) = IF o[2] \in K THEN SumOf(v, K) + 1 ELSE SumOf(v, K)
<1>1. \A x \in K : v[x] \in Nat
  OBVIOUS
<1>2. \A x \in K : w[x] = IF x = o[2] THEN v[x] + 1 ELSE v[x]
  <2> SUFFICES ASSUME NEW x \in K PROVE w[x] = IF x = o[2] THEN v[x] + 1 ELSE v[x]
    OBVIOUS
  <2>1. CASE x = o[2]
    <3>1. o[1] = "add" /\ o[3] = 1
      BY <2>1 DEF Stepped, Proper, Amounts, Timing
    <3> QED  BY <2>1, <3>1 DEF Stepped
  <2>2. CASE x # o[2]
    BY <2>2 DEF Stepped
  <2> QED  BY <2>1, <2>2
<1>3. SumOf(v, K) \in Nat
  BY <1>1, SumNat
<1>4. SumOf(w, K) = IF o[2] \in K THEN SumOf(v, K) + 1 ELSE SumOf(v, K)
  <2> DEFINE k == o[2]
  <2>1. \A x \in K : w[x] = IF x = k THEN v[x] + 1 ELSE v[x]
    BY <1>2
  <2> HIDE DEF k
  <2>2. 1 \in Nat
    OBVIOUS
  <2>3. SumOf(w, K) = IF k \in K THEN SumOf(v, K) + 1 ELSE SumOf(v, K)
    BY <1>1, <2>1, <2>2, SumIncrement
  <2> QED  BY <2>3 DEF k
<1> QED  BY <1>3, <1>4

\* What is counted first and what is counted later.
Before(C, D) ==
  /\ IsFiniteSet(C) /\ IsFiniteSet(D)
  /\ C \subseteq Counters \ Timing /\ D \subseteq Counters
  /\ \A c \in C, d \in D : Rank(c) < Rank(d)
  /\ \A d, e \in D : Rank(d) = Rank(e)

LEMMA MidStep ==
  ASSUME NEW td, NEW tn, NEW v, NEW w, NEW h \in Handlers, NEW o, Stepped(td, tn, v, w, h, o),
         NEW C, NEW D, Before(C, D)
  PROVE  LET A == Cardinality(Mid(td, D, C))
             B == Cardinality(Mid(tn, D, C))
         IN  /\ A \in Nat /\ B \in Nat
             /\ o[2] \in C => o[2] \notin D /\ (B = A \/ B = A + 1)
             /\ o[2] \in D => o[2] \notin C /\ A = B + 1
             /\ o[2] \notin C \cup D => A = B
             /\ o[2] \in C /\ (\A c, d \in C : Rank(c) = Rank(d)) /\ Hits(td[h], D) => B = A + 1
<1> DEFINE M == Mid(td, D, C)
           N == Mid(tn, D, C)
<1>1. IsFiniteSet(M) /\ IsFiniteSet(N)
  BY MidFinite
<1>2. M \ {h} = N \ {h}
  BY DEF Mid, Stepped
<1>3. /\ h \in M <=> Hits(td[h], D) /\ ~Hits(td[h], C)
      /\ h \in N <=> Hits(tn[h], D) /\ ~Hits(tn[h], C)
  BY DEF Mid
<1>4. /\ Hits(td[h], D) <=> (o[2] \in D \/ Hits(tn[h], D))
      /\ Hits(td[h], C) <=> (o[2] \in C \/ Hits(tn[h], C))
  BY HitsStep
<1>5. o[2] \in Counters /\ \A k \in Counters : Rank(k) \in 1 .. 12
  BY RankOf DEF Stepped, Proper, Amounts
<1>6. o[2] \in C => o[2] \notin D
  BY <1>5 DEF Before
<1>7. o[2] \in D => ~Hits(td[h], C) /\ ~Hits(tn[h], D)
  <2>1. ASSUME o[2] \in D, NEW k \in C, k \in Touched(td[h]) PROVE FALSE
    <3>1. Rank(k) < Rank(o[2]) /\ k \in Counters
      BY <2>1 DEF Before
    <3>2. k = o[2] \/ Rank(o[2]) < Rank(k)
      BY <2>1 DEF Stepped
    <3> QED  BY <1>5, <3>1, <3>2
  <2>2. o[2] \in D => ~Hits(tn[h], D)
    BY HitsStep DEF Before
  <2> QED  BY <2>1, <2>2 DEF Hits
<1>8. (\A c, d \in C : Rank(c) = Rank(d)) /\ o[2] \in C => ~Hits(tn[h], C)
  BY HitsStep DEF Before
<1>9. /\ Cardinality(M) \in Nat /\ Cardinality(N) \in Nat
      /\ (h \in M <=> h \in N) => Cardinality(N) = Cardinality(M)
      /\ h \in M /\ h \notin N => Cardinality(M) = Cardinality(N) + 1
      /\ h \notin M /\ h \in N => Cardinality(N) = Cardinality(M) + 1
  <2> HIDE DEF M, N
  <2> QED  BY <1>1, <1>2, CardChange
<1> HIDE DEF M, N
<1>10. /\ o[2] \in C => Cardinality(N) = Cardinality(M) \/ Cardinality(N) = Cardinality(M) + 1
       /\ o[2] \in D => Cardinality(M) = Cardinality(N) + 1
       /\ o[2] \notin C \cup D => Cardinality(M) = Cardinality(N)
       /\ o[2] \in C /\ (\A c, d \in C : Rank(c) = Rank(d)) /\ Hits(td[h], D)
            => Cardinality(N) = Cardinality(M) + 1
  BY <1>3, <1>4, <1>6, <1>7, <1>8, <1>9
<1> QED  BY <1>6, <1>9, <1>10 DEF M, N

\* Every count in D was counted in C before, and the difference is what is due.
LEMMA CreditStep ==
  ASSUME NEW td, NEW tn, NEW v \in [Counters -> Nat], NEW w, NEW h \in Handlers, NEW o,
         Stepped(td, tn, v, w, h, o), NEW C, NEW D, Before(C, D), D \subseteq Counters \ Timing,
         SumOf(v, D) + Cardinality(Mid(td, D, C)) <= SumOf(v, C)
  PROVE  SumOf(w, D) + Cardinality(Mid(tn, D, C)) <= SumOf(w, C)
<1> DEFINE A == Cardinality(Mid(td, D, C))
           B == Cardinality(Mid(tn, D, C))
<1>1. /\ A \in Nat /\ B \in Nat
      /\ o[2] \in C => o[2] \notin D /\ (B = A \/ B = A + 1)
      /\ o[2] \in D => o[2] \notin C /\ A = B + 1
      /\ o[2] \notin C \cup D => A = B
  BY MidStep
<1>2. IsFiniteSet(C) /\ IsFiniteSet(D) /\ C \subseteq Counters \ Timing
  BY DEF Before
<1>3. /\ SumOf(v, D) \in Nat
      /\ SumOf(w, D) = IF o[2] \in D THEN SumOf(v, D) + 1 ELSE SumOf(v, D)
  BY <1>2, SumStepped
<1>4. /\ SumOf(v, C) \in Nat
      /\ SumOf(w, C) = IF o[2] \in C THEN SumOf(v, C) + 1 ELSE SumOf(v, C)
  BY <1>2, SumStepped
<1>5. SumOf(v, D) + A <= SumOf(v, C)
  OBVIOUS
<1> HIDE DEF A, B
<1>6. SumOf(w, D) + B <= SumOf(w, C)
  BY <1>1, <1>3, <1>4, <1>5
<1> QED  BY <1>6 DEF B

LEMMA MidStart ==
  ASSUME NEW td, NEW tn, NEW h \in Handlers, Started(td, tn, h), NEW C, NEW D
  PROVE  /\ (Hits(tn[h], D) => Hits(tn[h], C)) => Mid(tn, D, C) = Mid(td, D, C)
         /\ \/ Cardinality(Mid(tn, D, C)) = Cardinality(Mid(td, D, C))
            \/ Cardinality(Mid(tn, D, C)) = Cardinality(Mid(td, D, C)) + 1
<1>1. Touched(td[h]) = {} /\ ~Hits(td[h], D)
  BY EmptyRun DEF Started, Hits
<1>2. Mid(td, D, C) \ {h} = Mid(tn, D, C) \ {h} /\ h \notin Mid(td, D, C)
  BY <1>1 DEF Mid, Started
<1>3. (Hits(tn[h], D) => Hits(tn[h], C)) => h \notin Mid(tn, D, C)
  BY DEF Mid
<1>4. (Hits(tn[h], D) => Hits(tn[h], C)) => Mid(tn, D, C) = Mid(td, D, C)
  BY <1>2, <1>3
<1>5. IsFiniteSet(Mid(td, D, C)) /\ IsFiniteSet(Mid(tn, D, C))
  BY MidFinite
<1> QED  BY <1>2, <1>4, <1>5, CardChange

-----------------------------------------------------------------------------
(* Types *)

\* What the variables hold: the scripts of the handlers are suffixes of requests.
Typed ==
  /\ val \in [Counters -> Nat] /\ snap \in [Counters -> SUBSET Nat]
  /\ todo \in [Handlers -> Seq(Amounts)] /\ \A h \in Handlers : Suffix(todo[h])
  /\ phase \in {"idle", "loading", "done"} /\ inflight \in Nat /\ begun \in Nat

LEMMA UpdateStepped ==
  ASSUME Typed, NEW h \in Handlers, Update(h)
  PROVE  /\ Stepped(todo, todo', val, val', h, todo[h][1])
         /\ todo' \in [Handlers -> Seq(Amounts)] /\ \A g \in Handlers : Suffix(todo'[g])
         /\ val' \in [Counters -> Nat]
         /\ todo'[h] = Tail(todo[h]) /\ todo[h][1] \in ToSet(todo[h])
         /\ ToSet(todo'[h]) = ToSet(todo[h]) \ {todo[h][1]}
<1> DEFINE t == todo[h]
           o == t[1]
<1>1. Suffix(t) /\ t # <<>> /\ t \in Seq(Amounts)
  BY DEF Typed, Update
<1>2. /\ o \in ToSet(t) /\ Proper(o) /\ Suffix(Tail(t)) /\ ToSet(Tail(t)) = ToSet(t) \ {o}
      /\ Touched(Tail(t)) = Touched(t) \ {o[2]}
      /\ \A p \in ToSet(Tail(t)) : Rank(o[2]) < Rank(p[2])
  BY <1>1, TailOps
<1>3. todo' = [todo EXCEPT ![h] = Tail(t)]
  BY DEF Update
<1>4. todo'[h] = Tail(t) /\ \A g \in Handlers \ {h} : todo'[g] = todo[g]
  BY <1>3 DEF Typed
<1>5. \A g \in Handlers : Suffix(todo'[g]) /\ todo'[g] \in Seq(Amounts)
  <2>1. \A g \in Handlers : Suffix(todo'[g])
    BY <1>2, <1>4 DEF Typed
  <2> QED  BY <2>1 DEF Suffix
<1>6. todo' \in [Handlers -> Seq(Amounts)]
  BY <1>3, <1>5 DEF Typed
<1>7. /\ o[1] \in {"add", "min", "max"} /\ o[2] \in Counters /\ o[3] \in Nat
  BY <1>2 DEF Proper, Amounts
<1>8. val' = [val EXCEPT ![o[2]] =
                CASE o[1] = "add" -> @ + o[3]
                  [] o[1] = "min" -> IF o[3] < @ THEN o[3] ELSE @
                  [] o[1] = "max" -> IF o[3] > @ THEN o[3] ELSE @]
  BY DEF Update
<1>9. o[2] \in Touched(t) /\ \A k \in Touched(t) : k = o[2] \/ Rank(o[2]) < Rank(k)
  BY <1>2 DEF Touched
<1> HIDE DEF o, t
<1>10. /\ \A k \in Counters \ {o[2]} : val'[k] = val[k]
       /\ o[1] = "add" => val'[o[2]] = val[o[2]] + o[3]
       /\ o[1] = "min" => val'[o[2]] = IF o[3] < val[o[2]] THEN o[3] ELSE val[o[2]]
       /\ o[1] = "max" => val'[o[2]] = IF o[3] > val[o[2]] THEN o[3] ELSE val[o[2]]
  BY <1>7, <1>8 DEF Typed
<1>11. val' \in [Counters -> Nat]
  <2>1. val'[o[2]] \in Nat
    BY <1>7, <1>10 DEF Typed
  <2>2. \A k \in Counters : val'[k] \in Nat
    BY <1>10, <2>1 DEF Typed
  <2> QED  BY <1>8, <2>2 DEF Typed
<1>12. Stepped(todo, todo', val, val', h, o)
  BY <1>2, <1>4, <1>9, <1>10 DEF Stepped, t
<1>13. ToSet(todo'[h]) = ToSet(t) \ {o}
  BY <1>2, <1>4
<1> QED  BY <1>2, <1>4, <1>5, <1>6, <1>11, <1>12, <1>13 DEF o, t

LEMMA BeginStarted ==
  ASSUME Typed, NEW h \in Handlers, NEW r \in Requests, Begin(h, r)
  PROVE  /\ Started(todo, todo', h) /\ todo'[h] = r
         /\ todo' \in [Handlers -> Seq(Amounts)] /\ \A g \in Handlers : Suffix(todo'[g])
<1>1. Whole(r)
  BY RequestWhole
<1>2. todo' = [todo EXCEPT ![h] = r] /\ todo[h] = <<>>
  BY DEF Begin
<1>3. todo'[h] = r /\ \A g \in Handlers \ {h} : todo'[g] = todo[g]
  BY <1>2 DEF Typed
<1>4. \A g \in Handlers : Suffix(todo'[g]) /\ todo'[g] \in Seq(Amounts)
  <2>1. \A g \in Handlers : Suffix(todo'[g])
    BY <1>1, <1>3 DEF Typed, Whole
  <2> QED  BY <2>1 DEF Suffix
<1> QED  BY <1>1, <1>2, <1>3, <1>4 DEF Started, Typed

\* What a snapshot in progress may show of the counter of an update.
LEMMA SnapStep ==
  ASSUME Typed, NEW h \in Handlers, Update(h)
  PROVE  /\ snap' \in [Counters -> SUBSET Nat] /\ h \in Busy
         /\ phase = "loading" =>
              \A k \in Counters :
                snap'[k] = IF k = todo[h][1][2] THEN snap[k] \cup {val'[k]} ELSE snap[k]
<1> DEFINE c == todo[h][1][2]
<1>1. snap' = IF phase = "loading" THEN [snap EXCEPT ![c] = @ \cup {val'[c]}] ELSE snap
  BY DEF Update
<1>2. val' \in [Counters -> Nat] /\ c \in Counters
  BY UpdateStepped DEF Stepped, Proper, Amounts
<1>3. h \in Busy
  BY DEF Update, Busy
<1> HIDE DEF c
<1> QED  BY <1>1, <1>2, <1>3 DEF Typed, c

LEMMA BusyFinite == IsFiniteSet(Busy) /\ Cardinality(Busy) \in Nat
<1>1. Busy \subseteq Handlers
  BY DEF Busy
<1> QED  BY <1>1, MetricsAssumption, FS_Subset, FS_CardinalityType

LEMMA Typing == Spec => []Typed
<1>1. Init => Typed
  <2> SUFFICES ASSUME Init PROVE Typed
    OBVIOUS
  <2>1. Suffix(<<>>)
    <3>1. Run(<<>>, 1, 12, 0) /\ Touched(<<>>) = {}
      BY EmptyRun
    <3> QED  BY <3>1, RunWhole DEF Hits, Whole
  <2>2. val \in [Counters -> Nat] /\ snap \in [Counters -> SUBSET Nat]
    BY MetricsAssumption DEF Init
  <2> QED  BY <2>1, <2>2 DEF Init, Typed
<1>2. Typed /\ [Next]_vars => Typed'
  <2> SUFFICES ASSUME Typed, [Next]_vars PROVE Typed'
    OBVIOUS
  <2>1. ASSUME NEW h \in Handlers, Update(h) PROVE Typed'
    <3>1. UNCHANGED <<phase, inflight, begun>> /\ val' \in [Counters -> Nat]
      BY <2>1, UpdateStepped DEF Update
    <3>2. snap' \in [Counters -> SUBSET Nat]
      BY <2>1, <3>1, SnapStep DEF Typed
    <3> QED  BY <2>1, <3>1, <3>2, UpdateStepped DEF Typed
  <2>2. ASSUME NEW h \in Handlers, NEW r \in Requests, Begin(h, r) PROVE Typed'
    <3>1. UNCHANGED <<val, phase, snap, inflight>> /\ begun' \in Nat
      BY <2>2 DEF Begin, Typed
    <3> QED  BY <2>2, <3>1, BeginStarted DEF Typed
  <2>3. CASE GetSnapshot
    <3>1. UNCHANGED <<val, todo, begun>> /\ phase' = "loading"
      BY <2>3 DEF GetSnapshot
    <3>2. snap' \in [Counters -> SUBSET Nat]
      BY <2>3 DEF GetSnapshot, Typed
    <3>3. inflight' \in Nat
      BY <2>3, BusyFinite DEF GetSnapshot
    <3> QED  BY <3>1, <3>2, <3>3 DEF Typed
  <2>4. CASE Respond
    BY <2>4 DEF Respond, Typed
  <2>5. CASE UNCHANGED vars
    BY <2>5 DEF vars, Typed
  <2> QED  BY <2>1, <2>2, <2>3, <2>4, <2>5 DEF Next
<1> QED  BY <1>1, <1>2, PTL DEF Spec

-----------------------------------------------------------------------------
(* The extremes *)

\* A handler that has told the minimum and not the maximum tells it next, and
\* the minimum is not above the latency it has measured.
MaximumNext ==
  \A h \in Handlers :
    Hits(todo[h], {Maximal}) /\ ~Hits(todo[h], {Minimal}) =>
      /\ todo[h] # <<>> /\ todo[h][1][2] = Maximal /\ val[Minimal] <= todo[h][1][3]

LEMMA HeadIs ==
  ASSUME NEW t, Suffix(t), NEW k \in Touched(t)
  PROVE  /\ t # <<>> /\ t[1] \in ToSet(t) /\ Proper(t[1])
         /\ t[1][2] = k \/ Rank(t[1][2]) < Rank(k)
<1>1. t # <<>>
  BY EmptyRun
<1>2. /\ t[1] \in ToSet(t) /\ Proper(t[1]) /\ ToSet(Tail(t)) = ToSet(t) \ {t[1]}
      /\ \A o \in ToSet(Tail(t)) : Rank(t[1][2]) < Rank(o[2])
  BY <1>1, TailOps
<1>3. PICK o \in ToSet(t) : k = o[2]
  BY DEF Touched
<1> QED  BY <1>1, <1>2, <1>3

LEMMA Extremes == Spec => [](MaximumNext /\ ExtremesOrdered)
<1> DEFINE Inv == MaximumNext /\ ExtremesOrdered
<1>1. Init => Inv
  <2> SUFFICES ASSUME Init PROVE Inv
    OBVIOUS
  <2>1. \A h \in Handlers : ~Hits(todo[h], {Maximal})
    BY EmptyRun DEF Init, Hits
  <2>2. val["min_latency_us"] = U64Max
    BY DEF Init, Counters
  <2> QED  BY <2>1, <2>2 DEF MaximumNext, ExtremesOrdered
<1>2. Inv /\ Typed /\ Typed' /\ [Next]_vars => Inv'
  <2> SUFFICES ASSUME Inv, Typed, Typed', [Next]_vars PROVE Inv'
    OBVIOUS
  <2>0. /\ Minimal \in Counters /\ Maximal \in Counters /\ Minimal # Maximal
        /\ val[Minimal] \in Nat /\ val[Maximal] \in Nat
    BY Names DEF Timing, Minimal, Maximal, Typed
  <2>1. ASSUME NEW h \in Handlers, Update(h) PROVE Inv'
    <3> DEFINE o == todo[h][1]
    <3>1. /\ Stepped(todo, todo', val, val', h, o) /\ Suffix(todo'[h]) /\ Suffix(todo[h])
          /\ o \in ToSet(todo[h]) /\ ToSet(todo'[h]) \subseteq ToSet(todo[h])
          /\ val' \in [Counters -> Nat] /\ todo[h] # <<>>
      BY <2>1, UpdateStepped DEF Typed, Update
    <3> HIDE DEF o
    <3>2. /\ Proper(o) /\ \A g \in Handlers \ {h} : todo'[g] = todo[g]
          /\ o[2] \in Counters /\ o[3] \in Nat
      BY <3>1 DEF Stepped, Proper, Amounts
    <3>3. /\ o[2] = Minimal => val'[Minimal] = IF o[3] < val[Minimal] THEN o[3] ELSE val[Minimal]
          /\ o[2] # Minimal => val'[Minimal] = val[Minimal]
          /\ o[2] = Maximal => val'[Maximal] = IF o[3] > val[Maximal] THEN o[3] ELSE val[Maximal]
          /\ o[2] # Maximal => val'[Maximal] = val[Maximal]
      BY <2>0, <3>1, <3>2 DEF Stepped, Proper
    <3>4. val'[Minimal] <= val[Minimal] /\ val'[Maximal] >= val[Maximal]
      BY <2>0, <3>2, <3>3
    <3>5. /\ Hits(todo[h], {Maximal}) <=> (o[2] = Maximal \/ Hits(todo'[h], {Maximal}))
          /\ Hits(todo[h], {Minimal}) <=> (o[2] = Minimal \/ Hits(todo'[h], {Minimal}))
          /\ o[2] = Maximal => ~Hits(todo'[h], {Maximal})
      BY <3>1 DEF Hits, Stepped
    <3>6. MaximumNext'
      <4> SUFFICES ASSUME NEW g \in Handlers, Hits(todo'[g], {Maximal}), ~Hits(todo'[g], {Minimal})
                   PROVE  /\ todo'[g] # <<>> /\ todo'[g][1][2] = Maximal
                          /\ val'[Minimal] <= todo'[g][1][3]
        BY DEF MaximumNext
      <4>1. CASE g # h
        <5>1. todo'[g] = todo[g]
          BY <3>2, <4>1
        <5>2. todo[g] # <<>> /\ todo[g][1][2] = Maximal /\ val[Minimal] <= todo[g][1][3]
          BY <5>1 DEF MaximumNext
        <5>3. todo[g][1][3] \in Nat
          <6>1. Suffix(todo[g])
            BY DEF Typed
          <6>2. Proper(todo[g][1])
            BY <5>2, <6>1, TailOps
          <6> QED  BY <6>2 DEF Proper, Amounts
        <5> QED  BY <2>0, <3>1, <3>4, <5>1, <5>2, <5>3
      <4>2. CASE g = h
        <5>1. o[2] # Maximal /\ Hits(todo[h], {Maximal})
          BY <3>5, <4>2
        <5>2. o[2] = Minimal
          <6>1. ASSUME o[2] # Minimal PROVE FALSE
            <7>1. todo[h][1][2] = Maximal
              BY <3>5, <4>2, <5>1, <6>1 DEF MaximumNext
            <7> QED  BY <5>1, <7>1 DEF o
          <6> QED  BY <6>1
        <5>3. Maximal \in Touched(todo'[h])
          BY <4>2 DEF Hits
        <5> DEFINE p == todo'[h][1]
        <5>4. /\ todo'[h] # <<>> /\ p \in ToSet(todo'[h]) /\ Proper(p)
              /\ p[2] = Maximal \/ Rank(p[2]) < Rank(Maximal)
          BY <3>1, <5>3, HeadIs
        <5> HIDE DEF p
        <5>5. p[2] \in Touched(todo'[h]) /\ p[2] \in Counters
          BY <5>4 DEF Touched, Proper, Amounts
        <5>6. Rank(o[2]) < Rank(p[2])
          BY <3>1, <5>5 DEF Stepped
        <5>7. p[2] = Maximal
          BY <5>2, <5>4, <5>5, <5>6, RankOf
        <5>8. p \in ToSet(todo[h]) /\ o \in ToSet(todo[h])
          BY <3>1, <5>4
        <5>9. p[3] = o[3]
          BY <3>1, <5>2, <5>7, <5>8 DEF Suffix, Timing
        <5>10. val'[Minimal] <= p[3]
          BY <2>0, <3>2, <3>3, <5>2, <5>9
        <5> QED  BY <4>2, <5>4, <5>7, <5>10 DEF p
      <4> QED  BY <4>1, <4>2
    <3>7. ExtremesOrdered'
      <4> SUFFICES ASSUME val'[Minimal] # U64Max, ~(val'[Minimal] <= val'[Maximal])
                   PROVE  \E g \in Handlers : todo'[g] # <<>> /\ todo'[g][1][1] = "max"
        BY DEF ExtremesOrdered, Minimal, Maximal
      <4>0. \A g \in Handlers :
              todo'[g] # <<>> /\ todo'[g][1][2] = Maximal => todo'[g][1][1] = "max"
        <5> SUFFICES ASSUME NEW g \in Handlers, todo'[g] # <<>>, todo'[g][1][2] = Maximal
                     PROVE  todo'[g][1][1] = "max"
          OBVIOUS
        <5>1. Suffix(todo'[g])
          BY DEF Typed
        <5>2. Proper(todo'[g][1])
          BY <5>1, TailOps
        <5> QED  BY <5>2 DEF Proper
      <4>1. CASE o[2] = Minimal
        <5>1. Minimal \in Touched(todo[h]) /\ Touched(todo'[h]) = Touched(todo[h]) \ {Minimal}
          BY <3>1, <4>1 DEF Stepped
        <5>2. Maximal \in Touched(todo'[h])
          BY <2>0, <3>1, <5>1 DEF Suffix
        <5>3. Hits(todo'[h], {Maximal}) /\ ~Hits(todo'[h], {Minimal})
          BY <5>1, <5>2 DEF Hits
        <5>4. todo'[h] # <<>> /\ todo'[h][1][2] = Maximal
          BY <3>6, <5>3 DEF MaximumNext
        <5> QED  BY <4>0, <5>4
      <4>2. CASE o[2] # Minimal
        <5>1. val[Minimal] # U64Max /\ ~(val[Minimal] <= val[Maximal])
          BY <2>0, <3>1, <3>3, <3>4, <4>2
        <5>2. PICK g \in Handlers : todo[g] # <<>> /\ todo[g][1][1] = "max"
          BY <5>1 DEF ExtremesOrdered, Minimal, Maximal
        <5>3. g # h
          <6>1. ASSUME g = h PROVE FALSE
            <7>1. o[2] = Maximal
              BY <3>2, <5>2, <6>1 DEF Proper, o
            <7>2. Hits(todo[h], {Maximal}) /\ ~Hits(todo[h], {Minimal})
              <8>1. ASSUME Minimal \in Touched(todo[h]) PROVE FALSE
                <9>1. Rank(Maximal) < Rank(Minimal)
                  BY <2>0, <3>1, <7>1, <8>1 DEF Stepped
                <9> QED  BY <9>1, RankOf
              <8> QED  BY <3>5, <7>1, <8>1 DEF Hits
            <7>3. val[Minimal] <= o[3]
              BY <7>2 DEF MaximumNext, o
            <7> QED  BY <2>0, <3>1, <3>2, <3>3, <7>1, <7>3
          <6> QED  BY <6>1
        <5>4. todo'[g] = todo[g]
          BY <3>2, <5>3
        <5> QED  BY <5>2, <5>4
      <4> QED  BY <4>1, <4>2
    <3> QED  BY <3>6, <3>7
  <2>2. ASSUME NEW h \in Handlers, NEW r \in Requests, Begin(h, r) PROVE Inv'
    <3>1. Started(todo, todo', h) /\ val' = val
      BY <2>2, BeginStarted DEF Begin
    <3>2. ~(Hits(todo'[h], {Maximal}) /\ ~Hits(todo'[h], {Minimal}))
      BY <3>1 DEF Started, Whole, Suffix, Hits, Timing
    <3>3. \A g \in Handlers : g # h => todo'[g] = todo[g]
      BY <3>1 DEF Started
    <3>4. MaximumNext'
      BY <3>1, <3>2, <3>3 DEF MaximumNext
    <3>5. ExtremesOrdered'
      <4>1. todo[h] = <<>>
        BY <3>1 DEF Started
      <4> QED  BY <3>1, <3>3, <4>1 DEF ExtremesOrdered
    <3> QED  BY <3>4, <3>5
  <2>3. CASE GetSnapshot \/ Respond \/ UNCHANGED vars
    <3>1. val' = val /\ todo' = todo
      BY <2>3 DEF GetSnapshot, Respond, vars
    <3> QED  BY <3>1 DEF MaximumNext, ExtremesOrdered
  <2> QED  BY <2>1, <2>2, <2>3 DEF Next
<1> QED  BY <1>1, <1>2, Typing, PTL DEF Spec

-----------------------------------------------------------------------------
(* What is counted twice *)

\* What a handler counts in D it has counted in C before.
Covers(C, D) == SumOf(val, D) + Cardinality(Mid(todo, D, C)) <= SumOf(val, C)

\* A query has one protocol and at most one type; it has at most one response, and
\* so has a request that is refused or fails.
Counting ==
  /\ Covers({Total}, QTypes) /\ Covers(Protocols, {Edns})
  /\ Covers({Total} \cup Faults, Responses) /\ Covers({"tcp_queries"}, {PerConnection})
  /\ SumOf(val, Protocols) + Cardinality(Mid(todo, Protocols, {Total})) = SumOf(val, {Total})

LEMMA FiniteGroups ==
  /\ IsFiniteSet({Total}) /\ IsFiniteSet({Edns}) /\ IsFiniteSet({PerConnection})
  /\ IsFiniteSet({"tcp_queries"}) /\ IsFiniteSet({Latency}) /\ IsFiniteSet(QTypes)
  /\ IsFiniteSet(Protocols) /\ IsFiniteSet(Faults) /\ IsFiniteSet({Total} \cup Faults)
  /\ IsFiniteSet(Responses)
<1>1. \A x : IsFiniteSet({x})
  BY FS_Singleton
<1>2. \A A, B : IsFiniteSet(A) /\ IsFiniteSet(B) => IsFiniteSet(A \cup B)
  BY FS_Union
<1>3. Protocols = {"udp_queries"} \cup {"tcp_queries"}
  BY DEF Protocols
<1>4. Faults = {"errors"} \cup {"rate_limited"}
  BY DEF Faults
<1>5. IsFiniteSet(Protocols) /\ IsFiniteSet(Faults)
  BY <1>1, <1>2, <1>3, <1>4
<1>6. Responses = ((({"noerror_responses"} \cup {"nxdomain_responses"})
        \cup {"servfail_responses"}) \cup {"refused_responses"}) \cup {"formerr_responses"}
  BY DEF Responses
<1>7. IsFiniteSet((({"noerror_responses"} \cup {"nxdomain_responses"})
        \cup {"servfail_responses"}) \cup {"refused_responses"})
  BY <1>1, <1>2
<1> QED  BY <1>1, <1>2, <1>5, <1>6, <1>7, MetricsAssumption

LEMMA Orders ==
  /\ Before({Total}, QTypes) /\ Before(Protocols, {Edns})
  /\ Before({Total} \cup Faults, Responses) /\ Before({"tcp_queries"}, {PerConnection})
  /\ Before({Total}, Protocols) /\ Before(Responses, {Latency})
  /\ Before({Total} \cup Faults, {Latency})
<1>1. /\ \A c \in {Total}, d \in QTypes : Rank(c) < Rank(d)
      /\ \A c \in Protocols : Rank(c) < Rank(Edns)
      /\ \A c \in {Total} \cup Faults, d \in Responses : Rank(c) < Rank(d)
      /\ Rank("tcp_queries") < Rank(PerConnection)
      /\ \A c \in {Total}, d \in Protocols : Rank(c) < Rank(d)
      /\ \A c \in {Total} \cup Faults \cup Responses : Rank(c) < Rank(Latency)
  BY RankOf, Apart
<1>2. /\ \A d, e \in QTypes : Rank(d) = Rank(e)
      /\ \A d, e \in Responses : Rank(d) = Rank(e)
      /\ \A d, e \in Protocols : Rank(d) = Rank(e)
  BY RankOf
<1>3. /\ {Total} \cup Faults \subseteq Counters \ Timing
      /\ Protocols \subseteq Counters \ Timing /\ {Total} \subseteq Counters \ Timing
      /\ {"tcp_queries"} \subseteq Counters \ Timing
      /\ QTypes \subseteq Counters /\ Responses \subseteq Counters
      /\ {Edns, PerConnection, Latency} \subseteq Counters
      /\ Responses \subseteq Counters \ Timing
  BY Names, Apart
<1>4. /\ Before({Total}, QTypes) /\ Before({Total} \cup Faults, Responses)
      /\ Before({Total}, Protocols)
  BY <1>1, <1>2, <1>3, FiniteGroups DEF Before
<1>5. Before(Protocols, {Edns}) /\ Before({"tcp_queries"}, {PerConnection})
  BY <1>1, <1>3, FiniteGroups DEF Before
<1>6. Before(Responses, {Latency}) /\ Before({Total} \cup Faults, {Latency})
  BY <1>1, <1>3, FiniteGroups DEF Before
<1> QED  BY <1>4, <1>5, <1>6

LEMMA ZeroSum ==
  ASSUME NEW f, NEW S, IsFiniteSet(S), \A x \in S : f[x] = 0
  PROVE  SumOf(f, S) = 0
<1> DEFINE Q == {T \in SUBSET S : SumOf(f, T) = 0}
<1>1. ASSUME NEW T \in SUBSET S, \A x \in T : T \ {x} \in Q PROVE T \in Q
  <2>1. IsFiniteSet(T)
    BY FS_Subset
  <2>2. CASE T = {}
    BY <2>1, <2>2, SumStep
  <2>3. CASE T # {}
    <3>1. Some(T) \in T
      BY <2>3 DEF Some
    <3>2. SumOf(f, T) = f[Some(T)] + SumOf(f, T \ {Some(T)})
      BY <2>1, <2>3, SumStep
    <3>3. f[Some(T)] = 0 /\ SumOf(f, T \ {Some(T)}) = 0
      BY <1>1, <3>1
    <3> QED  BY <3>2, <3>3
  <2> QED  BY <2>2, <2>3
<1>2. SUBSET S \subseteq Q
  <2> HIDE DEF Q
  <2> QED  BY <1>1, FiniteInduction
<1> QED  BY <1>2

LEMMA InitMid ==
  ASSUME Init, NEW D, NEW C
  PROVE  Mid(todo, D, C) = {} /\ Cardinality(Mid(todo, D, C)) = 0
<1>1. \A h \in Handlers : ~Hits(todo[h], D)
  BY EmptyRun DEF Init, Hits
<1> QED  BY <1>1, FS_EmptySet DEF Mid

LEMMA Counts == Spec => []Counting
<1>1. Init => Counting
  <2> SUFFICES ASSUME Init PROVE Counting
    OBVIOUS
  <2>1. \A k \in Counters \ Timing : val[k] = 0
    BY DEF Init, Timing, Minimal
  <2>2. ASSUME NEW S, IsFiniteSet(S), S \subseteq Counters \ Timing PROVE SumOf(val, S) = 0
    BY <2>1, <2>2, ZeroSum
  <2>3. /\ SumOf(val, {Total}) = 0 /\ SumOf(val, QTypes) = 0 /\ SumOf(val, Protocols) = 0
        /\ SumOf(val, {Edns}) = 0 /\ SumOf(val, {Total} \cup Faults) = 0
        /\ SumOf(val, Responses) = 0 /\ SumOf(val, {"tcp_queries"}) = 0
        /\ SumOf(val, {PerConnection}) = 0
    <3>1. /\ {Total} \subseteq Counters \ Timing /\ QTypes \subseteq Counters \ Timing
          /\ Protocols \subseteq Counters \ Timing /\ {Edns} \subseteq Counters \ Timing
          /\ {Total} \cup Faults \subseteq Counters \ Timing
          /\ Responses \subseteq Counters \ Timing
          /\ {"tcp_queries"} \subseteq Counters \ Timing
          /\ {PerConnection} \subseteq Counters \ Timing
      BY Names, Apart
    <3> QED  BY <2>2, <3>1, FiniteGroups
  <2> QED  BY <2>3, InitMid DEF Counting, Covers
<1>2. Counting /\ Typed /\ [Next]_vars => Counting'
  <2> SUFFICES ASSUME Counting, Typed, [Next]_vars PROVE Counting'
    OBVIOUS
  <2>0. /\ QTypes \subseteq Counters \ Timing /\ {Edns} \subseteq Counters \ Timing
        /\ Responses \subseteq Counters \ Timing /\ {PerConnection} \subseteq Counters \ Timing
        /\ Protocols \subseteq Counters \ Timing /\ {Total} \subseteq Counters \ Timing
    BY Names, Apart
  <2>1. ASSUME NEW h \in Handlers, Update(h) PROVE Counting'
    <3> DEFINE o == todo[h][1]
    <3>1. Stepped(todo, todo', val, val', h, o) /\ val \in [Counters -> Nat] /\ Suffix(todo[h])
      BY <2>1, UpdateStepped DEF Typed
    <3> HIDE DEF o
    <3>2. ASSUME NEW C, NEW D, Before(C, D), D \subseteq Counters \ Timing, Covers(C, D)
          PROVE  Covers(C, D)'
      BY <3>1, <3>2, CreditStep DEF Covers
    <3>3. Covers({Total}, QTypes)'
      BY <2>0, <3>2, Orders DEF Counting
    <3>4. Covers(Protocols, {Edns})'
      BY <2>0, <3>2, Orders DEF Counting
    <3>5. Covers({Total} \cup Faults, Responses)'
      BY <2>0, <3>2, Orders DEF Counting
    <3>6. Covers({"tcp_queries"}, {PerConnection})'
      BY <2>0, <3>2, Orders DEF Counting
    <3>7. SumOf(val', Protocols) + Cardinality(Mid(todo', Protocols, {Total})) =
            SumOf(val', {Total})
      <4> DEFINE A == Cardinality(Mid(todo, Protocols, {Total}))
                 B == Cardinality(Mid(todo', Protocols, {Total}))
      <4>1. /\ A \in Nat /\ B \in Nat
            /\ o[2] \in {Total} => o[2] \notin Protocols
            /\ o[2] \in Protocols => o[2] \notin {Total} /\ A = B + 1
            /\ o[2] \notin {Total} \cup Protocols => A = B
            /\ o[2] \in {Total} /\ (\A c, d \in {Total} : Rank(c) = Rank(d))
                 /\ Hits(todo[h], Protocols) => B = A + 1
        BY <3>1, Orders, MidStep
      <4>2. o[2] \in {Total} => Hits(todo[h], Protocols)
        BY <3>1 DEF Stepped, Suffix, Hits
      <4>3. \A c, d \in {Total} : Rank(c) = Rank(d)
        OBVIOUS
      <4>4. /\ SumOf(val, Protocols) \in Nat
            /\ SumOf(val', Protocols) = IF o[2] \in Protocols THEN SumOf(val, Protocols) + 1
                                                             ELSE SumOf(val, Protocols)
        BY <2>0, <3>1, FiniteGroups, SumStepped
      <4>5. /\ SumOf(val, {Total}) \in Nat
            /\ SumOf(val', {Total}) = IF o[2] \in {Total} THEN SumOf(val, {Total}) + 1
                                                          ELSE SumOf(val, {Total})
        BY <2>0, <3>1, FiniteGroups, SumStepped
      <4>6. SumOf(val, Protocols) + A = SumOf(val, {Total})
        BY DEF Counting
      <4> HIDE DEF A, B
      <4>7. SumOf(val', Protocols) + B = SumOf(val', {Total})
        BY <4>1, <4>2, <4>3, <4>4, <4>5, <4>6
      <4> QED  BY <4>7 DEF B
    <3> QED  BY <3>3, <3>4, <3>5, <3>6, <3>7 DEF Counting
  <2>2. ASSUME NEW h \in Handlers, NEW r \in Requests, Begin(h, r) PROVE Counting'
    <3>1. Started(todo, todo', h) /\ val' = val
      BY <2>2, BeginStarted DEF Begin
    <3>2. ASSUME NEW C, NEW D, Hits(todo'[h], D) => Hits(todo'[h], C)
          PROVE  Mid(todo', D, C) = Mid(todo, D, C)
      BY <3>1, <3>2, MidStart
    <3>3. /\ Mid(todo', QTypes, {Total}) = Mid(todo, QTypes, {Total})
          /\ Mid(todo', {Edns}, Protocols) = Mid(todo, {Edns}, Protocols)
          /\ Mid(todo', Responses, {Total} \cup Faults) = Mid(todo, Responses, {Total} \cup Faults)
          /\ Mid(todo', {PerConnection}, {"tcp_queries"}) =
               Mid(todo, {PerConnection}, {"tcp_queries"})
          /\ Mid(todo', Protocols, {Total}) = Mid(todo, Protocols, {Total})
      <4>1. Whole(todo'[h])
        BY <3>1 DEF Started
      <4> QED  BY <3>2, <4>1 DEF Whole
    <3> QED  BY <3>1, <3>3 DEF Counting, Covers
  <2>3. CASE GetSnapshot \/ Respond \/ UNCHANGED vars
    <3>1. val' = val /\ todo' = todo
      BY <2>3 DEF GetSnapshot, Respond, vars
    <3> QED  BY <3>1 DEF Counting, Covers
  <2> QED  BY <2>1, <2>2, <2>3 DEF Next
<1> QED  BY <1>1, <1>2, Typing, PTL DEF Spec

-----------------------------------------------------------------------------
(* The latencies *)

\* m is a lower bound of the latencies added so far: of the minimum, and of those
\* that were added and have still to be held against it.
Below(m) ==
  /\ m <= val[Minimal]
  /\ \A h \in Handlers : Latency \notin Touched(todo[h]) =>
       \A o \in ToSet(todo[h]) : o[2] = Minimal => m <= o[3]
Above(m) ==
  /\ val[Maximal] <= m
  /\ \A h \in Handlers : Latency \notin Touched(todo[h]) =>
       \A o \in ToSet(todo[h]) : o[2] = Maximal => o[3] <= m

\* The counts of C whose request has no latency still to add.
Timed(C) == SumOf(val, C) - Cardinality(Mid(todo, {Latency}, C))

\* Bounds of the sum from the responses, as long as no request failed or was
\* refused, and from the queries, failures and refusals.
LatencyWithin ==
  \A m \in Nat :
    /\ SumOf(val, Faults) = 0 /\ Below(m) => Timed(Responses) * m <= val[Latency]
    /\ Above(m) => val[Latency] <= Timed({Total} \cup Faults) * m

\* A response without a latency is that of a failure or refusal, counted before.
Faulty ==
  \A h \in Handlers : Hits(todo[h], Responses) =>
    Hits(todo[h], {Latency}) \/ Hits(todo[h], Faults) \/ SumOf(val, Faults) > 0

LEMMA FaultsCount ==
  ASSUME Typed
  PROVE  /\ SumOf(val, Faults) \in Nat
         /\ \A h \in Handlers : Update(h) =>
              /\ SumOf(val', Faults) \in Nat /\ SumOf(val, Faults) <= SumOf(val', Faults)
              /\ todo[h][1][2] \in Faults => SumOf(val', Faults) > 0
<1>1. Faults \subseteq Counters \ Timing /\ IsFiniteSet(Faults)
  BY Names, Apart, FiniteGroups
<1>2. SumOf(val, Faults) \in Nat
  BY <1>1, SumNat DEF Typed
<1>3. ASSUME NEW h \in Handlers, Update(h)
      PROVE  SumOf(val', Faults) = IF todo[h][1][2] \in Faults THEN SumOf(val, Faults) + 1
                                                             ELSE SumOf(val, Faults)
  <2>1. Stepped(todo, todo', val, val', h, todo[h][1]) /\ val \in [Counters -> Nat]
    BY <1>3, UpdateStepped DEF Typed
  <2> QED  BY <1>1, <2>1, SumStepped
<1> QED  BY <1>2, <1>3

LEMMA FaultsFirst == Spec => []Faulty
<1>1. Init => Faulty
  BY EmptyRun DEF Init, Faulty, Hits
<1>2. Faulty /\ Typed /\ [Next]_vars => Faulty'
  <2> SUFFICES ASSUME Faulty, Typed, [Next]_vars PROVE Faulty'
    OBVIOUS
  <2>1. ASSUME NEW h \in Handlers, Update(h) PROVE Faulty'
    <3> DEFINE o == todo[h][1]
    <3>1. Stepped(todo, todo', val, val', h, o)
      BY <2>1, UpdateStepped
    <3>2. /\ SumOf(val, Faults) \in Nat /\ SumOf(val', Faults) \in Nat
          /\ SumOf(val, Faults) <= SumOf(val', Faults)
          /\ o[2] \in Faults => SumOf(val', Faults) > 0
      BY <2>1, FaultsCount
    <3> HIDE DEF o
    <3>3. SumOf(val, Faults) > 0 => SumOf(val', Faults) > 0
      BY <3>2
    <3> SUFFICES ASSUME NEW g \in Handlers, Hits(todo'[g], Responses)
                 PROVE  Hits(todo'[g], {Latency}) \/ Hits(todo'[g], Faults)
                          \/ SumOf(val', Faults) > 0
      BY DEF Faulty
    <3>4. CASE g # h
      <4>1. todo'[g] = todo[g]
        BY <3>1, <3>4 DEF Stepped
      <4> QED  BY <3>3, <4>1 DEF Faulty
    <3>5. CASE g = h
      <4>1. /\ Hits(todo[h], Responses)
            /\ Hits(todo[h], {Latency}) => o[2] = Latency \/ Hits(todo'[h], {Latency})
            /\ Hits(todo[h], Faults) => o[2] \in Faults \/ Hits(todo'[h], Faults)
        BY <3>1, <3>5, HitsStep
      <4>2. o[2] # Latency
        <5>1. PICK k \in Responses : k \in Touched(todo'[h])
          BY <3>5 DEF Hits
        <5>2. Rank(o[2]) < Rank(k)
          BY <3>1, <5>1 DEF Stepped
        <5>3. Rank(k) = 7 /\ Rank(Latency) = 8
          BY RankOf
        <5> QED  BY <5>2, <5>3
      <4>3. Hits(todo[h], {Latency}) \/ Hits(todo[h], Faults) \/ SumOf(val, Faults) > 0
        BY <4>1 DEF Faulty
      <4> QED  BY <3>2, <3>3, <3>5, <4>1, <4>2, <4>3
    <3> QED  BY <3>4, <3>5
  <2>2. ASSUME NEW h \in Handlers, NEW r \in Requests, Begin(h, r) PROVE Faulty'
    <3>1. Started(todo, todo', h) /\ val' = val
      BY <2>2, BeginStarted DEF Begin
    <3> QED  BY <3>1 DEF Started, Whole, Faulty
  <2>3. CASE GetSnapshot \/ Respond \/ UNCHANGED vars
    <3>1. val' = val /\ todo' = todo
      BY <2>3 DEF GetSnapshot, Respond, vars
    <3> QED  BY <3>1 DEF Faulty
  <2> QED  BY <2>1, <2>2, <2>3 DEF Next
<1> QED  BY <1>1, <1>2, Typing, PTL DEF Spec

LEMMA Times ==
  ASSUME NEW n \in Int, NEW m \in Nat
  PROVE  n * m \in Int /\ (n + 1) * m = n * m + m /\ (n - 1) * m = n * m - m
OBVIOUS

LEMMA TimedStep ==
  ASSUME Typed, Faulty, NEW h \in Handlers, Update(h)
  PROVE  LET k == todo[h][1][2]
         IN  /\ Timed(Responses) \in Int /\ Timed({Total} \cup Faults) \in Int
             /\ k = Latency => /\ Timed(Responses)' = Timed(Responses) + 1
                               /\ Timed({Total} \cup Faults)' = Timed({Total} \cup Faults) + 1
             /\ k # Latency => /\ SumOf(val, Faults) = 0 => Timed(Responses)' = Timed(Responses)
                               /\ \/ Timed({Total} \cup Faults)' = Timed({Total} \cup Faults)
                                  \/ Timed({Total} \cup Faults)' = Timed({Total} \cup Faults) + 1
<1> DEFINE o == todo[h][1]
           L == {Latency}
<1>1. /\ Stepped(todo, todo', val, val', h, o) /\ Suffix(todo[h])
      /\ val \in [Counters -> Nat]
  BY UpdateStepped DEF Typed
<1> HIDE DEF o
<1>2. Responses \subseteq Counters \ Timing /\ {Total} \cup Faults \subseteq Counters \ Timing
  BY Names, Apart
<1>3. Latency \notin {Total} \cup Faults /\ Latency \notin Responses
  BY Apart
<1>4. ASSUME NEW C, IsFiniteSet(C), C \subseteq Counters \ Timing, Before(C, L),
             Latency \notin C
      PROVE  LET A == Cardinality(Mid(todo, L, C))
                 B == Cardinality(Mid(todo', L, C))
             IN  /\ SumOf(val, C) - A \in Int
                 /\ o[2] = Latency => SumOf(val', C) - B = (SumOf(val, C) - A) + 1
                 /\ o[2] # Latency => \/ SumOf(val', C) - B = SumOf(val, C) - A
                                      \/ SumOf(val', C) - B = (SumOf(val, C) - A) + 1
                 /\ o[2] \in C /\ (\A c, d \in C : Rank(c) = Rank(d)) /\ Hits(todo[h], L)
                      => SumOf(val', C) - B = SumOf(val, C) - A
                 /\ o[2] \notin C \cup L => SumOf(val', C) - B = SumOf(val, C) - A
  <2> DEFINE A == Cardinality(Mid(todo, L, C))
             B == Cardinality(Mid(todo', L, C))
  <2>1. /\ A \in Nat /\ B \in Nat
        /\ o[2] \in C => o[2] \notin L /\ (B = A \/ B = A + 1)
        /\ o[2] \in L => o[2] \notin C /\ A = B + 1
        /\ o[2] \notin C \cup L => A = B
        /\ o[2] \in C /\ (\A c, d \in C : Rank(c) = Rank(d)) /\ Hits(todo[h], L) => B = A + 1
    BY <1>1, <1>4, MidStep
  <2>2. /\ SumOf(val, C) \in Nat
        /\ SumOf(val', C) = IF o[2] \in C THEN SumOf(val, C) + 1 ELSE SumOf(val, C)
    BY <1>1, <1>4, SumStepped
  <2> HIDE DEF A, B
  <2>3. o[2] \in L <=> o[2] = Latency
    OBVIOUS
  <2> HIDE DEF L
  <2>4. /\ SumOf(val, C) - A \in Int
        /\ o[2] = Latency => SumOf(val', C) - B = (SumOf(val, C) - A) + 1
        /\ o[2] # Latency => \/ SumOf(val', C) - B = SumOf(val, C) - A
                             \/ SumOf(val', C) - B = (SumOf(val, C) - A) + 1
        /\ o[2] \in C /\ (\A c, d \in C : Rank(c) = Rank(d)) /\ Hits(todo[h], L)
             => SumOf(val', C) - B = SumOf(val, C) - A
        /\ o[2] \notin C \cup L => SumOf(val', C) - B = SumOf(val, C) - A
    BY <1>4, <2>1, <2>2, <2>3
  <2> QED  BY <2>4 DEF A, B
<1>5. /\ Timed({Total} \cup Faults) \in Int
      /\ o[2] = Latency => Timed({Total} \cup Faults)' = Timed({Total} \cup Faults) + 1
      /\ o[2] # Latency => \/ Timed({Total} \cup Faults)' = Timed({Total} \cup Faults)
                           \/ Timed({Total} \cup Faults)' = Timed({Total} \cup Faults) + 1
  BY <1>2, <1>3, <1>4, Orders, FiniteGroups DEF Timed
<1>6. o[2] \in Responses /\ SumOf(val, Faults) = 0 => Hits(todo[h], L)
  <2> SUFFICES ASSUME o[2] \in Responses, SumOf(val, Faults) = 0 PROVE Hits(todo[h], L)
    OBVIOUS
  <2>1. Hits(todo[h], Responses)
    BY <1>1 DEF Stepped, Hits
  <2>2. ~Hits(todo[h], Faults)
    <3> SUFFICES ASSUME NEW k \in Faults, k \in Touched(todo[h]) PROVE FALSE
      BY DEF Hits
    <3>1. k = o[2] \/ Rank(o[2]) < Rank(k)
      BY <1>1 DEF Stepped
    <3>2. Rank(k) = 6 /\ Rank(o[2]) = 7
      BY RankOf
    <3> QED  BY <3>1, <3>2
  <2> QED  BY <2>1, <2>2 DEF Faulty
<1>7. /\ Timed(Responses) \in Int
      /\ o[2] = Latency => Timed(Responses)' = Timed(Responses) + 1
      /\ o[2] # Latency /\ SumOf(val, Faults) = 0 => Timed(Responses)' = Timed(Responses)
  <2>1. \A c, d \in Responses : Rank(c) = Rank(d)
    BY RankOf
  <2>2. /\ Timed(Responses) \in Int
        /\ o[2] = Latency => Timed(Responses)' = Timed(Responses) + 1
        /\ o[2] \in Responses /\ (\A c, d \in Responses : Rank(c) = Rank(d))
             /\ Hits(todo[h], L) => Timed(Responses)' = Timed(Responses)
        /\ o[2] \notin Responses \cup L => Timed(Responses)' = Timed(Responses)
    BY <1>2, <1>3, <1>4, Orders, FiniteGroups DEF Timed
  <2> QED  BY <1>6, <2>1, <2>2
<1> QED  BY <1>5, <1>7 DEF o

LEMMA BoundsStep ==
  ASSUME Typed, NEW h \in Handlers, Update(h), NEW m \in Nat
  PROVE  LET o == todo[h][1]
         IN  /\ val[Latency] \in Nat /\ o[3] \in Nat
             /\ Below(m)' => Below(m) /\ (o[2] = Latency => m <= o[3])
             /\ Above(m)' => Above(m) /\ (o[2] = Latency => o[3] <= m)
             /\ val'[Latency] = IF o[2] = Latency THEN val[Latency] + o[3] ELSE val[Latency]
<1> DEFINE o == todo[h][1]
<1>1. /\ Stepped(todo, todo', val, val', h, o) /\ Suffix(todo[h])
      /\ val \in [Counters -> Nat] /\ o \in ToSet(todo[h])
      /\ ToSet(todo'[h]) = ToSet(todo[h]) \ {o} /\ val' \in [Counters -> Nat]
  BY UpdateStepped DEF Typed
<1> HIDE DEF o
<1>2. /\ Proper(o) /\ o[1] \in {"add", "min", "max"} /\ o[2] \in Counters /\ o[3] \in Nat
      /\ \A g \in Handlers : g # h => todo'[g] = todo[g]
      /\ Touched(todo'[h]) = Touched(todo[h]) \ {o[2]}
  BY <1>1 DEF Stepped, Proper, Amounts
<1>3. /\ Minimal \in Counters /\ Maximal \in Counters /\ Latency \in Counters
      /\ Minimal # Maximal /\ Minimal # Latency /\ Maximal # Latency
      /\ {Minimal, Maximal, Latency} = Timing
  BY Names DEF Timing, Minimal, Maximal, Latency
<1>4. /\ val[Minimal] \in Nat /\ val[Maximal] \in Nat /\ val[Latency] \in Nat
      /\ val'[Minimal] \in Nat /\ val'[Maximal] \in Nat
  BY <1>1, <1>3
<1>5. /\ o[2] = Minimal => val'[Minimal] = IF o[3] < val[Minimal] THEN o[3] ELSE val[Minimal]
      /\ o[2] # Minimal => val'[Minimal] = val[Minimal]
      /\ o[2] = Maximal => val'[Maximal] = IF o[3] > val[Maximal] THEN o[3] ELSE val[Maximal]
      /\ o[2] # Maximal => val'[Maximal] = val[Maximal]
      /\ o[2] = Latency => val'[Latency] = val[Latency] + o[3]
      /\ o[2] # Latency => val'[Latency] = val[Latency]
  BY <1>1, <1>2, <1>3 DEF Stepped, Proper
<1>6. \A p \in ToSet(todo[h]) : p[2] \in Touched(todo[h]) /\ p[3] \in Nat
  BY <1>1 DEF Suffix, Proper, Amounts, Touched
<1>7. ASSUME o[2] = Latency
      PROVE  /\ Latency \notin Touched(todo'[h])
             /\ \E p \in ToSet(todo'[h]) : p[2] = Minimal /\ p[3] = o[3]
             /\ \E p \in ToSet(todo'[h]) : p[2] = Maximal /\ p[3] = o[3]
  <2>1. Minimal \in Touched(todo[h]) /\ Maximal \in Touched(todo[h])
    BY <1>1, <1>6, <1>7 DEF Suffix
  <2>2. PICK p \in ToSet(todo[h]) : p[2] = Minimal
    BY <2>1 DEF Touched
  <2>3. PICK q \in ToSet(todo[h]) : q[2] = Maximal
    BY <2>1 DEF Touched
  <2>4. p[3] = o[3] /\ q[3] = o[3]
    BY <1>1, <1>3, <1>7, <2>2, <2>3 DEF Suffix
  <2> QED  BY <1>1, <1>2, <1>3, <1>7, <2>2, <2>3, <2>4
<1>8. Below(m)' => Below(m) /\ (o[2] = Latency => m <= o[3])
  <2> SUFFICES ASSUME Below(m)' PROVE Below(m) /\ (o[2] = Latency => m <= o[3])
    OBVIOUS
  <2>1. /\ m <= val'[Minimal]
        /\ \A g \in Handlers : Latency \notin Touched(todo'[g]) =>
             \A p \in ToSet(todo'[g]) : p[2] = Minimal => m <= p[3]
    BY DEF Below
  <2>2. m <= val[Minimal]
    BY <1>2, <1>4, <1>5, <2>1
  <2>3. ASSUME NEW g \in Handlers, Latency \notin Touched(todo[g]), NEW p \in ToSet(todo[g]),
               p[2] = Minimal
        PROVE  m <= p[3]
    <3>1. CASE g # h
      BY <1>2, <2>1, <2>3, <3>1
    <3>2. CASE g = h /\ p # o
      BY <1>1, <1>2, <2>1, <2>3, <3>2
    <3>3. CASE g = h /\ p = o
      BY <1>2, <1>4, <1>5, <2>1, <2>3, <3>3
    <3> QED  BY <3>1, <3>2, <3>3
  <2>4. o[2] = Latency => m <= o[3]
    BY <1>7, <2>1
  <2> QED  BY <2>2, <2>3, <2>4 DEF Below
<1>9. Above(m)' => Above(m) /\ (o[2] = Latency => o[3] <= m)
  <2> SUFFICES ASSUME Above(m)' PROVE Above(m) /\ (o[2] = Latency => o[3] <= m)
    OBVIOUS
  <2>1. /\ val'[Maximal] <= m
        /\ \A g \in Handlers : Latency \notin Touched(todo'[g]) =>
             \A p \in ToSet(todo'[g]) : p[2] = Maximal => p[3] <= m
    BY DEF Above
  <2>2. val[Maximal] <= m
    BY <1>2, <1>4, <1>5, <2>1
  <2>3. ASSUME NEW g \in Handlers, Latency \notin Touched(todo[g]), NEW p \in ToSet(todo[g]),
               p[2] = Maximal
        PROVE  p[3] <= m
    <3>1. CASE g # h
      BY <1>2, <2>1, <2>3, <3>1
    <3>2. CASE g = h /\ p # o
      BY <1>1, <1>2, <2>1, <2>3, <3>2
    <3>3. CASE g = h /\ p = o
      BY <1>2, <1>4, <1>5, <2>1, <2>3, <3>3
    <3> QED  BY <3>1, <3>2, <3>3
  <2>4. o[2] = Latency => o[3] <= m
    BY <1>7, <2>1
  <2> QED  BY <2>2, <2>3, <2>4 DEF Above
<1> QED  BY <1>2, <1>4, <1>5, <1>8, <1>9 DEF o

LEMMA Timings == Spec => []LatencyWithin
<1>1. Init => LatencyWithin
  <2> SUFFICES ASSUME Init, NEW m \in Nat
               PROVE  /\ Timed(Responses) * m <= val[Latency]
                      /\ val[Latency] <= Timed({Total} \cup Faults) * m
    BY DEF LatencyWithin
  <2>1. \A k \in {Total, Latency} \cup Faults \cup Responses : val[k] = 0
    BY Names, Apart DEF Init, Minimal, Latency, Timing
  <2>2. SumOf(val, Responses) = 0 /\ SumOf(val, {Total} \cup Faults) = 0
    BY <2>1, FiniteGroups, ZeroSum
  <2>3. Timed(Responses) = 0 /\ Timed({Total} \cup Faults) = 0
    BY <2>2, InitMid DEF Timed
  <2> QED  BY <2>1, <2>3
<1>2. LatencyWithin /\ Typed /\ Faulty /\ [Next]_vars => LatencyWithin'
  <2> SUFFICES ASSUME LatencyWithin, Typed, Faulty, [Next]_vars, NEW m \in Nat
               PROVE  /\ SumOf(val', Faults) = 0 /\ Below(m)' => Timed(Responses)' * m <= val'[Latency]
                      /\ Above(m)' => val'[Latency] <= Timed({Total} \cup Faults)' * m
    BY DEF LatencyWithin
  <2>0. /\ SumOf(val, Faults) = 0 /\ Below(m) => Timed(Responses) * m <= val[Latency]
        /\ Above(m) => val[Latency] <= Timed({Total} \cup Faults) * m
    BY DEF LatencyWithin
  <2>1. ASSUME NEW h \in Handlers, Update(h)
        PROVE  /\ SumOf(val', Faults) = 0 /\ Below(m)' => Timed(Responses)' * m <= val'[Latency]
               /\ Above(m)' => val'[Latency] <= Timed({Total} \cup Faults)' * m
    <3> DEFINE o == todo[h][1]
               n == Timed(Responses)
               u == Timed({Total} \cup Faults)
    <3>1. /\ n \in Int /\ u \in Int
          /\ o[2] = Latency => n' = n + 1 /\ u' = u + 1
          /\ o[2] # Latency => (SumOf(val, Faults) = 0 => n' = n) /\ (u' = u \/ u' = u + 1)
      BY <2>1, TimedStep
    <3>2. /\ val[Latency] \in Nat /\ o[3] \in Nat
          /\ Below(m)' => Below(m) /\ (o[2] = Latency => m <= o[3])
          /\ Above(m)' => Above(m) /\ (o[2] = Latency => o[3] <= m)
          /\ val'[Latency] = IF o[2] = Latency THEN val[Latency] + o[3] ELSE val[Latency]
      BY <2>1, BoundsStep
    <3>3. /\ n * m \in Int /\ (n + 1) * m = n * m + m
          /\ u * m \in Int /\ (u + 1) * m = u * m + m
      BY <3>1, Times
    <3>4. /\ SumOf(val, Faults) = 0 /\ Below(m) => n * m <= val[Latency]
          /\ Above(m) => val[Latency] <= u * m
      BY <2>0
    <3> HIDE DEF o
    <3>5. ASSUME SumOf(val', Faults) = 0, Below(m)' PROVE n' * m <= val'[Latency]
      <4>0. SumOf(val, Faults) = 0
        BY <2>1, <3>5, FaultsCount
      <4>1. n' * m = n * m \/ (o[2] = Latency /\ n' * m = n * m + m)
        BY <3>1, <3>3, <4>0
      <4> HIDE DEF n
      <4> QED  BY <3>2, <3>3, <3>4, <3>5, <4>0, <4>1
    <3>6. ASSUME Above(m)' PROVE val'[Latency] <= u' * m
      <4>1. \/ u' * m = u * m /\ o[2] # Latency
            \/ u' * m = u * m + m
        BY <3>1, <3>3
      <4> HIDE DEF u
      <4> QED  BY <3>2, <3>3, <3>4, <3>6, <4>1
    <3> QED  BY <3>5, <3>6
  <2>2. ASSUME NEW h \in Handlers, NEW r \in Requests, Begin(h, r)
        PROVE  /\ SumOf(val', Faults) = 0 /\ Below(m)' => Timed(Responses)' * m <= val'[Latency]
               /\ Above(m)' => val'[Latency] <= Timed({Total} \cup Faults)' * m
    <3>1. Started(todo, todo', h) /\ val' = val
      BY <2>2, BeginStarted DEF Begin
    <3>2. (Below(m)' => Below(m)) /\ (Above(m)' => Above(m))
      <4>1. ToSet(todo[h]) = {} /\ \A g \in Handlers : g # h => todo'[g] = todo[g]
        BY <3>1 DEF Started, ToSet
      <4> QED  BY <3>1, <4>1 DEF Below, Above
    <3> DEFINE n == Timed(Responses)
               u == Timed({Total} \cup Faults)
    <3>3. n \in Int /\ (n' = n \/ n' = n - 1)
      <4>1. /\ Cardinality(Mid(todo, {Latency}, Responses)) \in Nat
            /\ Cardinality(Mid(todo', {Latency}, Responses)) \in Nat
        BY MidFinite
      <4>2. SumOf(val, Responses) \in Nat
        BY Names, Apart, FiniteGroups, SumNat DEF Typed
      <4>3. \/ Cardinality(Mid(todo', {Latency}, Responses)) =
                 Cardinality(Mid(todo, {Latency}, Responses))
            \/ Cardinality(Mid(todo', {Latency}, Responses)) =
                 Cardinality(Mid(todo, {Latency}, Responses)) + 1
        BY <3>1, MidStart
      <4> QED  BY <3>1, <4>1, <4>2, <4>3 DEF Timed
    <3>4. u' = u
      <4>1. Whole(todo'[h])
        BY <3>1 DEF Started
      <4>2. Hits(todo'[h], {Latency}) => Hits(todo'[h], {Total} \cup Faults)
        BY <4>1 DEF Whole, Hits, Timing
      <4>3. Mid(todo', {Latency}, {Total} \cup Faults) = Mid(todo, {Latency}, {Total} \cup Faults)
        BY <3>1, <4>2, MidStart
      <4> QED  BY <3>1, <4>3 DEF Timed
    <3>5. n * m \in Int /\ (n - 1) * m = n * m - m
      BY <3>3, Times
    <3>6. val[Latency] \in Nat
      BY Names DEF Typed, Timing
    <3>7. SumOf(val', Faults) = 0 /\ Below(m)' => n' * m <= val'[Latency]
      <4>1. n' * m = n * m \/ n' * m = n * m - m
        BY <3>3, <3>5
      <4> HIDE DEF n
      <4> QED  BY <2>0, <3>1, <3>2, <3>5, <3>6, <4>1 DEF n
    <3>8. Above(m)' => val'[Latency] <= u' * m
      BY <2>0, <3>1, <3>2, <3>4
    <3> QED  BY <3>7, <3>8
  <2>3. CASE GetSnapshot \/ Respond \/ UNCHANGED vars
    <3>1. val' = val /\ todo' = todo
      BY <2>3 DEF GetSnapshot, Respond, vars
    <3> QED  BY <2>0, <3>1 DEF Below, Above, Timed
  <2> QED  BY <2>1, <2>2, <2>3 DEF Next
<1> QED  BY <1>1, <1>2, Typing, FaultsFirst, PTL DEF Spec

-----------------------------------------------------------------------------
(* The snapshot *)

Udp == "udp_queries"
Tcp == "tcp_queries"

\* The handlers that have still to count in K.
Pending(K) == Cardinality(Mid(todo, K, {}))

\* While the loads are made: what a counter may be shown to lack, or has still to
\* reach it, is due to the requests that overlap the snapshot.
Window ==
  phase = "loading" =>
    /\ Cardinality(Busy) <= Overlap
    /\ \A k \in Counters \ Timing : \A v \in snap[k] : v <= val[k]
    /\ \A k \in Counters : snap[k] # {}
    /\ \A v \in snap[Total] : val[Total] + Pending({Total}) <= v + Overlap
    /\ \A u \in snap[Udp], t \in snap[Tcp] :
         val[Udp] + val[Tcp] + Pending(Protocols) <= u + t + Overlap
    /\ Overlap = 0 => \A k \in Counters : snap[k] = {val[k]}

LEMMA MidBusy ==
  ASSUME NEW D, NEW C
  PROVE  /\ Cardinality(Mid(todo, D, C)) \in Nat
         /\ Cardinality(Mid(todo, D, C)) <= Cardinality(Busy)
<1>1. Mid(todo, D, C) \subseteq Busy
  BY EmptyRun DEF Mid, Busy, Hits
<1> QED  BY <1>1, BusyFinite, MidFinite, FS_Subset

LEMMA MidBusyNext ==
  ASSUME NEW D, NEW C
  PROVE  Cardinality(Mid(todo', D, C)) <= Cardinality(Busy')
<1>1. Mid(todo', D, C) \subseteq Busy'
  BY EmptyRun DEF Mid, Busy, Hits
<1>2. Busy' \subseteq Handlers
  BY DEF Busy
<1>3. IsFiniteSet(Busy')
  BY <1>2, MetricsAssumption, FS_Subset
<1> QED  BY <1>1, <1>3, FS_Subset

\* The sums of Counting, by their counters.
LEMMA CountingIs ==
  ASSUME Typed, Counting
  PROVE  /\ val[Total] \in Nat /\ val[Udp] \in Nat /\ val[Tcp] \in Nat /\ val[Edns] \in Nat
         /\ val[Total] = val[Udp] + val[Tcp] + Cardinality(Mid(todo, Protocols, {Total}))
         /\ val[Edns] <= val[Udp] + val[Tcp]
         /\ SumOf(val, QTypes) <= val[Total] /\ SumOf(val, QTypes) \in Nat
<1>1. /\ Total \in Counters /\ Udp \in Counters /\ Tcp \in Counters /\ Edns \in Counters
      /\ QTypes \subseteq Counters
  BY Names DEF Protocols, Udp, Tcp
<1>2. /\ val[Total] \in Nat /\ val[Udp] \in Nat /\ val[Tcp] \in Nat /\ val[Edns] \in Nat
  BY <1>1 DEF Typed
<1>3. SumOf(val, {Total}) = val[Total] /\ SumOf(val, {Edns}) = val[Edns]
  BY <1>2, SumOne
<1>4. SumOf(val, Protocols) = val[Udp] + val[Tcp]
  <2>1. Protocols = {Udp, Tcp} /\ Udp # Tcp
    BY DEF Protocols, Udp, Tcp
  <2> QED  BY <1>2, <2>1, SumTwo
<1>5. SumOf(val, QTypes) \in Nat
  BY <1>1, FiniteGroups, SumNat DEF Typed
<1>6. /\ Cardinality(Mid(todo, Protocols, {Total})) \in Nat
      /\ Cardinality(Mid(todo, {Edns}, Protocols)) \in Nat
      /\ Cardinality(Mid(todo, QTypes, {Total})) \in Nat
  BY MidFinite
<1>7. /\ SumOf(val, QTypes) + Cardinality(Mid(todo, QTypes, {Total})) <= SumOf(val, {Total})
      /\ SumOf(val, {Edns}) + Cardinality(Mid(todo, {Edns}, Protocols)) <= SumOf(val, Protocols)
      /\ SumOf(val, Protocols) + Cardinality(Mid(todo, Protocols, {Total})) = SumOf(val, {Total})
  BY DEF Counting, Covers
<1> QED  BY <1>2, <1>3, <1>4, <1>5, <1>6, <1>7

LEMMA WindowUpdate ==
  ASSUME Typed, Window, NEW h \in Handlers, Update(h)
  PROVE  Window'
<1> DEFINE o == todo[h][1]
<1>1. Stepped(todo, todo', val, val', h, o) /\ val \in [Counters -> Nat]
  BY UpdateStepped DEF Typed
<1>2. UNCHANGED <<phase, inflight, begun>> /\ h \in Busy
  BY DEF Update, Busy
<1> SUFFICES ASSUME phase = "loading"
             PROVE  Window'
  BY <1>2 DEF Window
<1>0. /\ \A k \in Counters : snap'[k] = IF k = o[2] THEN snap[k] \cup {val'[k]} ELSE snap[k]
      /\ snap \in [Counters -> SUBSET Nat]
  BY SnapStep DEF Typed
<1> HIDE DEF o
<1>3. Before({}, {Total}) /\ Before({}, Protocols)
  BY FiniteGroups, FS_EmptySet, Names, RankOf DEF Before
<1>4. /\ Pending({Total}) \in Nat /\ Pending({Total})' \in Nat
      /\ o[2] \in {Total} => Pending({Total}) = Pending({Total})' + 1
      /\ o[2] \notin {Total} => Pending({Total}) = Pending({Total})'
  <2>1. LET A == Cardinality(Mid(todo, {Total}, {}))
            B == Cardinality(Mid(todo', {Total}, {}))
        IN  /\ A \in Nat /\ B \in Nat
            /\ o[2] \in {Total} => o[2] \notin {} /\ A = B + 1
            /\ o[2] \notin {} \cup {Total} => A = B
    BY <1>1, <1>3, MidStep
  <2> QED  BY <2>1 DEF Pending
<1>5. /\ Pending(Protocols) \in Nat /\ Pending(Protocols)' \in Nat
      /\ o[2] \in Protocols => Pending(Protocols) = Pending(Protocols)' + 1
      /\ o[2] \notin Protocols => Pending(Protocols) = Pending(Protocols)'
  <2>1. LET A == Cardinality(Mid(todo, Protocols, {}))
            B == Cardinality(Mid(todo', Protocols, {}))
        IN  /\ A \in Nat /\ B \in Nat
            /\ o[2] \in Protocols => o[2] \notin {} /\ A = B + 1
            /\ o[2] \notin {} \cup Protocols => A = B
    BY <1>1, <1>3, MidStep
  <2> QED  BY <2>1 DEF Pending
<1>6. Cardinality(Busy)' <= Cardinality(Busy) /\ Cardinality(Busy) \in Nat /\ Cardinality(Busy) # 0
      /\ Cardinality(Busy)' \in Nat
  <2>1. Busy' \subseteq Busy
    BY <1>1, <1>2 DEF Busy, Stepped
  <2> QED  BY <1>2, <2>1, BusyFinite, FS_Subset, FS_EmptySet, FS_CardinalityType
<1>7. /\ Total \in Counters \ Timing /\ Udp \in Counters \ Timing /\ Tcp \in Counters \ Timing
      /\ Protocols = {Udp, Tcp} /\ Udp # Tcp /\ Total \notin Protocols /\ Edns \in Counters
  BY Names, Apart DEF Protocols, Udp, Tcp
<1>8. \A k \in Counters \ Timing : val'[k] = IF k = o[2] THEN val[k] + 1 ELSE val[k]
  <2> SUFFICES ASSUME NEW k \in Counters \ Timing
               PROVE  val'[k] = IF k = o[2] THEN val[k] + 1 ELSE val[k]
    OBVIOUS
  <2>1. CASE k = o[2]
    <3>1. o[1] = "add" /\ o[3] = 1
      BY <1>1, <2>1 DEF Stepped, Proper, Amounts, Timing
    <3> QED  BY <1>1, <2>1, <3>1 DEF Stepped
  <2>2. CASE k # o[2]
    BY <1>1, <2>2 DEF Stepped
  <2> QED  BY <2>1, <2>2
<1>9. /\ val[Total] \in Nat /\ val[Udp] \in Nat /\ val[Tcp] \in Nat
      /\ inflight \in Nat /\ begun \in Nat
  BY <1>7 DEF Typed
<1>10. /\ val'[Total] = IF o[2] = Total THEN val[Total] + 1 ELSE val[Total]
       /\ val'[Udp] = IF o[2] = Udp THEN val[Udp] + 1 ELSE val[Udp]
       /\ val'[Tcp] = IF o[2] = Tcp THEN val[Tcp] + 1 ELSE val[Tcp]
  BY <1>7, <1>8
<1>11. /\ Cardinality(Busy) <= Overlap
       /\ \A k \in Counters \ Timing : \A v \in snap[k] : v <= val[k]
       /\ \A k \in Counters : snap[k] # {}
       /\ \A v \in snap[Total] : val[Total] + Pending({Total}) <= v + Overlap
       /\ \A u \in snap[Udp], t \in snap[Tcp] :
            val[Udp] + val[Tcp] + Pending(Protocols) <= u + t + Overlap
  BY DEF Window
<1>12. Overlap \in Nat /\ Overlap' = Overlap /\ Overlap # 0
  BY <1>2, <1>6, <1>9, <1>11 DEF Overlap
<1>13. Cardinality(Busy)' <= Overlap
  BY <1>6, <1>11, <1>12
<1>14. \A k \in Counters \ Timing : \A v \in snap'[k] : v <= val'[k]
  <2> SUFFICES ASSUME NEW k \in Counters \ Timing, NEW v \in snap'[k] PROVE v <= val'[k]
    OBVIOUS
  <2>1. val[k] \in Nat /\ (v \in snap[k] \/ v = val'[k]) /\ snap[k] \subseteq Nat
    BY <1>0, <1>1
  <2>2. val'[k] \in Nat /\ val[k] <= val'[k]
    BY <1>8, <2>1
  <2>3. v \in snap[k] => v <= val[k] /\ v \in Nat
    BY <1>11, <2>1
  <2> QED  BY <2>1, <2>2, <2>3
<1>15. \A k \in Counters : snap'[k] # {}
  BY <1>0, <1>11
<1>16. \A v \in snap'[Total] : val'[Total] + Pending({Total})' <= v + Overlap
  <2> SUFFICES ASSUME NEW v \in snap'[Total]
               PROVE  val'[Total] + Pending({Total})' <= v + Overlap
    OBVIOUS
  <2>1. v \in snap[Total] \/ v = val'[Total]
    BY <1>0, <1>7
  <2>2. CASE v \in snap[Total]
    <3>1. v \in Nat /\ val[Total] + Pending({Total}) <= v + Overlap
      BY <1>0, <1>7, <1>11, <2>2
    <3> QED  BY <1>4, <1>9, <1>10, <1>12, <3>1
  <2>3. CASE v = val'[Total]
    <3>1. Pending({Total})' <= Overlap
      <4>1. Pending({Total})' <= Cardinality(Busy)'
        BY MidBusyNext DEF Pending
      <4> QED  BY <1>4, <1>6, <1>12, <1>13, <4>1
    <3> QED  BY <1>4, <1>9, <1>10, <1>12, <2>3, <3>1
  <2> QED  BY <2>1, <2>2, <2>3
<1>17. \A u \in snap'[Udp], t \in snap'[Tcp] :
         val'[Udp] + val'[Tcp] + Pending(Protocols)' <= u + t + Overlap
  <2> SUFFICES ASSUME NEW u \in snap'[Udp], NEW t \in snap'[Tcp]
               PROVE  val'[Udp] + val'[Tcp] + Pending(Protocols)' <= u + t + Overlap
    OBVIOUS
  <2>1. PICK x \in snap[Udp] : x \in Nat /\ x <= val[Udp]
    BY <1>0, <1>7, <1>11
  <2>2. PICK y \in snap[Tcp] : y \in Nat /\ y <= val[Tcp]
    BY <1>0, <1>7, <1>11
  <2>3. /\ u \in snap[Udp] \/ (o[2] = Udp /\ u = val'[Udp])
        /\ t \in snap[Tcp] \/ (o[2] = Tcp /\ t = val'[Tcp])
    BY <1>0, <1>7
  <2>4. CASE u \in snap[Udp] /\ t \in snap[Tcp]
    <3>1. u \in Nat /\ t \in Nat /\ val[Udp] + val[Tcp] + Pending(Protocols) <= u + t + Overlap
      BY <1>0, <1>7, <1>11, <2>4
    <3> QED  BY <1>5, <1>7, <1>9, <1>10, <1>12, <3>1
  <2>5. CASE o[2] = Udp /\ u = val'[Udp] /\ t \in snap[Tcp]
    <3>1. t \in Nat /\ val[Udp] + val[Tcp] + Pending(Protocols) <= x + t + Overlap
      BY <1>0, <1>7, <1>11, <2>1, <2>5
    <3> QED  BY <1>5, <1>7, <1>9, <1>10, <1>12, <2>1, <2>5, <3>1
  <2>6. CASE o[2] = Tcp /\ t = val'[Tcp] /\ u \in snap[Udp]
    <3>1. u \in Nat /\ val[Udp] + val[Tcp] + Pending(Protocols) <= u + y + Overlap
      BY <1>0, <1>7, <1>11, <2>2, <2>6
    <3> QED  BY <1>5, <1>7, <1>9, <1>10, <1>12, <2>2, <2>6, <3>1
  <2> QED  BY <1>7, <2>3, <2>4, <2>5, <2>6
<1> QED
  BY <1>12, <1>13, <1>14, <1>15, <1>16, <1>17 DEF Window

LEMMA WindowBegin ==
  ASSUME Typed, Window, NEW h \in Handlers, NEW r \in Requests, Begin(h, r)
  PROVE  Window'
<1>1. Started(todo, todo', h)
  BY BeginStarted
<1>2. UNCHANGED <<val, phase, snap, inflight>>
  BY DEF Begin
<1> SUFFICES ASSUME phase = "loading"
             PROVE  Window'
  BY <1>2 DEF Window
<1>3. begun' = begun + 1 /\ begun \in Nat /\ inflight \in Nat
  BY DEF Begin, Typed
<1>4. Overlap' = Overlap + 1 /\ Overlap \in Nat
  BY <1>2, <1>3 DEF Overlap
<1>5. ASSUME NEW K
      PROVE  Pending(K) \in Nat /\ (Pending(K)' = Pending(K) \/ Pending(K)' = Pending(K) + 1)
  BY <1>1, MidStart, MidFinite DEF Pending
<1>6. Cardinality(Busy)' <= Cardinality(Busy) + 1 /\ Cardinality(Busy) \in Nat
      /\ Cardinality(Busy)' \in Nat
  <2>1. Busy' \ {h} = Busy \ {h} /\ h \notin Busy
    BY <1>1 DEF Busy, Started
  <2>2. IsFiniteSet(Busy) /\ Busy' \subseteq Handlers
    BY BusyFinite DEF Busy
  <2>3. IsFiniteSet(Busy')
    BY <2>2, MetricsAssumption, FS_Subset
  <2> QED  BY <2>1, <2>2, <2>3, CardChange
<1>7. /\ val[Total] \in Nat /\ val[Udp] \in Nat /\ val[Tcp] \in Nat
      /\ snap[Total] \subseteq Nat /\ snap[Udp] \subseteq Nat /\ snap[Tcp] \subseteq Nat
  BY Names DEF Protocols, Udp, Tcp, Typed
<1>8. /\ Cardinality(Busy) <= Overlap
      /\ \A k \in Counters \ Timing : \A v \in snap[k] : v <= val[k]
      /\ \A k \in Counters : snap[k] # {}
      /\ \A v \in snap[Total] : val[Total] + Pending({Total}) <= v + Overlap
      /\ \A u \in snap[Udp], t \in snap[Tcp] :
           val[Udp] + val[Tcp] + Pending(Protocols) <= u + t + Overlap
  BY DEF Window
<1>9. Cardinality(Busy)' <= Overlap' /\ Overlap' # 0
  BY <1>4, <1>6, <1>8
<1>10. \A v \in snap[Total] : val[Total] + Pending({Total})' <= v + Overlap'
  <2> SUFFICES ASSUME NEW v \in snap[Total]
               PROVE  val[Total] + Pending({Total})' <= v + Overlap'
    OBVIOUS
  <2>1. Pending({Total}) \in Nat
        /\ (Pending({Total})' = Pending({Total}) \/ Pending({Total})' = Pending({Total}) + 1)
    BY <1>5
  <2>2. v \in Nat /\ val[Total] + Pending({Total}) <= v + Overlap
    BY <1>7, <1>8
  <2> QED  BY <1>4, <1>7, <2>1, <2>2
<1>11. \A u \in snap[Udp], t \in snap[Tcp] :
         val[Udp] + val[Tcp] + Pending(Protocols)' <= u + t + Overlap'
  <2> SUFFICES ASSUME NEW u \in snap[Udp], NEW t \in snap[Tcp]
               PROVE  val[Udp] + val[Tcp] + Pending(Protocols)' <= u + t + Overlap'
    OBVIOUS
  <2>1. Pending(Protocols) \in Nat
        /\ \/ Pending(Protocols)' = Pending(Protocols)
           \/ Pending(Protocols)' = Pending(Protocols) + 1
    BY <1>5
  <2>2. /\ u \in Nat /\ t \in Nat
        /\ val[Udp] + val[Tcp] + Pending(Protocols) <= u + t + Overlap
    BY <1>7, <1>8
  <2> QED  BY <1>4, <1>7, <2>1, <2>2
<1> QED
  BY <1>2, <1>8, <1>9, <1>10, <1>11 DEF Window

LEMMA WindowOpens ==
  ASSUME Typed, GetSnapshot
  PROVE  Window'
<1>1. /\ val' = val /\ todo' = todo /\ inflight' = Cardinality(Busy) /\ begun' = begun
      /\ \A k \in Counters : snap'[k] = {val[k]}
  BY DEF GetSnapshot
<1>2. /\ Cardinality(Busy) \in Nat /\ Pending({Total}) \in Nat /\ Pending(Protocols) \in Nat
      /\ Pending({Total}) <= Cardinality(Busy) /\ Pending(Protocols) <= Cardinality(Busy)
  BY BusyFinite, MidBusy DEF Pending
<1>3. /\ Pending({Total})' = Pending({Total}) /\ Pending(Protocols)' = Pending(Protocols)
      /\ Cardinality(Busy)' = Cardinality(Busy)
  BY <1>1 DEF Pending, Busy
<1>4. /\ Overlap' \in Nat /\ Cardinality(Busy) <= Overlap'
  BY <1>1, <1>2 DEF Overlap, Typed
<1>5. /\ Total \in Counters /\ Udp \in Counters /\ Tcp \in Counters
      /\ val[Total] \in Nat /\ val[Udp] \in Nat /\ val[Tcp] \in Nat
  BY Names DEF Protocols, Udp, Tcp, Typed
<1>6. \A k \in Counters \ Timing : \A v \in snap'[k] : v <= val'[k]
  BY <1>1 DEF Typed
<1>7. \A v \in snap'[Total] : val'[Total] + Pending({Total})' <= v + Overlap'
  <2>1. val[Total] + Pending({Total}) <= val[Total] + Overlap'
    BY <1>2, <1>4, <1>5
  <2> QED  BY <1>1, <1>3, <1>5, <2>1
<1>8. \A u \in snap'[Udp], t \in snap'[Tcp] :
        val'[Udp] + val'[Tcp] + Pending(Protocols)' <= u + t + Overlap'
  <2>1. val[Udp] + val[Tcp] + Pending(Protocols) <= val[Udp] + val[Tcp] + Overlap'
    BY <1>2, <1>4, <1>5
  <2> QED  BY <1>1, <1>3, <1>5, <2>1
<1> QED  BY <1>1, <1>3, <1>4, <1>6, <1>7, <1>8 DEF Window

LEMMA Windows == Spec => []Window
<1>1. Init => Window
  BY DEF Init, Window
<1>2. Window /\ Typed /\ [Next]_vars => Window'
  <2> SUFFICES ASSUME Window, Typed, [Next]_vars PROVE Window'
    OBVIOUS
  <2>1. CASE GetSnapshot
    BY <2>1, WindowOpens
  <2>2. CASE Respond
    <3>1. phase' # "loading"
      BY <2>2 DEF Respond
    <3> QED  BY <3>1 DEF Window
  <2>3. CASE UNCHANGED vars
    BY <2>3 DEF vars, Window, Overlap, Busy, Pending
  <2> QED  BY <2>1, <2>2, <2>3, WindowUpdate, WindowBegin DEF Next
<1> QED  BY <1>1, <1>2, Typing, PTL DEF Spec

-----------------------------------------------------------------------------
(* The report *)

\* A report and the requests that overlap it stay as they are.
LEMMA ReportStays ==
  ASSUME [Next]_vars, phase' = "done"
  PROVE  /\ phase = "done" \/ phase = "loading"
         /\ UNCHANGED <<snap, inflight, begun>>
<1>1. ASSUME NEW h \in Handlers, Update(h) PROVE phase = "done" /\ UNCHANGED <<snap, inflight, begun>>
  BY <1>1 DEF Update
<1>2. ASSUME NEW h \in Handlers, NEW r \in Requests, Begin(h, r)
      PROVE  phase = "done" /\ UNCHANGED <<snap, inflight, begun>>
  BY <1>2 DEF Begin
<1>3. ASSUME GetSnapshot PROVE FALSE
  BY <1>3 DEF GetSnapshot
<1>4. ASSUME Respond PROVE phase = "loading" /\ UNCHANGED <<snap, inflight, begun>>
  BY <1>4 DEF Respond
<1> QED  BY <1>1, <1>2, <1>3, <1>4 DEF Next, vars

\* What the properties say of the report.
Torn ==
  /\ \A s \in Reported({Total} \cup Protocols) :
       /\ s[Total] - (s[Udp] + s[Tcp]) <= Overlap
       /\ (s[Udp] + s[Tcp]) - s[Total] <= Overlap
  /\ \A s \in Reported({Total} \cup QTypes) : SumOf(s, QTypes) - s[Total] <= Overlap
  /\ \A s \in Reported({Edns} \cup Protocols) : s[Edns] - (s[Udp] + s[Tcp]) <= Overlap

LEMMA TornIs == TornByOverlap <=> (phase = "done" => Torn)
BY DEF TornByOverlap, Torn, Total, Udp, Tcp, Edns

\* What a snapshot in progress may show of some counters.
LEMMA ReportedIs ==
  ASSUME Typed, Window, phase = "loading", NEW K, K \subseteq Counters \ Timing,
         NEW s \in Reported(K)
  PROVE  \A k \in K : s[k] \in snap[k] /\ s[k] \in Nat /\ s[k] <= val[k]
<1>1. \A k \in K : s[k] \in snap[k]
  BY DEF Reported
<1>2. \A k \in K : snap[k] \subseteq Nat
  BY DEF Typed
<1> QED  BY <1>1, <1>2 DEF Window

LEMMA SumBelow ==
  ASSUME NEW S, IsFiniteSet(S), NEW f, NEW g,
         \A x \in S : f[x] \in Nat /\ g[x] \in Nat /\ f[x] <= g[x]
  PROVE  SumOf(f, S) \in Nat /\ SumOf(g, S) \in Nat /\ SumOf(f, S) <= SumOf(g, S)
<1> DEFINE Q == {T \in SUBSET S : SumOf(f, T) <= SumOf(g, T)}
<1>0. \A T \in SUBSET S : IsFiniteSet(T) /\ SumOf(f, T) \in Nat /\ SumOf(g, T) \in Nat
  <2> SUFFICES ASSUME NEW T \in SUBSET S
               PROVE  IsFiniteSet(T) /\ SumOf(f, T) \in Nat /\ SumOf(g, T) \in Nat
    OBVIOUS
  <2>1. IsFiniteSet(T)
    BY FS_Subset
  <2> QED  BY <2>1, SumNat
<1>1. ASSUME NEW T \in SUBSET S, \A x \in T : T \ {x} \in Q PROVE T \in Q
  <2>1. CASE T = {}
    <3>1. SumOf(f, T) = 0 /\ SumOf(g, T) = 0
      BY <1>0, <2>1, SumStep
    <3> QED  BY <3>1
  <2>2. CASE T # {}
    <3> DEFINE c == Some(T)
    <3>1. c \in T
      BY <2>2 DEF Some
    <3>2. SumOf(f, T) = f[c] + SumOf(f, T \ {c}) /\ SumOf(g, T) = g[c] + SumOf(g, T \ {c})
      BY <1>0, <2>2, SumStep
    <3> HIDE DEF c
    <3>3. SumOf(f, T \ {c}) <= SumOf(g, T \ {c})
      BY <1>1, <3>1
    <3>4. /\ SumOf(f, T \ {c}) \in Nat /\ SumOf(g, T \ {c}) \in Nat
          /\ f[c] \in Nat /\ g[c] \in Nat /\ f[c] <= g[c]
      BY <1>0, <3>1
    <3>5. SumOf(f, T) <= SumOf(g, T)
      BY <3>2, <3>3, <3>4
    <3> QED  BY <3>5
  <2> QED  BY <2>1, <2>2
<1>2. SUBSET S \subseteq Q
  <2> HIDE DEF Q
  <2> QED  BY <1>1, FiniteInduction
<1> QED  BY <1>0, <1>2

LEMMA TornWithin ==
  ASSUME Typed, Counting, Window, phase = "loading"
  PROVE  Torn
<1>1. /\ val[Total] \in Nat /\ val[Udp] \in Nat /\ val[Tcp] \in Nat /\ val[Edns] \in Nat
      /\ val[Total] = val[Udp] + val[Tcp] + Cardinality(Mid(todo, Protocols, {Total}))
      /\ val[Edns] <= val[Udp] + val[Tcp]
      /\ SumOf(val, QTypes) <= val[Total] /\ SumOf(val, QTypes) \in Nat
  BY CountingIs
<1>2. /\ \A v \in snap[Total] : val[Total] + Pending({Total}) <= v + Overlap
      /\ \A u \in snap[Udp], t \in snap[Tcp] :
           val[Udp] + val[Tcp] + Pending(Protocols) <= u + t + Overlap
  BY DEF Window
<1>3. Overlap \in Nat
  BY DEF Typed, Overlap
<1>4. /\ Pending({Total}) \in Nat /\ Pending(Protocols) \in Nat
      /\ Cardinality(Mid(todo, Protocols, {Total})) \in Nat
      /\ Cardinality(Mid(todo, Protocols, {Total})) <= Pending(Protocols)
  <2>1. Mid(todo, Protocols, {Total}) \subseteq Mid(todo, Protocols, {})
    BY DEF Mid, Hits
  <2>2. /\ IsFiniteSet(Mid(todo, Protocols, {})) /\ Pending(Protocols) \in Nat
        /\ Pending({Total}) \in Nat /\ Cardinality(Mid(todo, Protocols, {Total})) \in Nat
    BY MidFinite DEF Pending
  <2>3. Cardinality(Mid(todo, Protocols, {Total})) <= Cardinality(Mid(todo, Protocols, {}))
    BY <2>1, <2>2, FS_Subset
  <2> QED  BY <2>2, <2>3 DEF Pending
<1>5. /\ {Total} \cup Protocols \subseteq Counters \ Timing
      /\ {Total} \cup QTypes \subseteq Counters \ Timing
      /\ {Edns} \cup Protocols \subseteq Counters \ Timing
      /\ Protocols = {Udp, Tcp}
  BY Names, Apart DEF Protocols, Udp, Tcp
<1>6. ASSUME NEW s \in Reported({Total} \cup Protocols)
      PROVE  /\ s[Total] - (s[Udp] + s[Tcp]) <= Overlap
             /\ (s[Udp] + s[Tcp]) - s[Total] <= Overlap
  <2>1. /\ s[Total] \in Nat /\ s[Udp] \in Nat /\ s[Tcp] \in Nat
        /\ s[Total] <= val[Total] /\ s[Udp] <= val[Udp] /\ s[Tcp] <= val[Tcp]
        /\ s[Total] \in snap[Total] /\ s[Udp] \in snap[Udp] /\ s[Tcp] \in snap[Tcp]
    BY <1>5, ReportedIs
  <2>2. /\ val[Total] + Pending({Total}) <= s[Total] + Overlap
        /\ val[Udp] + val[Tcp] + Pending(Protocols) <= s[Udp] + s[Tcp] + Overlap
    BY <1>2, <2>1
  <2> QED  BY <1>1, <1>3, <1>4, <2>1, <2>2
<1>7. ASSUME NEW s \in Reported({Total} \cup QTypes)
      PROVE  SumOf(s, QTypes) - s[Total] <= Overlap
  <2>1. \A k \in {Total} \cup QTypes : s[k] \in snap[k] /\ s[k] \in Nat /\ s[k] <= val[k]
    BY <1>5, ReportedIs
  <2>2. SumOf(s, QTypes) \in Nat /\ SumOf(s, QTypes) <= SumOf(val, QTypes)
    <3>1. \A k \in QTypes : s[k] \in Nat /\ val[k] \in Nat /\ s[k] <= val[k]
      BY <1>5, <2>1 DEF Typed
    <3> QED  BY <3>1, FiniteGroups, SumBelow
  <2>3. s[Total] \in Nat /\ val[Total] + Pending({Total}) <= s[Total] + Overlap
    BY <1>2, <2>1
  <2> QED  BY <1>1, <1>3, <1>4, <2>2, <2>3
<1>8. ASSUME NEW s \in Reported({Edns} \cup Protocols)
      PROVE  s[Edns] - (s[Udp] + s[Tcp]) <= Overlap
  <2>1. /\ s[Edns] \in Nat /\ s[Udp] \in Nat /\ s[Tcp] \in Nat /\ s[Edns] <= val[Edns]
        /\ s[Udp] \in snap[Udp] /\ s[Tcp] \in snap[Tcp]
    BY <1>5, ReportedIs
  <2>2. val[Udp] + val[Tcp] + Pending(Protocols) <= s[Udp] + s[Tcp] + Overlap
    BY <1>2, <2>1
  <2> QED  BY <1>1, <1>3, <1>4, <2>1, <2>2
<1> QED  BY <1>6, <1>7, <1>8 DEF Torn

\* The figures of a report differ by no more than the requests that were being
\* recorded while get_snapshot loaded them, however many handlers there are, in
\* whatever order the loads are done and wherever the updates fall between them.
THEOREM TornOnlyByOverlap == Spec => []TornByOverlap
<1>1. Init => TornByOverlap
  BY DEF Init, TornByOverlap
<1>2. TornByOverlap /\ Typed /\ Counting /\ Window /\ [Next]_vars => TornByOverlap'
  <2> SUFFICES ASSUME TornByOverlap, Typed, Counting, Window, [Next]_vars PROVE TornByOverlap'
    OBVIOUS
  <2> SUFFICES ASSUME phase' = "done" PROVE Torn'
    BY DEF TornByOverlap, Torn, Total, Udp, Tcp, Edns
  <2>1. Torn /\ UNCHANGED <<snap, inflight, begun>>
    BY ReportStays, TornIs, TornWithin
  <2> QED  BY <2>1 DEF Torn, Reported, Overlap
<1> QED  BY <1>1, <1>2, Typing, Counts, Windows, PTL DEF Spec

\* record_latency tells the minimum before the maximum: the minimum is above the
\* maximum only while a handler is between these two updates.
THEOREM ExtremesAreOrdered == Spec => []ExtremesOrdered
BY Extremes, PTL

\* What a report holds.
LEMMA ReportIs ==
  ASSUME NEW r, r = GetMetrics(Snapshot)
  PROVE  /\ \A k \in Plain \cup QTypes : r.counts[k] = Snapshot[k]
         /\ r.avg = Average(Snapshot) /\ r.min = Minimum(Snapshot)
         /\ r.max = Snapshot[Maximal]
         /\ r.per_connection = QueriesPerConnection(Snapshot)
BY DEF GetMetrics, Maximal

\* A report that no request overlaps is of the counters as they are, with no
\* handler in the middle of a request.
LEMMA QuietReport ==
  ASSUME Typed, Window, phase = "loading", Overlap = 0, NEW r, r = GetMetrics(Snapshot)
  PROVE  /\ Busy = {}
         /\ \A k \in Counters : Snapshot[k] = val[k] /\ snap[k] = {Snapshot[k]}
         /\ \A D, C : Cardinality(Mid(todo, D, C)) = 0
         /\ \A k \in Plain \cup QTypes : r.counts[k] = val[k]
<1>1. /\ Cardinality(Busy) <= 0
      /\ \A k \in Counters : snap[k] = {val[k]}
  BY DEF Window
<1>2. Busy = {}
  BY <1>1, BusyFinite, FS_EmptySet
<1>3. \A k \in Counters : Snapshot[k] = val[k] /\ snap[k] = {Snapshot[k]}
  BY <1>1 DEF Snapshot
<1>4. ASSUME NEW D, NEW C PROVE Cardinality(Mid(todo, D, C)) = 0
  <2>1. /\ Cardinality(Mid(todo, D, C)) \in Nat
        /\ Cardinality(Mid(todo, D, C)) <= Cardinality(Busy)
    BY MidBusy
  <2> QED  BY <1>1, <2>1, BusyFinite
<1>5. \A k \in Plain \cup QTypes : r.counts[k] = val[k]
  <2>1. Plain \cup QTypes \subseteq Counters
    BY DEF Counters
  <2> QED  BY <1>3, <2>1, ReportIs
<1> QED  BY <1>2, <1>3, <1>4, <1>5

LEMMA Quotient ==
  ASSUME NEW a \in Nat, NEW b \in Nat, b > 0
  PROVE  /\ a \div b \in Nat /\ a \div b <= a
         /\ (a \div b) * b <= a /\ a < (a \div b) * b + b
<1> DEFINE q == a \div b
           r == a % b
<1>1. q \in Int /\ a = b * q + r /\ 0 <= r /\ r < b /\ r \in Int
  OBVIOUS
<1> HIDE DEF q, r
<1>2. q \in Nat
  <2>1. ASSUME q < 0 PROVE FALSE
    <3>1. q <= -1 /\ b * q <= b * (-1)
      BY <1>1, <2>1
    <3> QED  BY <1>1, <3>1
  <2> QED  BY <1>1, <2>1
<1>3. b * q = q * b /\ q <= b * q
  BY <1>1, <1>2
<1>4. q <= a /\ q * b <= a /\ a < q * b + b
  BY <1>1, <1>2, <1>3
<1> QED  BY <1>2, <1>4 DEF q

\* The requests that are timed.
LEMMA TimedSum ==
  ASSUME Typed
  PROVE  SumOf(val, {Total} \cup Faults) = val[Total] + val["errors"] + val["rate_limited"]
<1>1. val[Total] \in Nat /\ val["errors"] \in Nat /\ val["rate_limited"] \in Nat
  BY Names, Apart DEF Typed
<1> DEFINE S == {Total} \cup Faults
<1>2. SumOf(val, S) = val[Total] + SumOf(val, S \ {Total})
  <2>1. \A x \in S : val[x] \in Nat
    BY <1>1 DEF Faults
  <2>2. IsFiniteSet(S) /\ Total \in S
    BY FiniteGroups
  <2> HIDE DEF S
  <2> QED  BY <2>1, <2>2, SumRemove
<1>3. S \ {Total} = {"errors", "rate_limited"}
  BY DEF Faults, Total
<1>4. SumOf(val, {"errors", "rate_limited"}) = val["errors"] + val["rate_limited"]
  BY <1>1, SumTwo
<1> HIDE DEF S
<1>5. SumOf(val, S) = val[Total] + (val["errors"] + val["rate_limited"])
  BY <1>2, <1>3, <1>4
<1> QED  BY <1>1, <1>5 DEF S

\* What a quiet report adds up to.
LEMMA QuietSums ==
  ASSUME Typed, Counting, Window, phase = "loading", Overlap = 0, NEW r,
         r = GetMetrics(Snapshot)
  PROVE  /\ r.counts[Udp] + r.counts[Tcp] = r.counts[Total]
         /\ SumOf(r.counts, QTypes) <= r.counts[Total]
         /\ SumOf(r.counts, Responses)
              <= r.counts[Total] + r.counts["errors"] + r.counts["rate_limited"]
         /\ r.per_connection <= r.counts[Tcp]
<1>1. /\ \A k \in Counters : Snapshot[k] = val[k]
      /\ \A D, C : Cardinality(Mid(todo, D, C)) = 0
      /\ \A k \in Plain \cup QTypes : r.counts[k] = val[k]
  BY QuietReport
<1>2. /\ r.counts[Total] = val[Total] /\ r.counts[Udp] = val[Udp]
      /\ r.counts[Tcp] = val[Tcp] /\ r.counts["errors"] = val["errors"]
      /\ r.counts["rate_limited"] = val["rate_limited"]
  BY <1>1 DEF Plain, Total, Udp, Tcp
<1>3. Responses \subseteq Plain
  BY DEF Responses, Plain
<1>4. /\ SumOf(r.counts, QTypes) = SumOf(val, QTypes)
      /\ SumOf(r.counts, Responses) = SumOf(val, Responses)
  BY <1>1, <1>3, FiniteGroups, SumSame
<1>5. /\ val[Total] \in Nat /\ val[Udp] \in Nat /\ val[Tcp] \in Nat
      /\ val[Total] = val[Udp] + val[Tcp] + Cardinality(Mid(todo, Protocols, {Total}))
      /\ SumOf(val, QTypes) <= val[Total] /\ SumOf(val, QTypes) \in Nat
  BY CountingIs
<1>6. val[Udp] + val[Tcp] = val[Total]
  BY <1>1, <1>5
<1>7. /\ "errors" \in Counters /\ "rate_limited" \in Counters /\ PerConnection \in Counters
      /\ "tcp_connections" \in Counters /\ Responses \subseteq Counters /\ Tcp \in Counters
  BY Names, Apart DEF Tcp
<1>8. /\ val["errors"] \in Nat /\ val["rate_limited"] \in Nat /\ val[PerConnection] \in Nat
      /\ val["tcp_connections"] \in Nat
  BY <1>7 DEF Typed
<1>9. SumOf(val, {Total} \cup Faults) = val[Total] + val["errors"] + val["rate_limited"]
  BY TimedSum
<1>10. SumOf(val, Responses) <= val[Total] + val["errors"] + val["rate_limited"]
  <2>1. SumOf(val, Responses) \in Nat
    BY <1>7, FiniteGroups, SumNat DEF Typed
  <2>2. SumOf(val, Responses) + Cardinality(Mid(todo, Responses, {Total} \cup Faults))
          <= SumOf(val, {Total} \cup Faults)
    BY DEF Counting, Covers
  <2> QED  BY <1>1, <1>9, <2>1, <2>2
<1>11. val[PerConnection] <= val[Tcp]
  <2>1. SumOf(val, {PerConnection}) = val[PerConnection] /\ SumOf(val, {Tcp}) = val[Tcp]
    BY <1>5, <1>8, SumOne
  <2>2. SumOf(val, {PerConnection}) + Cardinality(Mid(todo, {PerConnection}, {Tcp}))
          <= SumOf(val, {Tcp})
    BY DEF Counting, Covers, Tcp
  <2> QED  BY <1>1, <1>5, <1>8, <2>1, <2>2
<1>12. r.per_connection <= val[Tcp]
  <2>1. r.per_connection = IF val["tcp_connections"] > 0
                           THEN val[PerConnection] \div val["tcp_connections"] ELSE 0
    <3>1. r.per_connection = QueriesPerConnection(Snapshot)
      BY ReportIs
    <3> QED  BY <1>1, <1>7, <3>1 DEF QueriesPerConnection, PerConnection
  <2>2. CASE val["tcp_connections"] > 0
    <3>1. /\ val[PerConnection] \div val["tcp_connections"] \in Nat
          /\ val[PerConnection] \div val["tcp_connections"] <= val[PerConnection]
      BY <1>8, <2>2, Quotient
    <3> QED  BY <1>5, <1>8, <1>11, <2>1, <2>2, <3>1
  <2>3. CASE ~(val["tcp_connections"] > 0)
    BY <1>5, <2>1, <2>3
  <2> QED  BY <2>2, <2>3
<1> QED  BY <1>2, <1>4, <1>5, <1>6, <1>10, <1>12

LEMMA QuietExtremes ==
  ASSUME Typed, Window, ExtremesOrdered, phase = "loading", Overlap = 0, NEW r,
         r = GetMetrics(Snapshot)
  PROVE  /\ r.min \in Nat /\ r.max \in Nat /\ r.min <= r.max /\ r.min <= val[Minimal]
         /\ r.max = val[Maximal]
<1>1. Busy = {} /\ \A k \in Counters : Snapshot[k] = val[k]
  BY QuietReport
<1>2. r.min = Minimum(Snapshot) /\ r.max = Snapshot[Maximal]
  BY ReportIs
<1>3. /\ Minimal \in Counters /\ Maximal \in Counters
      /\ val[Minimal] \in Nat /\ val[Maximal] \in Nat
  BY Names DEF Timing, Typed
<1>4. \A h \in Handlers : todo[h] = <<>>
  BY <1>1 DEF Busy
<1>5. val[Minimal] # U64Max => val[Minimal] <= val[Maximal]
  BY <1>4 DEF ExtremesOrdered, Minimal, Maximal
<1>6. r.min = IF val[Minimal] = U64Max THEN 0 ELSE val[Minimal]
  BY <1>1, <1>2, <1>3 DEF Minimum, Minimal
<1>7. r.max = val[Maximal]
  BY <1>1, <1>2, <1>3
<1> QED  BY <1>3, <1>5, <1>6, <1>7

Exact(r) ==
  /\ r.counts[Udp] + r.counts[Tcp] = r.counts[Total]
  /\ SumOf(r.counts, QTypes) <= r.counts[Total]
  /\ SumOf(r.counts, Responses)
       <= r.counts[Total] + r.counts["errors"] + r.counts["rate_limited"]
  /\ r.min <= r.max
  /\ r.per_connection <= r.counts[Tcp]

Quiet == (\A k \in Counters : snap[k] = {Snapshot[k]}) /\ Exact(GetMetrics(Snapshot))

\* A report of get_snapshot that no record_* call overlaps adds up: protocols to
\* queries, types to at most the queries, responses to at most the requests.
THEOREM QuietIsExact == Spec => []QuietExact
<1>1. Init => QuietExact
  BY DEF Init, QuietExact
<1>2. /\ QuietExact /\ Typed /\ Counting /\ Window /\ MaximumNext /\ ExtremesOrdered
      /\ [Next]_vars
      => QuietExact'
  <2> SUFFICES ASSUME QuietExact, Typed, Counting, Window, ExtremesOrdered, [Next]_vars
               PROVE  QuietExact'
    OBVIOUS
  <2>0. QuietExact <=> (phase = "done" /\ Overlap = 0 => Quiet)
    BY DEF QuietExact, Quiet, Exact, Udp, Tcp, Total
  <2> SUFFICES ASSUME phase' = "done", Overlap' = 0 PROVE Quiet'
    BY DEF QuietExact, Quiet, Exact, Udp, Tcp, Total
  <2>1. UNCHANGED <<snap, inflight, begun>> /\ (phase = "done" \/ phase = "loading")
    BY ReportStays
  <2>2. Overlap = 0
    BY <2>1 DEF Overlap
  <2>3. CASE phase = "done"
    BY <2>0, <2>1, <2>2, <2>3 DEF Quiet, Snapshot
  <2>4. CASE phase = "loading"
    <3> DEFINE r == GetMetrics(Snapshot)
    <3>1. \A k \in Counters : snap[k] = {Snapshot[k]}
      BY <2>2, <2>4, QuietReport
    <3>2. /\ r.counts[Udp] + r.counts[Tcp] = r.counts[Total]
          /\ SumOf(r.counts, QTypes) <= r.counts[Total]
          /\ SumOf(r.counts, Responses)
               <= r.counts[Total] + r.counts["errors"] + r.counts["rate_limited"]
          /\ r.per_connection <= r.counts[Tcp]
      BY <2>2, <2>4, QuietSums
    <3>3. r.min <= r.max
      BY <2>2, <2>4, QuietExtremes
    <3>4. Quiet
      BY <3>1, <3>2, <3>3 DEF Quiet, Exact
    <3> QED  BY <2>1, <3>4 DEF Quiet, Snapshot
  <2> QED  BY <2>1, <2>3, <2>4
<1> QED  BY <1>1, <1>2, Typing, Counts, Windows, Extremes, PTL DEF Spec

LEMMA QuotientWithin ==
  ASSUME NEW lat \in Nat, NEW n \in Nat, n > 0, NEW lo \in Nat, NEW hi \in Nat,
         n * lo <= lat, lat <= n * hi
  PROVE  lo <= lat \div n /\ lat \div n <= hi
<1> DEFINE q == lat \div n
<1>1. q \in Nat /\ q * n <= lat /\ lat < q * n + n
  BY Quotient
<1> HIDE DEF q
<1>2. n * lo < (q + 1) * n /\ q * n <= n * hi
  <2>1. (q + 1) * n = q * n + n /\ q * n \in Int /\ n * lo \in Int /\ n * hi \in Int
    BY <1>1
  <2> QED  BY <1>1, <2>1
<1>3. lo < q + 1
  <2>1. ASSUME q + 1 <= lo PROVE FALSE
    <3>1. (q + 1) * n <= lo * n /\ lo * n = n * lo
      BY <1>1, <2>1
    <3>2. (q + 1) * n \in Int /\ lo * n \in Int
      BY <1>1
    <3> QED  BY <1>2, <3>1, <3>2
  <2> QED  BY <1>1, <2>1
<1>4. q <= hi
  <2>1. ASSUME hi + 1 <= q PROVE FALSE
    <3>1. (hi + 1) * n <= q * n /\ (hi + 1) * n = n * hi + n
      BY <1>1, <2>1
    <3>2. q * n \in Int /\ n * hi \in Int
      BY <1>1
    <3> QED  BY <1>2, <3>1, <3>2
  <2> QED  BY <1>1, <2>1
<1>5. lo <= q
  BY <1>1, <1>3
<1> QED  BY <1>4, <1>5 DEF q

LEMMA SnapshotNat ==
  ASSUME Typed, Window, phase = "loading", NEW k \in Counters
  PROVE  Snapshot[k] \in Nat
<1>1. snap[k] # {} /\ snap[k] \subseteq Nat
  BY DEF Window, Typed
<1> QED  BY <1>1 DEF Snapshot

Within(r) ==
  /\ r.avg <= r.max
  /\ SumOf(r.counts, Responses) = r.counts[Total] => r.min <= r.avg

\* The reports AverageWithin is about.
Faultless(r) ==
  Overlap + r.counts["errors"] + r.counts["rate_limited"] = 0 /\ r.counts[Total] > 0

\* The average of a quiet report is at most its maximum if no request was timed that
\* is no query, and at least its minimum if all queries were answered: get_snapshot
\* divides the latencies of all requests by the number of queries.
THEOREM AverageIsWithin == Spec => []AverageWithin
<1>1. Init => AverageWithin
  BY DEF Init, AverageWithin
<1>2. /\ AverageWithin /\ Typed /\ LatencyWithin /\ Window /\ MaximumNext /\ ExtremesOrdered
      /\ [Next]_vars
      => AverageWithin'
  <2> SUFFICES ASSUME AverageWithin, Typed, LatencyWithin, Window, ExtremesOrdered, [Next]_vars
               PROVE  AverageWithin'
    OBVIOUS
  <2> DEFINE r == GetMetrics(Snapshot)
  <2>0. AverageWithin <=> (phase = "done" => (Faultless(r) => Within(r)))
    BY DEF AverageWithin, Within, Faultless, Total
  <2> SUFFICES ASSUME phase' = "done" PROVE (Faultless(r) => Within(r))'
    BY DEF AverageWithin, Within, Faultless, Total
  <2>1. UNCHANGED <<snap, inflight, begun>> /\ (phase = "done" \/ phase = "loading")
    BY ReportStays
  <2>2. r' = r /\ (Faultless(r)' <=> Faultless(r)) /\ (Within(r)' <=> Within(r))
    BY <2>1 DEF Snapshot, Faultless, Within, Overlap
  <2> SUFFICES ASSUME phase = "loading", Faultless(r) PROVE Within(r)
    BY <2>0, <2>1, <2>2
  <2> HIDE DEF r
  <2>3. Within(r)
    <3>1. /\ \A k \in Plain \cup QTypes : r.counts[k] = Snapshot[k]
          /\ r.avg = Average(Snapshot)
      BY ReportIs DEF r
    <3>2. /\ Total \in Counters /\ "errors" \in Counters /\ "rate_limited" \in Counters
          /\ Latency \in Counters /\ Minimal \in Counters /\ Maximal \in Counters
      BY Names, Apart DEF Timing
    <3>3. /\ r.counts["errors"] = Snapshot["errors"] /\ r.counts[Total] = Snapshot[Total]
          /\ r.counts["rate_limited"] = Snapshot["rate_limited"]
      BY <3>1 DEF Plain, Total
    <3>4. Overlap = 0 /\ Snapshot["errors"] = 0 /\ Snapshot["rate_limited"] = 0
      <4>1. Snapshot["errors"] \in Nat /\ Snapshot["rate_limited"] \in Nat
        BY <3>2, SnapshotNat
      <4>2. Overlap \in Nat /\ Overlap + Snapshot["errors"] + Snapshot["rate_limited"] = 0
        BY <3>3 DEF Typed, Overlap, Faultless
      <4> QED  BY <4>1, <4>2
    <3>5. /\ Busy = {} /\ \A k \in Counters : Snapshot[k] = val[k]
          /\ \A D, C : Cardinality(Mid(todo, D, C)) = 0
      BY <3>4, QuietReport DEF r
    <3>6. /\ r.min \in Nat /\ r.max \in Nat /\ r.min <= val[Minimal] /\ r.max = val[Maximal]
      BY <3>4, QuietExtremes DEF r
    <3>7. /\ val[Total] \in Nat /\ val[Latency] \in Nat /\ val[Minimal] \in Nat
          /\ val["errors"] = 0 /\ val["rate_limited"] = 0 /\ val[Total] > 0
      BY <3>2, <3>3, <3>4, <3>5 DEF Typed, Faultless
    <3>8. SumOf(val, {Total} \cup Faults) = val[Total] /\ SumOf(val, Faults) = 0
      <4>1. SumOf(val, {Total} \cup Faults) = val[Total] + val["errors"] + val["rate_limited"]
        BY TimedSum
      <4>2. SumOf(val, Faults) = 0
        BY <3>7, FiniteGroups, ZeroSum DEF Faults
      <4> QED  BY <3>7, <4>1, <4>2
    <3>9. /\ Timed({Total} \cup Faults) = val[Total]
          /\ SumOf(r.counts, Responses) = r.counts[Total] => Timed(Responses) = val[Total]
      <4>1. /\ Cardinality(Mid(todo, {Latency}, Responses)) = 0
            /\ Cardinality(Mid(todo, {Latency}, {Total} \cup Faults)) = 0
        BY <3>5
      <4>2. SumOf(r.counts, Responses) = SumOf(val, Responses)
        <5>1. \A k \in Responses : k \in Plain
          BY DEF Responses, Plain
        <5>2. \A k \in Responses : r.counts[k] = val[k]
          BY <3>1, <3>5, <5>1, Names
        <5> QED  BY <5>2, FiniteGroups, SumSame
      <4> QED  BY <3>2, <3>3, <3>5, <3>7, <3>8, <4>1, <4>2 DEF Timed
    <3>10. \A h \in Handlers : ToSet(todo[h]) = {}
      BY <3>5 DEF Busy, ToSet
    <3>11. Below(r.min) /\ Above(r.max)
      <4>1. val[Maximal] <= r.max
        BY <3>6
      <4> QED  BY <3>6, <3>10, <4>1 DEF Below, Above
    <3>12. /\ val[Latency] <= val[Total] * r.max
           /\ SumOf(r.counts, Responses) = r.counts[Total] => val[Total] * r.min <= val[Latency]
      BY <3>6, <3>8, <3>9, <3>11 DEF LatencyWithin
    <3>13. r.avg = val[Latency] \div val[Total]
      BY <3>1, <3>2, <3>5, <3>7 DEF Average, Total, Latency
    <3>14. r.avg <= r.max
      <4>1. 0 \in Nat /\ val[Total] * 0 <= val[Latency]
        BY <3>7
      <4> QED  BY <3>6, <3>7, <3>12, <3>13, <4>1, QuotientWithin
    <3>15. SumOf(r.counts, Responses) = r.counts[Total] => r.min <= r.avg
      BY <3>6, <3>7, <3>12, <3>13, QuotientWithin
    <3> QED  BY <3>14, <3>15 DEF Within
  <2> QED  BY <2>3
<1> QED  BY <1>1, <1>2, Typing, Timings, Windows, Extremes, PTL DEF Spec
=============================================================================
