--------------------------- MODULE ZoneFileProofs ---------------------------
(***************************************************************************)
(* Proofs about ZoneFile for every set of files, of any length: a line and *)
(* its words are read as the reference reads them, so the lines put        *)
(* together are the entries of the file and the records kept are theirs.   *)
(***************************************************************************)
EXTENDS ZoneFile, SequenceTheorems, FiniteSetTheorems, WellFoundedInduction, TLAPS

-----------------------------------------------------------------------------
(* Recursive functions *)

\* A set of natural numbers that is not empty has a least one.
LEMMA LeastNumber ==
  ASSUME NEW T, T \subseteq Nat, T # {}
  PROVE  \E x \in T : \A y \in T : x <= y
<1>1. IsWellFoundedOn(OpToRel(<, Nat), Nat)
  BY NatLessThanWellFounded
<1>2. PICK x \in T : \A y \in T : ~(<<y, x>> \in OpToRel(<, Nat))
  BY <1>1, WFMin
<1>3. \A y \in T : ~(y < x)
  BY <1>2 DEF OpToRel
<1> QED  BY <1>3

\* A function on 0 .. n that begins with `base' and takes the k-th step at k.
Iterates(f, base, step, n, S) ==
  /\ f \in [0 .. n -> S]
  /\ f[0] = base
  /\ \A k \in 1 .. n : f[k] = step[k][f[k - 1]]

\* Every sequence of steps can be taken from every base.
LEMMA IterationExists ==
  ASSUME NEW S, NEW n \in Nat, NEW base \in S, NEW step \in [1 .. n -> [S -> S]]
  PROVE  \E f : Iterates(f, base, step, n, S)
<1> DEFINE bad == {m \in 0 .. n : ~\E f : Iterates(f, base, step, m, S)}
<1> SUFFICES ASSUME bad # {} PROVE FALSE
  <2>1. n \in 0 .. n
    OBVIOUS
  <2> QED  BY <2>1
<1>1. PICK m \in bad : \A y \in bad : m <= y
  <2>1. bad \subseteq Nat
    OBVIOUS
  <2> HIDE DEF bad
  <2> QED  BY <2>1, LeastNumber
<1>2. m \in 0 .. n /\ ~\E f : Iterates(f, base, step, m, S)
  OBVIOUS
<1>3. m # 0
  <2> DEFINE f0 == [k \in 0 .. 0 |-> base]
  <2>1. f0 \in [0 .. 0 -> S] /\ f0[0] = base /\ 1 .. 0 = {}
    OBVIOUS
  <2>2. Iterates(f0, base, step, 0, S)
    BY <2>1 DEF Iterates
  <2> HIDE DEF f0
  <2> QED  BY <1>2, <2>2
<1>4. PICK g : Iterates(g, base, step, m - 1, S)
  <2>1. m - 1 \in 0 .. n /\ ~(m <= m - 1)
    BY <1>2, <1>3
  <2> QED  BY <1>1, <2>1
<1> DEFINE h == [k \in 0 .. m |-> IF k = m THEN step[m][g[m - 1]] ELSE g[k]]
<1>5. m \in 1 .. n /\ m - 1 \in 0 .. m - 1 /\ g[m - 1] \in S /\ g[0] = base
  BY <1>2, <1>3, <1>4 DEF Iterates
<1>6. step[m][g[m - 1]] \in S
  BY <1>5
<1>7. h \in [0 .. m -> S] /\ h[0] = base
  BY <1>4, <1>5, <1>6 DEF Iterates
<1>8. ASSUME NEW k \in 1 .. m PROVE h[k] = step[k][h[k - 1]]
  <2>1. k - 1 \in 0 .. m /\ h[k - 1] = g[k - 1]
    BY <1>5
  <2>2. CASE k = m
    BY <2>1, <2>2
  <2>3. CASE k # m
    <3>1. k \in 1 .. m - 1 /\ h[k] = g[k]
      BY <1>5, <2>3
    <3>2. g[k] = step[k][g[k - 1]]
      BY <1>4, <3>1 DEF Iterates
    <3> QED  BY <2>1, <3>1, <3>2
  <2> QED  BY <2>2, <2>3
<1> HIDE DEF h
<1>9. Iterates(h, base, step, m, S)
  BY <1>7, <1>8 DEF Iterates
<1> QED  BY <1>2, <1>9

\* Two functions that begin alike and go on alike.
Alike(f, g, n) == f[0] = g[0] /\ \A k \in 1 .. n : f[k - 1] = g[k - 1] => f[k] = g[k]

\* Two functions that begin alike and step alike are equal.
LEMMA IterationUnique ==
  ASSUME NEW n \in Nat, NEW f, NEW g, Alike(f, g, n)
  PROVE  \A k \in 0 .. n : f[k] = g[k]
<1> DEFINE bad == {k \in 0 .. n : f[k] # g[k]}
<1> SUFFICES ASSUME bad # {} PROVE FALSE
  OBVIOUS
<1>1. PICK m \in bad : \A y \in bad : m <= y
  <2>1. bad \subseteq Nat
    OBVIOUS
  <2> HIDE DEF bad
  <2> QED  BY <2>1, LeastNumber
<1>2. m \in 1 .. n /\ m - 1 \in 0 .. n /\ ~(m <= m - 1)
  BY DEF Alike
<1>3. f[m - 1] = g[m - 1]
  BY <1>1, <1>2
<1> QED  BY <1>2, <1>3 DEF Alike

-----------------------------------------------------------------------------
(* A sequence without one of its elements *)

WithoutFunction(s, w, f, S) ==
  /\ f \in [0 .. Len(s) -> Seq(S)]
  /\ f[0] = <<>>
  /\ \A i \in 1 .. Len(s) : f[i] = IF s[i] = w THEN f[i - 1] ELSE Append(f[i - 1], s[i])

\* The recursive function by which `Without' is defined exists and is the only one.
LEMMA WithoutIs ==
  ASSUME NEW S, NEW s \in Seq(S), NEW w
  PROVE  \E f : WithoutFunction(s, w, f, S) /\ Without(s, w) = f[Len(s)]
<1> DEFINE n == Len(s)
           step == [i \in 1 .. n |-> [x \in Seq(S) |-> IF s[i] = w THEN x ELSE Append(x, s[i])]]
<1>1. n \in Nat /\ \A i \in 1 .. n : s[i] \in S
  OBVIOUS
<1>2. step \in [1 .. n -> [Seq(S) -> Seq(S)]]
  BY <1>1
<1>3. <<>> \in Seq(S)
  OBVIOUS
<1>4. PICK f : Iterates(f, <<>>, step, n, Seq(S))
  <2> HIDE DEF n, step
  <2> QED  BY <1>1, <1>2, <1>3, IterationExists
<1>5. f \in [0 .. n -> Seq(S)] /\ f[0] = <<>>
  BY <1>4 DEF Iterates
<1>6. ASSUME NEW i \in 1 .. n PROVE f[i] = IF s[i] = w THEN f[i - 1] ELSE Append(f[i - 1], s[i])
  <2>1. f[i - 1] \in Seq(S)
    BY <1>1, <1>5
  <2>2. f[i] = step[i][f[i - 1]]
    BY <1>4 DEF Iterates
  <2> QED  BY <2>1, <2>2
<1> HIDE DEF step
<1>7. f = [i \in 0 .. n |-> IF i = 0 THEN <<>> ELSE IF s[i] = w THEN f[i - 1] ELSE Append(f[i - 1], s[i])]
  <2>1. \A i \in 0 .. n : f[i] = IF i = 0 THEN <<>> ELSE IF s[i] = w THEN f[i - 1] ELSE Append(f[i - 1], s[i])
    <3> SUFFICES ASSUME NEW i \in 0 .. n
                 PROVE  f[i] = IF i = 0 THEN <<>> ELSE IF s[i] = w THEN f[i - 1] ELSE Append(f[i - 1], s[i])
      OBVIOUS
    <3>1. CASE i = 0
      BY <1>5, <3>1
    <3>2. CASE i # 0
      <4>1. i \in 1 .. n
        BY <1>1, <3>2
      <4> QED  BY <1>6, <3>2, <4>1, Zenon
    <3> QED  BY <3>1, <3>2
  <2> HIDE DEF n
  <2> QED  BY <1>5, <2>1
<1> DEFINE rest == CHOOSE g : g = [i \in 0 .. Len(s) |-> IF i = 0 THEN <<>> ELSE IF s[i] = w THEN g[i - 1] ELSE Append(g[i - 1], s[i])]
<1>8. Without(s, w) = rest[n]
  BY DEF Without
<1>9. rest = [i \in 0 .. n |-> IF i = 0 THEN <<>> ELSE IF s[i] = w THEN rest[i - 1] ELSE Append(rest[i - 1], s[i])]
  <2>1. rest = CHOOSE g : g = [i \in 0 .. n |-> IF i = 0 THEN <<>> ELSE IF s[i] = w THEN g[i - 1] ELSE Append(g[i - 1], s[i])]
    OBVIOUS
  <2> HIDE DEF rest, n
  <2> QED  BY <1>7, <2>1, Zenon
<1> HIDE DEF rest
<1>10. \A i \in 0 .. n : rest[i] = f[i]
  <2>1. rest[0] = f[0]
    BY <1>1, <1>5, <1>9
  <2>2. \A k \in 1 .. n : rest[k - 1] = f[k - 1] => rest[k] = f[k]
    <3> SUFFICES ASSUME NEW k \in 1 .. n, rest[k - 1] = f[k - 1] PROVE rest[k] = f[k]
      OBVIOUS
    <3>1. k \in 0 .. n /\ k # 0
      BY <1>1
    <3>2. rest[k] = IF k = 0 THEN <<>> ELSE IF s[k] = w THEN rest[k - 1] ELSE Append(rest[k - 1], s[k])
      <4> HIDE DEF n
      <4> QED  BY <1>9, <3>1
    <3>3. f[k] = IF s[k] = w THEN f[k - 1] ELSE Append(f[k - 1], s[k])
      BY <1>6
    <3> HIDE DEF n
    <3> QED  BY <3>1, <3>2, <3>3, Zenon
  <2>3. n \in Nat
    BY <1>1
  <2> HIDE DEF n
  <2>4. Alike(rest, f, n)
    BY <2>1, <2>2 DEF Alike
  <2> QED  BY <2>3, <2>4, IterationUnique
<1>11. WithoutFunction(s, w, f, S)
  BY <1>5, <1>6 DEF WithoutFunction
<1> QED  BY <1>1, <1>8, <1>10, <1>11

\* Nothing but elements of the sequence remains.
LEMMA WithoutTypes ==
  ASSUME NEW S, NEW w
  PROVE  /\ Without(<<>>, w) = <<>>
         /\ \A s \in Seq(S) : Without(s, w) \in Seq(S)
<1>1. Without(<<>>, w) = <<>>
  <2>1. <<>> \in Seq(S) /\ Len(<<>>) = 0
    OBVIOUS
  <2>2. PICK f : WithoutFunction(<<>>, w, f, S) /\ Without(<<>>, w) = f[Len(<<>>)]
    BY <2>1, WithoutIs
  <2> QED  BY <2>1, <2>2 DEF WithoutFunction
<1>2. ASSUME NEW s \in Seq(S) PROVE Without(s, w) \in Seq(S)
  <2>1. PICK f : WithoutFunction(s, w, f, S) /\ Without(s, w) = f[Len(s)]
    BY WithoutIs
  <2>2. Len(s) \in 0 .. Len(s)
    OBVIOUS
  <2> QED  BY <2>1, <2>2 DEF WithoutFunction
<1> QED  BY <1>1, <1>2

\* The last element is dropped or kept by itself.
LEMMA WithoutAppend ==
  ASSUME NEW S, NEW s \in Seq(S), NEW w, NEW v \in S
  PROVE  Without(Append(s, v), w) = IF v = w THEN Without(s, w) ELSE Append(Without(s, w), v)
<1> DEFINE t == Append(s, v)
           n == Len(s)
<1>1. /\ n \in Nat /\ t \in Seq(S) /\ Len(t) = n + 1 /\ t[n + 1] = v
      /\ \A i \in 1 .. n : t[i] = s[i]
  OBVIOUS
<1> HIDE DEF t
<1>2. PICK f : WithoutFunction(s, w, f, S) /\ Without(s, w) = f[n]
  BY WithoutIs
<1>3. PICK g : WithoutFunction(t, w, g, S) /\ Without(t, w) = g[n + 1]
  BY <1>1, WithoutIs
<1>4. \A k \in 0 .. n : f[k] = g[k]
  <2>1. f[0] = g[0]
    BY <1>2, <1>3 DEF WithoutFunction
  <2>2. \A k \in 1 .. n : f[k - 1] = g[k - 1] => f[k] = g[k]
    <3> SUFFICES ASSUME NEW k \in 1 .. n, f[k - 1] = g[k - 1] PROVE f[k] = g[k]
      OBVIOUS
    <3>1. k \in 1 .. n + 1 /\ t[k] = s[k]
      BY <1>1
    <3>2. g[k] = IF t[k] = w THEN g[k - 1] ELSE Append(g[k - 1], t[k])
      <4>1. k \in 1 .. Len(t)
        BY <1>1, <3>1
      <4> QED  BY <1>3, <4>1 DEF WithoutFunction
    <3>3. f[k] = IF s[k] = w THEN f[k - 1] ELSE Append(f[k - 1], s[k])
      BY <1>2 DEF WithoutFunction
    <3> HIDE DEF n
    <3> QED  BY <3>1, <3>2, <3>3, Zenon
  <2>3. n \in Nat
    BY <1>1
  <2> HIDE DEF n
  <2>4. Alike(f, g, n)
    BY <2>1, <2>2 DEF Alike
  <2> QED  BY <2>3, <2>4, IterationUnique
<1>5. g[n + 1] = IF t[n + 1] = w THEN g[n] ELSE Append(g[n], t[n + 1])
  <2>1. n + 1 \in 1 .. Len(t) /\ (n + 1) - 1 = n
    BY <1>1
  <2>2. g[n + 1] = IF t[n + 1] = w THEN g[(n + 1) - 1] ELSE Append(g[(n + 1) - 1], t[n + 1])
    <3> HIDE DEF n
    <3> QED  BY <1>3, <2>1, Zenon DEF WithoutFunction
  <2> HIDE DEF n
  <2> QED  BY <2>1, <2>2, Zenon
<1>6. f[n] = g[n]
  BY <1>1, <1>4
<1>7. Without(t, w) = IF v = w THEN Without(s, w) ELSE Append(Without(s, w), v)
  <2> HIDE DEF n
  <2> QED  BY <1>1, <1>2, <1>3, <1>5, <1>6, Zenon
<1> QED  BY <1>7 DEF t

\* A prefix grows by one element at a time.
LEMMA PrefixGrows ==
  ASSUME NEW S, NEW s \in Seq(S)
  PROVE  /\ SubSeq(s, 1, 0) = <<>>
         /\ SubSeq(s, 1, Len(s)) = s
         /\ \A i \in 0 .. Len(s) : SubSeq(s, 1, i) \in Seq(S) /\ Len(SubSeq(s, 1, i)) = i
                                   /\ \A j \in 1 .. i : SubSeq(s, 1, i)[j] = s[j]
         /\ \A i \in 1 .. Len(s) : s[i] \in S /\ SubSeq(s, 1, i) = Append(SubSeq(s, 1, i - 1), s[i])
<1>1. ASSUME NEW i \in 0 .. Len(s)
      PROVE  SubSeq(s, 1, i) \in Seq(S) /\ Len(SubSeq(s, 1, i)) = i
             /\ \A j \in 1 .. i : SubSeq(s, 1, i)[j] = s[j]
  OBVIOUS
<1>2. SubSeq(s, 1, 0) = <<>> /\ SubSeq(s, 1, Len(s)) = s
  OBVIOUS
<1>3. ASSUME NEW i \in 1 .. Len(s)
      PROVE  s[i] \in S /\ SubSeq(s, 1, i) = Append(SubSeq(s, 1, i - 1), s[i])
  <2> DEFINE a == SubSeq(s, 1, i)
             b == Append(SubSeq(s, 1, i - 1), s[i])
  <2>1. s[i] \in S
    OBVIOUS
  <2>2. a \in Seq(S) /\ Len(a) = i /\ \A j \in 1 .. i : a[j] = s[j]
    BY <1>1
  <2>3. b \in Seq(S) /\ Len(b) = i /\ \A j \in 1 .. i : b[j] = s[j]
    <3>1. i - 1 \in 0 .. Len(s)
      OBVIOUS
    <3>2. SubSeq(s, 1, i - 1) \in Seq(S) /\ Len(SubSeq(s, 1, i - 1)) = i - 1
          /\ \A j \in 1 .. i - 1 : SubSeq(s, 1, i - 1)[j] = s[j]
      BY <1>1, <3>1
    <3> QED  BY <2>1, <3>2
  <2> HIDE DEF a, b
  <2>4. a = b
    BY <2>2, <2>3
  <2> QED  BY <2>1, <2>4 DEF a, b
<1> QED  BY <1>1, <1>2, <1>3, Zenon

\* A sequence that does not have w stays as it is.
LEMMA WithoutAbsent ==
  ASSUME NEW S, NEW s \in Seq(S), NEW w, \A i \in 1 .. Len(s) : s[i] # w
  PROVE  Without(s, w) = s
<1> DEFINE n == Len(s)
           f == [i \in 0 .. n |-> Without(SubSeq(s, 1, i), w)]
           g == [i \in 0 .. n |-> SubSeq(s, 1, i)]
<1>1. n \in Nat
  OBVIOUS
<1>2. f[0] = g[0]
  <2>1. SubSeq(s, 1, 0) = <<>> /\ Without(<<>>, w) = <<>> /\ 0 \in 0 .. n
    BY <1>1, PrefixGrows, WithoutTypes
  <2> QED  BY <2>1
<1>3. \A k \in 1 .. n : f[k - 1] = g[k - 1] => f[k] = g[k]
  <2> SUFFICES ASSUME NEW k \in 1 .. n, f[k - 1] = g[k - 1] PROVE f[k] = g[k]
    OBVIOUS
  <2>1. k - 1 \in 0 .. n /\ k \in 0 .. n
    BY <1>1
  <2>2. /\ SubSeq(s, 1, k - 1) \in Seq(S) /\ s[k] \in S /\ s[k] # w
        /\ SubSeq(s, 1, k) = Append(SubSeq(s, 1, k - 1), s[k])
    BY <2>1, PrefixGrows
  <2>3. Without(SubSeq(s, 1, k), w) = Append(Without(SubSeq(s, 1, k - 1), w), s[k])
    <3> DEFINE p == SubSeq(s, 1, k - 1)
    <3>1. p \in Seq(S) /\ s[k] \in S /\ s[k] # w
      BY <2>2
    <3> HIDE DEF p
    <3>2. Without(Append(p, s[k]), w) = Append(Without(p, w), s[k])
      BY <3>1, WithoutAppend
    <3> QED  BY <2>2, <3>2, Zenon DEF p
  <2> QED  BY <2>1, <2>2, <2>3
<1>4. \A k \in 0 .. n : f[k] = g[k]
  <2> HIDE DEF f, g, n
  <2>1. Alike(f, g, n)
    BY <1>2, <1>3 DEF Alike
  <2> QED  BY <1>1, <2>1, IterationUnique
<1>5. n \in 0 .. n
  BY <1>1
<1>6. SubSeq(s, 1, Len(s)) = s
  BY PrefixGrows
<1> QED  BY <1>4, <1>5, <1>6

\* An element that is kept stands behind those kept before it.
LEMMA WithoutPlace ==
  ASSUME NEW S, NEW s \in Seq(S), NEW w, NEW i \in 1 .. Len(s), s[i] # w
  PROVE  LET m == Len(Without(SubSeq(s, 1, i - 1), w))
         IN  /\ m + 1 \in 1 .. Len(Without(s, w))
             /\ Without(s, w)[m + 1] = s[i]
             /\ Len(Without(SubSeq(s, 1, i), w)) = m + 1
<1> DEFINE W(j) == Without(SubSeq(s, 1, j), w)
           m == Len(W(i - 1))
           n == Len(s)
           bad == {j \in i .. n : ~(m + 1 \in 1 .. Len(W(j)) /\ W(j)[m + 1] = s[i])}
<1>1. n \in Nat /\ i - 1 \in 0 .. n /\ i \in 0 .. n
  OBVIOUS
<1>2. \A j \in 0 .. n : W(j) \in Seq(S) /\ Len(W(j)) \in Nat
  <2>1. \A j \in 0 .. n : SubSeq(s, 1, j) \in Seq(S)
    BY PrefixGrows
  <2>2. \A j \in 0 .. n : W(j) \in Seq(S)
    BY <2>1, WithoutTypes
  <2> QED  BY <2>2
<1>3. \A j \in 1 .. n : s[j] \in S /\ W(j) = IF s[j] = w THEN W(j - 1) ELSE Append(W(j - 1), s[j])
  <2> SUFFICES ASSUME NEW j \in 1 .. n
               PROVE  s[j] \in S /\ W(j) = IF s[j] = w THEN W(j - 1) ELSE Append(W(j - 1), s[j])
    OBVIOUS
  <2>1. j - 1 \in 0 .. n
    BY <1>1
  <2>2. /\ SubSeq(s, 1, j - 1) \in Seq(S) /\ s[j] \in S
        /\ SubSeq(s, 1, j) = Append(SubSeq(s, 1, j - 1), s[j])
    BY <2>1, PrefixGrows
  <2> DEFINE p == SubSeq(s, 1, j - 1)
  <2>3. p \in Seq(S) /\ s[j] \in S
    BY <2>2
  <2> HIDE DEF n, p
  <2>4. Without(Append(p, s[j]), w) = IF s[j] = w THEN Without(p, w) ELSE Append(Without(p, w), s[j])
    <3>1. CASE s[j] = w
      BY <2>3, <3>1, WithoutAppend
    <3>2. CASE s[j] # w
      BY <2>3, <3>2, WithoutAppend
    <3> QED  BY <3>1, <3>2
  <2> QED  BY <2>2, <2>4, Zenon DEF p
<1> HIDE DEF W, n
<1>4. m \in Nat /\ W(i) = Append(W(i - 1), s[i]) /\ s[i] \in S /\ W(i - 1) \in Seq(S)
  BY <1>1, <1>2, <1>3 DEF n
<1>5. Len(W(i)) = m + 1 /\ W(i)[m + 1] = s[i]
  BY <1>4
<1>6. bad = {}
  <2> SUFFICES ASSUME bad # {} PROVE FALSE
    OBVIOUS
  <2>1. PICK k \in bad : \A y \in bad : k <= y
    <3>1. bad \subseteq Nat
      BY <1>1 DEF n
    <3> HIDE DEF bad
    <3> QED  BY <3>1, LeastNumber
  <2>2. k # i
    BY <1>4, <1>5
  <2>3. k \in i .. n /\ k - 1 \in i .. n /\ k - 1 \in 0 .. n /\ k \in 1 .. n /\ ~(k <= k - 1)
    BY <1>1, <2>2 DEF n
  <2>4. m + 1 \in 1 .. Len(W(k - 1)) /\ W(k - 1)[m + 1] = s[i]
    BY <2>1, <2>3
  <2>5. W(k - 1) \in Seq(S) /\ W(k) \in {W(k - 1), Append(W(k - 1), s[k])} /\ s[k] \in S
    BY <1>2, <1>3, <2>3
  <2>6. m + 1 \in 1 .. Len(W(k)) /\ W(k)[m + 1] = s[i]
    <3> HIDE DEF m
    <3> QED  BY <2>4, <2>5
  <2> QED  BY <2>3, <2>6
<1>7. n \in i .. n /\ W(n) = Without(s, w)
  <2>1. SubSeq(s, 1, Len(s)) = s
    BY PrefixGrows
  <2>2. n \in i .. n
    BY <1>1 DEF n
  <2>3. W(n) = Without(s, w)
    BY <2>1 DEF W, n
  <2> QED  BY <2>2, <2>3
<1>8. m + 1 \in 1 .. Len(W(n)) /\ W(n)[m + 1] = s[i]
  BY <1>6, <1>7
<1> QED  BY <1>5, <1>7, <1>8 DEF W

-----------------------------------------------------------------------------
(* The reference's reading of words and lines *)

ScanStates ==
  [entries : Seq(Seq(STRING)), entry : Seq(STRING), depth : Int, comment : BOOLEAN, quoted : BOOLEAN]

\* A word leads from a state of the reference to another.
LEMMA RfcWordType ==
  ASSUME NEW st \in ScanStates, NEW w \in STRING
  PROVE  RfcWord(st, w) \in ScanStates
<1> DEFINE more == Append(st.entry, w)
<1>1. st.entry \in Seq(STRING) /\ st.depth \in Int /\ <<Blank>> \in Seq(STRING)
  BY ZoneFileAssumption DEF ScanStates
<1>2. more \in Seq(STRING)
  BY <1>1
<1> HIDE DEF more
<1>3. \A q \in BOOLEAN : [st EXCEPT !.entry = more, !.quoted = q] \in ScanStates
  BY <1>2 DEF ScanStates
<1>4. /\ [st EXCEPT !.entry = more, !.quoted = w \notin HalfQuoted] \in ScanStates
      /\ [st EXCEPT !.entry = more, !.quoted = w \in HalfQuoted] \in ScanStates
  <2>1. (w \notin HalfQuoted) \in BOOLEAN /\ (w \in HalfQuoted) \in BOOLEAN
    OBVIOUS
  <2> QED  BY <1>3, <2>1, Zenon
<1>5. [st EXCEPT !.comment = TRUE] \in ScanStates
  BY DEF ScanStates
<1>6. [st EXCEPT !.depth = @ + 1] \in ScanStates /\ [st EXCEPT !.depth = @ - 1] \in ScanStates
  <2>1. st.depth + 1 \in Int /\ st.depth - 1 \in Int
    BY <1>1
  <2>2. \A d \in Int : [st EXCEPT !.depth = d] \in ScanStates
    BY DEF ScanStates
  <2> QED  BY <2>1, <2>2, Zenon
<1>7. [st EXCEPT !.entry = <<Blank>>] \in ScanStates
  BY <1>1 DEF ScanStates
<1> QED  BY <1>4, <1>5, <1>6, <1>7, Zenon DEF RfcWord, more

\* The states after each word of a line, by recursion on the words.
LEMMA RfcWordsIs ==
  ASSUME NEW st \in ScanStates, NEW l \in Seq(STRING)
  PROVE  /\ RfcWords(st, l) \in [0 .. Len(l) -> ScanStates]
         /\ RfcWords(st, l)[0] = [st EXCEPT !.comment = FALSE, !.quoted = FALSE]
         /\ \A k \in 1 .. Len(l) : RfcWords(st, l)[k] = RfcWord(RfcWords(st, l)[k - 1], l[k])
<1> DEFINE n == Len(l)
           base == [st EXCEPT !.comment = FALSE, !.quoted = FALSE]
           step == [k \in 1 .. n |-> [x \in ScanStates |-> RfcWord(x, l[k])]]
           after == RfcWords(st, l)
<1>1. n \in Nat /\ \A k \in 1 .. n : l[k] \in STRING
  OBVIOUS
<1>2. base \in ScanStates
  BY DEF ScanStates
<1>3. step \in [1 .. n -> [ScanStates -> ScanStates]]
  BY <1>1, RfcWordType
<1>4. PICK f : Iterates(f, base, step, n, ScanStates)
  <2> HIDE DEF n, base, step
  <2> QED  BY <1>1, <1>2, <1>3, IterationExists
<1>5. f \in [0 .. n -> ScanStates] /\ f[0] = base
  BY <1>4 DEF Iterates
<1> HIDE DEF base
<1>6. \A k \in 1 .. n : f[k] = RfcWord(f[k - 1], l[k])
  <2> SUFFICES ASSUME NEW k \in 1 .. n PROVE f[k] = RfcWord(f[k - 1], l[k])
    OBVIOUS
  <2>1. f[k - 1] \in ScanStates
    <3>1. k - 1 \in 0 .. n
      BY <1>1
    <3> HIDE DEF n
    <3> QED  BY <1>5, <3>1
  <2>2. f[k] = step[k][f[k - 1]]
    BY <1>4 DEF Iterates
  <2> HIDE DEF n
  <2> QED  BY <2>1, <2>2
<1> HIDE DEF step
<1>7. f = [k \in 0 .. n |-> IF k = 0 THEN base ELSE RfcWord(f[k - 1], l[k])]
  <2>1. \A k \in 0 .. n : f[k] = IF k = 0 THEN base ELSE RfcWord(f[k - 1], l[k])
    <3> HIDE DEF n
    <3> QED  BY <1>1, <1>5, <1>6
  <2> HIDE DEF n
  <2> QED  BY <1>5, <2>1
<1>8. after = [k \in 0 .. n |-> IF k = 0 THEN base ELSE RfcWord(after[k - 1], l[k])]
  <2>1. after = CHOOSE g : g = [k \in 0 .. n |-> IF k = 0 THEN base ELSE RfcWord(g[k - 1], l[k])]
    BY DEF RfcWords, base
  <2> HIDE DEF after, n
  <2> QED  BY <1>7, <2>1, Zenon
<1> HIDE DEF after, n
<1>9. \A k \in 0 .. n : after[k] = f[k]
  <2>1. after[0] = f[0] /\ \A k \in 1 .. n : after[k - 1] = f[k - 1] => after[k] = f[k]
    BY <1>1, <1>5, <1>6, <1>8
  <2>2. Alike(after, f, n)
    BY <2>1 DEF Alike
  <2> QED  BY <1>1, <2>2, IterationUnique
<1>10. after = f
  BY <1>5, <1>8, <1>9
<1> QED  BY <1>5, <1>6, <1>10 DEF after, n, base

\* A line leads from a state of the reference to another.
LEMMA RfcLineType ==
  ASSUME NEW st \in ScanStates, NEW l \in Seq(STRING)
  PROVE  RfcLine(st, l) \in ScanStates
<1> DEFINE end == RfcWords(st, l)[Len(l)]
<1>1. end \in ScanStates
  <2>1. Len(l) \in 0 .. Len(l)
    OBVIOUS
  <2>2. RfcWords(st, l) \in [0 .. Len(l) -> ScanStates]
    BY RfcWordsIs
  <2> QED  BY <2>1, <2>2
<1> HIDE DEF end
<1>2. /\ end.entry \in Seq(STRING) /\ end.entries \in Seq(Seq(STRING)) /\ <<>> \in Seq(STRING)
  BY <1>1 DEF ScanStates
<1>3. Append(end.entries, end.entry) \in Seq(Seq(STRING))
  BY <1>2
<1>4. RfcLine(st, l) = IF end.depth > 0 THEN end
         ELSE [end EXCEPT !.entry = <<>>,
                          !.entries = IF end.entry \in {<<>>, <<Blank>>} THEN @
                                      ELSE Append(@, end.entry)]
  BY DEF RfcLine, end
<1> QED  BY <1>1, <1>2, <1>3, <1>4 DEF ScanStates

\* The states after each line of a file, by recursion on the lines.
LEMMA RfcScanIs ==
  ASSUME NEW lines \in Seq(Seq(STRING))
  PROVE  /\ RfcScan(lines) \in [0 .. Len(lines) -> ScanStates]
         /\ RfcScan(lines)[0] = RfcStart
         /\ \A k \in 1 .. Len(lines) : RfcScan(lines)[k] = RfcLine(RfcScan(lines)[k - 1], lines[k])
<1> DEFINE n == Len(lines)
           step == [k \in 1 .. n |-> [x \in ScanStates |-> RfcLine(x, lines[k])]]
           after == RfcScan(lines)
<1>1. n \in Nat /\ \A k \in 1 .. n : lines[k] \in Seq(STRING)
  OBVIOUS
<1>2. RfcStart \in ScanStates
  BY DEF ScanStates, RfcStart
<1>3. step \in [1 .. n -> [ScanStates -> ScanStates]]
  BY <1>1, RfcLineType
<1>4. PICK f : Iterates(f, RfcStart, step, n, ScanStates)
  <2> HIDE DEF n, step
  <2> QED  BY <1>1, <1>2, <1>3, IterationExists
<1>5. f \in [0 .. n -> ScanStates] /\ f[0] = RfcStart
  BY <1>4 DEF Iterates
<1>6. \A k \in 1 .. n : f[k] = RfcLine(f[k - 1], lines[k])
  <2> SUFFICES ASSUME NEW k \in 1 .. n PROVE f[k] = RfcLine(f[k - 1], lines[k])
    OBVIOUS
  <2>1. f[k - 1] \in ScanStates
    <3>1. k - 1 \in 0 .. n
      BY <1>1
    <3> HIDE DEF n
    <3> QED  BY <1>5, <3>1
  <2>2. f[k] = step[k][f[k - 1]]
    BY <1>4 DEF Iterates
  <2> HIDE DEF n
  <2> QED  BY <2>1, <2>2
<1> HIDE DEF step
<1>7. f = [k \in 0 .. n |-> IF k = 0 THEN RfcStart ELSE RfcLine(f[k - 1], lines[k])]
  <2>1. \A k \in 0 .. n : f[k] = IF k = 0 THEN RfcStart ELSE RfcLine(f[k - 1], lines[k])
    <3> HIDE DEF n
    <3> QED  BY <1>1, <1>5, <1>6
  <2> HIDE DEF n
  <2> QED  BY <1>5, <2>1
<1>8. after = [k \in 0 .. n |-> IF k = 0 THEN RfcStart ELSE RfcLine(after[k - 1], lines[k])]
  <2>1. after = CHOOSE g : g = [k \in 0 .. n |-> IF k = 0 THEN RfcStart ELSE RfcLine(g[k - 1], lines[k])]
    BY DEF RfcScan
  <2> HIDE DEF after, n
  <2> QED  BY <1>7, <2>1, Zenon
<1> HIDE DEF after, n
<1>9. \A k \in 0 .. n : after[k] = f[k]
  <2>1. after[0] = f[0] /\ \A k \in 1 .. n : after[k - 1] = f[k - 1] => after[k] = f[k]
    BY <1>1, <1>5, <1>6, <1>8
  <2>2. Alike(after, f, n)
    BY <2>1 DEF Alike
  <2> QED  BY <1>1, <2>2, IterationUnique
<1>10. after = f
  BY <1>5, <1>8, <1>9
<1> QED  BY <1>5, <1>6, <1>10 DEF after, n

-----------------------------------------------------------------------------
(* One word *)

\* What a word does: within a comment nothing, within quotes it is added to the
\* entry, and elsewhere it may also begin either or change the depth.
LEMMA WordEffect ==
  ASSUME NEW st \in ScanStates, NEW w \in STRING
  PROVE  LET to == RfcWord(st, w)
         IN  /\ to.entries = st.entries
             /\ st.comment => to = st
             /\ ~to.comment => ~st.comment
             /\ ~st.comment /\ st.quoted =>
                  /\ ~to.comment /\ (to.quoted <=> w \notin HalfQuoted)
                  /\ to.depth = st.depth /\ to.entry = Append(st.entry, w)
             /\ ~st.comment /\ ~st.quoted =>
                  /\ to.comment <=> w = Semicolon
                  /\ to.quoted <=> w \in HalfQuoted
                  /\ to.depth = IF w = Open THEN st.depth + 1
                                ELSE IF w = Close THEN st.depth - 1 ELSE st.depth
                  /\ to.entry = IF w \in {Semicolon, Open, Close} THEN st.entry
                                ELSE IF w # Blank THEN Append(st.entry, w)
                                ELSE IF st.depth = 0 /\ st.entry = <<>> THEN <<Blank>> ELSE st.entry
<1> DEFINE to == RfcWord(st, w)
           more == Append(st.entry, w)
<1>1. /\ st = [entries |-> st.entries, entry |-> st.entry, depth |-> st.depth,
               comment |-> st.comment, quoted |-> st.quoted]
      /\ st.comment \in BOOLEAN /\ st.quoted \in BOOLEAN
  BY DEF ScanStates
<1>2. /\ Semicolon \notin HalfQuoted /\ Open \notin HalfQuoted /\ Close \notin HalfQuoted
      /\ Blank \notin HalfQuoted /\ Blank \notin {Open, Close, Semicolon}
  BY ZoneFileAssumption
<1>3. Semicolon # Open /\ Semicolon # Close /\ Open # Close
  BY DEF Semicolon, Open, Close
<1>4. CASE st.comment
  <2>1. to = st
    BY <1>4 DEF RfcWord
  <2> QED  BY <1>4, <2>1
<1>5. CASE ~st.comment /\ st.quoted
  <2>1. to = [st EXCEPT !.entry = more, !.quoted = w \notin HalfQuoted]
    BY <1>5 DEF RfcWord
  <2> HIDE DEF more, to
  <2>2. /\ to.entries = st.entries /\ to.depth = st.depth /\ to.comment = st.comment
        /\ to.entry = more /\ to.quoted = (w \notin HalfQuoted)
    BY <1>1, <2>1
  <2> QED  BY <1>5, <2>2 DEF to, more
<1>6. CASE ~st.comment /\ ~st.quoted
  <2>1. CASE w = Semicolon
    <3>1. to = [st EXCEPT !.comment = TRUE]
      BY <1>2, <1>3, <1>6, <2>1 DEF RfcWord
    <3>2. /\ to.entries = st.entries /\ to.depth = st.depth /\ to.comment
          /\ to.entry = st.entry /\ to.quoted = st.quoted
      <4> HIDE DEF to
      <4> QED  BY <1>1, <3>1
    <3> QED  BY <1>2, <1>3, <1>6, <2>1, <3>2
  <2>2. CASE w = Open
    <3>1. to = [st EXCEPT !.depth = @ + 1]
      BY <1>2, <1>3, <1>6, <2>2 DEF RfcWord
    <3>2. /\ to.entries = st.entries /\ to.depth = st.depth + 1 /\ to.comment = st.comment
          /\ to.entry = st.entry /\ to.quoted = st.quoted
      <4> HIDE DEF to
      <4> QED  BY <1>1, <3>1
    <3> QED  BY <1>2, <1>3, <1>6, <2>2, <3>2
  <2>3. CASE w = Close
    <3>1. to = [st EXCEPT !.depth = @ - 1]
      BY <1>2, <1>3, <1>6, <2>3 DEF RfcWord
    <3>2. /\ to.entries = st.entries /\ to.depth = st.depth - 1 /\ to.comment = st.comment
          /\ to.entry = st.entry /\ to.quoted = st.quoted
      <4> HIDE DEF to
      <4> QED  BY <1>1, <3>1
    <3> QED  BY <1>2, <1>3, <1>6, <2>3, <3>2
  <2>4. CASE w = Blank
    <3>1. to = IF st.depth = 0 /\ st.entry = <<>> THEN [st EXCEPT !.entry = <<Blank>>] ELSE st
      BY <1>2, <1>6, <2>4 DEF RfcWord
    <3>2. /\ to.entries = st.entries /\ to.depth = st.depth /\ to.comment = st.comment
          /\ to.entry = IF st.depth = 0 /\ st.entry = <<>> THEN <<Blank>> ELSE st.entry
          /\ to.quoted = st.quoted
      <4> HIDE DEF to
      <4> QED  BY <1>1, <3>1
    <3> QED  BY <1>2, <1>3, <1>6, <2>4, <3>2
  <2>5. CASE w \notin {Semicolon, Open, Close, Blank}
    <3>1. to = [st EXCEPT !.entry = more, !.quoted = w \in HalfQuoted]
      BY <1>6, <2>5 DEF RfcWord
    <3> HIDE DEF more, to
    <3>2. /\ to.entries = st.entries /\ to.depth = st.depth /\ to.comment = st.comment
          /\ to.entry = more /\ to.quoted = (w \in HalfQuoted)
      BY <1>1, <3>1
    <3> QED  BY <1>2, <1>3, <1>6, <2>5, <3>2 DEF to, more
  <2> QED  BY <2>1, <2>2, <2>3, <2>4, <2>5
<1> QED  BY <1>1, <1>4, <1>5, <1>6

-----------------------------------------------------------------------------
(* Comments, quotes and leading white space *)

\* Leading white space is trimmed once, wherever the line is cut.
LEMMA TrimAppend ==
  ASSUME NEW S, NEW x \in Seq(S), NEW w \in S, x = <<>> => w # Blank
  PROVE  Trim(x) \in Seq(S) /\ Trim(Append(x, w)) = Append(Trim(x), w)
<1> DEFINE y == Append(x, w)
<1>1. /\ y \in Seq(S) /\ Len(y) = Len(x) + 1 /\ y # <<>>
      /\ y[Len(x) + 1] = w /\ \A i \in 1 .. Len(x) : y[i] = x[i]
  BY AppendProperties
<1> HIDE DEF y
<1>0. Len(x) \in Nat /\ (x # <<>> => Len(x) >= 1)
  BY EmptySeq
<1>2. CASE x = <<>>
  <2>1. y = <<w>> /\ y[1] = w /\ Trim(x) = x
    BY <1>1, <1>2 DEF Trim, y
  <2>2. Trim(y) = y
    BY <1>2, <2>1 DEF Trim
  <2> QED  BY <2>1, <2>2 DEF y
<1>3. CASE x # <<>>
  <2>1. Len(x) >= 1 /\ y[1] = x[1]
    BY <1>0, <1>1, <1>3
  <2>2. CASE x[1] = Blank
    <3>1. Trim(x) = Tail(x) /\ Trim(y) = Tail(y)
      BY <1>1, <1>3, <2>1, <2>2 DEF Trim
    <3>2. Tail(x) \in Seq(S) /\ Len(Tail(x)) = Len(x) - 1 /\ \A i \in 1 .. Len(x) - 1 : Tail(x)[i] = x[i + 1]
      BY <1>3, HeadTailProperties
    <3>3. Tail(y) \in Seq(S) /\ Len(Tail(y)) = Len(x) /\ \A i \in 1 .. Len(x) : Tail(y)[i] = y[i + 1]
      <4>1. /\ Tail(y) \in Seq(S) /\ Len(Tail(y)) = Len(y) - 1
            /\ \A i \in 1 .. Len(y) - 1 : Tail(y)[i] = y[i + 1]
        BY <1>1, HeadTailProperties
      <4> QED  BY <1>0, <1>1, <4>1
    <3> DEFINE a == Tail(y)
               b == Append(Tail(x), w)
    <3>6. b \in Seq(S) /\ Len(b) = Len(x) /\ b[Len(x)] = w /\ \A i \in 1 .. Len(x) - 1 : b[i] = x[i + 1]
      <4> DEFINE z == Tail(x)
      <4>1. z \in Seq(S) /\ Len(z) = Len(x) - 1
        BY <3>2
      <4>2. /\ Append(z, w) \in Seq(S) /\ Len(Append(z, w)) = Len(z) + 1
            /\ Append(z, w)[Len(z) + 1] = w /\ \A i \in 1 .. Len(z) : Append(z, w)[i] = z[i]
        <5> HIDE DEF z
        <5> QED  BY <4>1, AppendProperties
      <4>3. b = Append(z, w)
        OBVIOUS
      <4> HIDE DEF z, b
      <4>4. Len(b) = Len(x) /\ Len(z) + 1 = Len(x)
        BY <1>0, <4>1, <4>2, <4>3
      <4>5. \A i \in 1 .. Len(x) - 1 : b[i] = x[i + 1]
        BY <3>2, <4>1, <4>2, <4>3 DEF z
      <4>6. b \in Seq(S) /\ b[Len(x)] = w
        BY <4>2, <4>3, <4>4
      <4> QED  BY <4>4, <4>5, <4>6
    <3>7. \A i \in 1 .. Len(x) : a[i] = b[i]
      <4> SUFFICES ASSUME NEW i \in 1 .. Len(x) PROVE a[i] = b[i]
        OBVIOUS
      <4>1. CASE i = Len(x)
        <5>1. a[i] = y[i + 1]
          BY <3>3
        <5> QED  BY <1>1, <3>6, <4>1, <5>1
      <4>2. CASE i # Len(x)
        <5>1. i \in 1 .. Len(x) - 1 /\ i + 1 \in 1 .. Len(x)
          BY <1>0, <4>2
        <5>2. a[i] = y[i + 1] /\ y[i + 1] = x[i + 1] /\ b[i] = x[i + 1]
          BY <1>1, <3>3, <3>6, <5>1
        <5> QED  BY <5>2
      <4> QED  BY <4>1, <4>2
    <3>8. a \in Seq(S) /\ Len(a) = Len(b)
      BY <3>3, <3>6
    <3> HIDE DEF a, b, y
    <3>9. a = b
      BY <3>6, <3>7, <3>8
    <3> QED  BY <3>1, <3>2, <3>9 DEF a, b, y
  <2>3. CASE x[1] # Blank
    <3>1. Trim(y) = y /\ Trim(x) = x
      BY <2>1, <2>3 DEF Trim
    <3> QED  BY <3>1 DEF y
  <2> QED  BY <2>2, <2>3
<1> QED  BY <1>2, <1>3

\* The first n words of a line are those before its comment.
CodeEnds(l, n) ==
  /\ n \in 0 .. Len(l) /\ StripComment(l) = SubSeq(l, 1, n)
  /\ \/ n = Len(l) /\ ~Contains(l, Semicolon)
     \/ n = Len(l) /\ Contains(l, Semicolon) /\ Quotes(BeforeSemicolon(l)) % 2 = 1
     \/ /\ n < Len(l) /\ l[n + 1] = Semicolon /\ \A i \in 1 .. n : l[i] # Semicolon
        /\ Quotes(SubSeq(l, 1, n)) % 2 # 1

\* StripComment keeps a prefix: the whole line, or the words before the first
\* semicolon.
LEMMA CodeEndsSomewhere ==
  ASSUME NEW l \in Seq(STRING)
  PROVE  \E n : CodeEnds(l, n)
<1>1. Len(l) \in Nat /\ Len(l) \in 0 .. Len(l) /\ SubSeq(l, 1, Len(l)) = l /\ DOMAIN l = 1 .. Len(l)
  BY PrefixGrows
<1>2. CASE ~Contains(l, Semicolon) \/ Quotes(BeforeSemicolon(l)) % 2 = 1
  <2>1. StripComment(l) = l
    BY <1>2 DEF StripComment
  <2>2. CodeEnds(l, Len(l))
    BY <1>1, <1>2, <2>1 DEF CodeEnds
  <2> QED  BY <2>2
<1>3. CASE Contains(l, Semicolon) /\ Quotes(BeforeSemicolon(l)) % 2 # 1
  <2> DEFINE at == {i \in DOMAIN l : l[i] = Semicolon}
             p == CHOOSE i \in at : \A j \in at : i <= j
  <2>1. at # {}
    BY <1>1, <1>3 DEF Contains
  <2>2. at \subseteq Nat
    BY <1>1
  <2>3. p \in at /\ \A j \in at : p <= j
    <3> HIDE DEF at
    <3>1. \E i \in at : \A j \in at : i <= j
      BY <2>1, <2>2, LeastNumber
    <3> QED  BY <3>1
  <2>4. BeforeSemicolon(l) = SubSeq(l, 1, p - 1)
    BY DEF BeforeSemicolon
  <2> HIDE DEF p
  <2>5. p \in 1 .. Len(l) /\ l[p] = Semicolon
    BY <1>1, <2>3
  <2>6. \A i \in 1 .. p - 1 : l[i] # Semicolon
    <3> SUFFICES ASSUME NEW i \in 1 .. p - 1, l[i] = Semicolon PROVE FALSE
      OBVIOUS
    <3>1. i \in DOMAIN l /\ ~(p <= i)
      BY <1>1, <2>5
    <3> QED  BY <2>3, <3>1
  <2>7. StripComment(l) = SubSeq(l, 1, p - 1)
    BY <1>3, <2>4 DEF StripComment
  <2>8. p - 1 \in 0 .. Len(l) /\ p - 1 < Len(l) /\ (p - 1) + 1 = p
    BY <1>1, <2>5
  <2>9. CodeEnds(l, p - 1)
    BY <1>3, <2>4, <2>5, <2>6, <2>7, <2>8 DEF CodeEnds
  <2> QED  BY <2>9
<1> QED  BY <1>2, <1>3

HalfQuotes(l, k) == {i \in 1 .. k : l[i] \in HalfQuoted}

\* Quotes of a prefix counts its half quoted words.
LEMMA QuotesOfPrefix ==
  ASSUME NEW l \in Seq(STRING), NEW k \in 0 .. Len(l)
  PROVE  /\ Quotes(SubSeq(l, 1, k)) = Cardinality(HalfQuotes(l, k))
         /\ IsFiniteSet(HalfQuotes(l, k)) /\ Cardinality(HalfQuotes(l, k)) \in Nat
<1> DEFINE p == SubSeq(l, 1, k)
<1>1. p \in Seq(STRING) /\ Len(p) = k /\ \A j \in 1 .. k : p[j] = l[j]
  BY PrefixGrows
<1> HIDE DEF p
<1>2. DOMAIN p = 1 .. k
  BY <1>1
<1>3. {i \in DOMAIN p : p[i] \in HalfQuoted} = HalfQuotes(l, k)
  BY <1>1, <1>2 DEF HalfQuotes
<1>4. IsFiniteSet(HalfQuotes(l, k)) /\ Cardinality(HalfQuotes(l, k)) \in Nat
  <2>1. k \in Nat /\ IsFiniteSet(1 .. k)
    BY FS_Interval
  <2>2. HalfQuotes(l, k) \subseteq 1 .. k
    BY DEF HalfQuotes
  <2>3. IsFiniteSet(HalfQuotes(l, k))
    BY <2>1, <2>2, FS_Subset
  <2> QED  BY <2>3, FS_CardinalityType
<1> QED  BY <1>3, <1>4 DEF Quotes, p

\* A half quoted word adds one to the count.
LEMMA QuotesGrow ==
  ASSUME NEW l \in Seq(STRING), NEW k \in 1 .. Len(l)
  PROVE  Cardinality(HalfQuotes(l, k)) =
           Cardinality(HalfQuotes(l, k - 1)) + (IF l[k] \in HalfQuoted THEN 1 ELSE 0)
<1>1. k - 1 \in 0 .. Len(l) /\ k \notin HalfQuotes(l, k - 1)
  BY DEF HalfQuotes
<1>2. IsFiniteSet(HalfQuotes(l, k - 1)) /\ Cardinality(HalfQuotes(l, k - 1)) \in Nat
  BY <1>1, QuotesOfPrefix
<1>3. CASE l[k] \in HalfQuoted
  <2>1. HalfQuotes(l, k) = HalfQuotes(l, k - 1) \cup {k}
    BY <1>3 DEF HalfQuotes
  <2>2. Cardinality(HalfQuotes(l, k - 1) \cup {k}) = Cardinality(HalfQuotes(l, k - 1)) + 1
    BY <1>1, <1>2, FS_AddElement
  <2> QED  BY <1>3, <2>1, <2>2
<1>4. CASE l[k] \notin HalfQuoted
  <2>1. HalfQuotes(l, k) = HalfQuotes(l, k - 1)
    BY <1>4 DEF HalfQuotes
  <2> QED  BY <1>2, <1>4, <2>1
<1> QED  BY <1>3, <1>4

-----------------------------------------------------------------------------
(* One line *)

\* The reference reads a line word by word, from the state before it.
LEMMA ReadWords ==
  ASSUME NEW st \in ScanStates, NEW l \in Seq(STRING)
  PROVE  LET W == RfcWords(st, l)
         IN  /\ Len(l) \in Nat /\ W \in [0 .. Len(l) -> ScanStates]
             /\ ~W[0].comment /\ ~W[0].quoted
             /\ W[0].entry = st.entry /\ W[0].depth = st.depth /\ W[0].entries = st.entries
             /\ \A i \in 1 .. Len(l) : /\ i - 1 \in 0 .. Len(l) /\ W[i - 1] \in ScanStates
                                       /\ l[i] \in STRING /\ W[i] = RfcWord(W[i - 1], l[i])
<1> DEFINE W == RfcWords(st, l)
<1>1. Len(l) \in Nat
  OBVIOUS
<1>2. W \in [0 .. Len(l) -> ScanStates]
  BY RfcWordsIs
<1>3. W[0] = [st EXCEPT !.comment = FALSE, !.quoted = FALSE]
  BY RfcWordsIs
<1>4. \A i \in 1 .. Len(l) : W[i] = RfcWord(W[i - 1], l[i])
  BY RfcWordsIs, Zenon
<1> HIDE DEF W
<1>5. /\ ~W[0].comment /\ ~W[0].quoted
      /\ W[0].entry = st.entry /\ W[0].depth = st.depth /\ W[0].entries = st.entries
  BY <1>3 DEF ScanStates
<1>6. \A i \in 1 .. Len(l) : i - 1 \in 0 .. Len(l) /\ l[i] \in STRING
  BY <1>1
<1>7. \A i \in 1 .. Len(l) : W[i - 1] \in ScanStates
  BY <1>2, <1>6
<1> QED  BY <1>1, <1>2, <1>4, <1>5, <1>6, <1>7, Zenon DEF W

\* Nothing ends a comment before its line ends.
LEMMA CommentStays ==
  ASSUME NEW st \in ScanStates, NEW l \in Seq(STRING), NEW k \in 0 .. Len(l)
  PROVE  /\ ~RfcWords(st, l)[k].comment => \A i \in 0 .. k : ~RfcWords(st, l)[i].comment
         /\ RfcWords(st, l)[k].comment => RfcWords(st, l)[Len(l)] = RfcWords(st, l)[k]
<1> DEFINE W == RfcWords(st, l)
           n == Len(l)
<1>1. /\ n \in Nat /\ W \in [0 .. n -> ScanStates]
      /\ \A i \in 1 .. n : W[i] = RfcWord(W[i - 1], l[i]) /\ l[i] \in STRING
  BY ReadWords, Zenon
<1> HIDE DEF W, n
<1>2. \A i \in 1 .. n : /\ W[i - 1].comment => W[i] = W[i - 1]
                        /\ ~W[i].comment => ~W[i - 1].comment
  <2> SUFFICES ASSUME NEW i \in 1 .. n
               PROVE  /\ W[i - 1].comment => W[i] = W[i - 1]
                      /\ ~W[i].comment => ~W[i - 1].comment
    OBVIOUS
  <2>1. i - 1 \in 0 .. n
    BY <1>1
  <2>2. W[i - 1] \in ScanStates /\ l[i] \in STRING /\ W[i] = RfcWord(W[i - 1], l[i])
    BY <1>1, <2>1
  <2> QED  BY <2>2, WordEffect
<1>3. ASSUME ~W[k].comment PROVE \A i \in 0 .. k : ~W[i].comment
  <2> DEFINE bad == {j \in 0 .. k : W[k - j].comment}
  <2>1. bad = {}
    <3> SUFFICES ASSUME bad # {} PROVE FALSE
      OBVIOUS
    <3>1. PICK j \in bad : \A y \in bad : j <= y
      <4>1. bad \subseteq Nat
        OBVIOUS
      <4> HIDE DEF bad
      <4> QED  BY <4>1, LeastNumber
    <3>2. j # 0
      BY <1>3
    <3>3. j - 1 \in 0 .. k /\ ~(j <= j - 1) /\ k - (j - 1) \in 1 .. n /\ (k - (j - 1)) - 1 = k - j
      BY <3>2 DEF n
    <3>4. ~W[k - (j - 1)].comment
      BY <3>1, <3>3
    <3>5. ~W[(k - (j - 1)) - 1].comment
      BY <1>2, <3>3, <3>4
    <3> QED  BY <3>3, <3>5
  <2> SUFFICES ASSUME NEW i \in 0 .. k PROVE ~W[i].comment
    OBVIOUS
  <2>2. k - i \in 0 .. k /\ k - (k - i) = i
    OBVIOUS
  <2> QED  BY <2>1, <2>2
<1>4. ASSUME W[k].comment PROVE W[n] = W[k]
  <2> DEFINE bad == {j \in k .. n : W[j] # W[k]}
  <2>1. bad = {}
    <3> SUFFICES ASSUME bad # {} PROVE FALSE
      OBVIOUS
    <3>1. PICK j \in bad : \A y \in bad : j <= y
      <4>1. bad \subseteq Nat
        BY <1>1
      <4> HIDE DEF bad
      <4> QED  BY <4>1, LeastNumber
    <3>2. j # k
      OBVIOUS
    <3>3. j - 1 \in k .. n /\ ~(j <= j - 1) /\ j \in 1 .. n
      BY <1>1, <3>2
    <3>4. W[j - 1] = W[k]
      BY <3>1, <3>3
    <3>5. W[j] = W[j - 1]
      BY <1>2, <1>4, <3>3, <3>4
    <3> QED  BY <3>4, <3>5
  <2>2. n \in k .. n
    BY <1>1 DEF n
  <2> QED  BY <2>1, <2>2
<1> QED  BY <1>3, <1>4 DEF W, n

\* Within quotes: an odd number of quote marks so far.
LEMMA QuotedMeans ==
  ASSUME NEW st \in ScanStates, NEW l \in Seq(STRING), NEW k \in 0 .. Len(l),
         ~RfcWords(st, l)[k].comment
  PROVE  RfcWords(st, l)[k].quoted <=> Cardinality(HalfQuotes(l, k)) % 2 = 1
<1> DEFINE W == RfcWords(st, l)
           n == Len(l)
           c(i) == Cardinality(HalfQuotes(l, i))
           bad == {i \in 0 .. k : ~(W[i].quoted <=> c(i) % 2 = 1)}
<1>1. /\ n \in Nat /\ W \in [0 .. n -> ScanStates] /\ ~W[0].quoted
      /\ \A i \in 1 .. n : W[i] = RfcWord(W[i - 1], l[i]) /\ l[i] \in STRING
  BY ReadWords, Zenon
<1>2. \A i \in 0 .. k : ~W[i].comment
  BY CommentStays
<1>3. c(0) = 0
  <2>1. HalfQuotes(l, 0) = {}
    BY DEF HalfQuotes
  <2> QED  BY <2>1, FS_EmptySet
<1>4. \A i \in 0 .. n : c(i) \in Nat
  BY QuotesOfPrefix
<1>5. \A i \in 1 .. n : c(i) = c(i - 1) + (IF l[i] \in HalfQuoted THEN 1 ELSE 0)
  BY QuotesGrow
<1> HIDE DEF W, c
<1>6. bad = {}
  <2> SUFFICES ASSUME bad # {} PROVE FALSE
    OBVIOUS
  <2>1. PICK j \in bad : \A y \in bad : j <= y
    <3>1. bad \subseteq Nat
      OBVIOUS
    <3> HIDE DEF bad
    <3> QED  BY <3>1, LeastNumber
  <2>2. j # 0
    BY <1>1, <1>3
  <2>3. j - 1 \in 0 .. k /\ ~(j <= j - 1) /\ j \in 1 .. n /\ j - 1 \in 0 .. n /\ j \in 0 .. k
    BY <1>1, <2>2
  <2>4. W[j - 1].quoted <=> c(j - 1) % 2 = 1
    BY <2>1, <2>3
  <2>5. W[j - 1] \in ScanStates /\ l[j] \in STRING /\ W[j] = RfcWord(W[j - 1], l[j]) /\ ~W[j - 1].comment
    BY <1>1, <1>2, <2>3
  <2>6. W[j].quoted <=> (W[j - 1].quoted <=> l[j] \notin HalfQuoted)
    <3> DEFINE x == W[j - 1]
               w == l[j]
    <3>0. x \in ScanStates /\ w \in STRING /\ W[j] = RfcWord(x, w) /\ ~x.comment
      BY <2>5
    <3> HIDE DEF x, w
    <3>1. CASE x.quoted
      <4>1. RfcWord(x, w).quoted <=> w \notin HalfQuoted
        BY <3>0, <3>1, WordEffect
      <4> QED  BY <3>0, <3>1, <4>1, Zenon DEF x, w
    <3>2. CASE ~x.quoted
      <4>1. RfcWord(x, w).quoted <=> w \in HalfQuoted
        BY <3>0, <3>2, WordEffect
      <4> QED  BY <3>0, <3>2, <4>1, Zenon DEF x, w
    <3> QED  BY <3>1, <3>2, Zenon
  <2>7. W[j].quoted <=> c(j) % 2 = 1
    <3>1. c(j - 1) \in Nat
      BY <1>4, <2>3
    <3>2. c(j) = c(j - 1) + (IF l[j] \in HalfQuoted THEN 1 ELSE 0)
      BY <1>5, <2>3
    <3>3. (c(j - 1) + 1) % 2 = 1 <=> ~(c(j - 1) % 2 = 1)
      BY <3>1
    <3>4. CASE l[j] \in HalfQuoted
      <4>1. c(j) = c(j - 1) + 1
        BY <3>2, <3>4
      <4> QED  BY <2>4, <2>6, <3>3, <3>4, <4>1
    <3>5. CASE l[j] \notin HalfQuoted
      <4>1. c(j) = c(j - 1)
        BY <3>1, <3>2, <3>5
      <4> QED  BY <2>4, <2>6, <3>5, <4>1
    <3> QED  BY <3>4, <3>5
  <2> QED  BY <2>3, <2>7
<1>7. k \in 0 .. k
  OBVIOUS
<1> QED  BY <1>6, <1>7 DEF W, c

\* What ends the code of a line that can be joined is seen as a comment.
LEMMA CodeIsRead ==
  ASSUME NEW st \in ScanStates, NEW l \in Seq(STRING), JoinableLine(st, l),
         NEW n, CodeEnds(l, n)
  PROVE  LET W == RfcWords(st, l)
         IN  /\ \A i \in 0 .. n : ~W[i].comment
             /\ W[Len(l)].entry = W[n].entry /\ W[Len(l)].depth = W[n].depth
             /\ W[Len(l)].entries = W[n].entries
<1> DEFINE W == RfcWords(st, l)
           m == Len(l)
<1>1. /\ m \in Nat /\ n \in 0 .. m /\ W \in [0 .. m -> ScanStates] /\ ~W[0].comment
      /\ \A i \in 1 .. m : W[i] = RfcWord(W[i - 1], l[i]) /\ l[i] \in STRING
  <2>1. n \in 0 .. Len(l)
    BY DEF CodeEnds
  <2> QED  BY <2>1, ReadWords, Zenon
<1>2. \A i \in 1 .. m : W[i].comment /\ ~W[i - 1].comment => l[i] = Semicolon
  <2> SUFFICES ASSUME NEW i \in 1 .. m, W[i].comment, ~W[i - 1].comment PROVE l[i] = Semicolon
    OBVIOUS
  <2>1. i - 1 \in 0 .. m
    BY <1>1
  <2>2. W[i - 1] \in ScanStates /\ l[i] \in STRING /\ W[i] = RfcWord(W[i - 1], l[i])
    BY <1>1, <2>1
  <2> HIDE DEF W
  <2>3. W[i - 1].quoted \/ ~W[i - 1].quoted
    OBVIOUS
  <2> QED  BY <2>2, <2>3, WordEffect
<1>3. ASSUME \A i \in 1 .. n : l[i] # Semicolon PROVE ~W[n].comment
  <2> DEFINE bad == {i \in 0 .. n : W[i].comment}
  <2> SUFFICES ASSUME bad # {} PROVE FALSE
    <3>1. n \in 0 .. n
      BY <1>1
    <3> QED  BY <3>1
  <2>1. PICK j \in bad : \A y \in bad : j <= y
    <3>1. bad \subseteq Nat
      BY <1>1
    <3> HIDE DEF bad
    <3> QED  BY <3>1, LeastNumber
  <2>2. j # 0
    BY <1>1
  <2>3. j - 1 \in 0 .. n /\ ~(j <= j - 1) /\ j \in 1 .. n /\ j \in 1 .. m
    BY <1>1, <2>2
  <2>4. ~W[j - 1].comment
    BY <2>1, <2>3
  <2>5. l[j] = Semicolon
    BY <1>2, <2>3, <2>4
  <2> QED  BY <1>3, <2>3, <2>5
<1>4. CASE n = m /\ ~Contains(l, Semicolon)
  <2>1. \A i \in 1 .. n : l[i] # Semicolon
    BY <1>4 DEF Contains
  <2>2. ~W[n].comment
    BY <1>3, <2>1
  <2>3. \A i \in 0 .. n : ~W[i].comment
    BY <1>1, <2>2, CommentStays
  <2> QED  BY <1>4, <2>3
<1>5. CASE n = m /\ Contains(l, Semicolon) /\ Quotes(BeforeSemicolon(l)) % 2 = 1
  <2>1. ~W[n].comment
    BY <1>5 DEF JoinableLine
  <2>2. \A i \in 0 .. n : ~W[i].comment
    BY <1>1, <2>1, CommentStays
  <2> QED  BY <1>5, <2>2
<1>6. CASE /\ n < m /\ l[n + 1] = Semicolon /\ \A i \in 1 .. n : l[i] # Semicolon
           /\ Quotes(SubSeq(l, 1, n)) % 2 # 1
  <2>1. ~W[n].comment
    BY <1>3, <1>6
  <2>2. \A i \in 0 .. n : ~W[i].comment
    BY <1>1, <2>1, CommentStays
  <2>3. ~W[n].quoted
    <3>1. Quotes(SubSeq(l, 1, n)) = Cardinality(HalfQuotes(l, n))
      BY <1>1, QuotesOfPrefix
    <3> QED  BY <1>1, <1>6, <2>1, <3>1, QuotedMeans
  <2>4. n + 1 \in 1 .. m /\ n + 1 \in 0 .. m /\ (n + 1) - 1 = n
    BY <1>1, <1>6
  <2>5. W[n + 1] = RfcWord(W[n], l[n + 1]) /\ W[n] \in ScanStates /\ l[n + 1] \in STRING
    BY <1>1, <2>4
  <2>6. /\ W[n + 1].comment /\ W[n + 1].entry = W[n].entry /\ W[n + 1].entries = W[n].entries
        /\ W[n + 1].depth = W[n].depth
    <3> HIDE DEF W
    <3>1. Semicolon # Open /\ Semicolon # Close
      BY DEF Semicolon, Open, Close
    <3> DEFINE x == W[n]
    <3>2. x \in ScanStates /\ ~x.comment /\ ~x.quoted /\ Semicolon \in STRING
      BY <1>6, <2>1, <2>3, <2>5
    <3> HIDE DEF x
    <3>3. /\ RfcWord(x, Semicolon).comment /\ RfcWord(x, Semicolon).entry = x.entry
          /\ RfcWord(x, Semicolon).entries = x.entries /\ RfcWord(x, Semicolon).depth = x.depth
      BY <3>1, <3>2, WordEffect
    <3> QED  BY <1>6, <2>5, <3>3, Zenon DEF x
  <2>7. W[m] = W[n + 1]
    BY <2>4, <2>6, CommentStays
  <2> QED  BY <2>2, <2>6, <2>7
<1> QED  BY <1>4, <1>5, <1>6 DEF CodeEnds

\* The words of a line end no entry.
LEMMA EntriesStay ==
  ASSUME NEW st \in ScanStates, NEW l \in Seq(STRING), NEW n \in 0 .. Len(l)
  PROVE  RfcWords(st, l)[n].entries = st.entries
<1> DEFINE W == RfcWords(st, l)
           bad == {i \in 0 .. n : W[i].entries # st.entries}
<1>1. /\ W[0].entries = st.entries
      /\ \A i \in 1 .. Len(l) : /\ W[i - 1] \in ScanStates /\ l[i] \in STRING
                                /\ W[i] = RfcWord(W[i - 1], l[i])
  BY ReadWords, Zenon
<1> HIDE DEF W
<1> SUFFICES ASSUME bad # {} PROVE FALSE
  BY DEF W
<1>2. PICK j \in bad : \A y \in bad : j <= y
  <2>1. bad \subseteq Nat
    OBVIOUS
  <2> HIDE DEF bad
  <2> QED  BY <2>1, LeastNumber
<1>3. j # 0
  BY <1>1
<1>4. j - 1 \in 0 .. n /\ ~(j <= j - 1) /\ j \in 1 .. Len(l)
  BY <1>3
<1>5. W[j - 1].entries = st.entries
  BY <1>2, <1>4
<1>6. W[j].entries = W[j - 1].entries
  <2> DEFINE x == W[j - 1]
             w == l[j]
  <2>1. x \in ScanStates /\ w \in STRING /\ W[j] = RfcWord(x, w)
    BY <1>1, <1>4
  <2> HIDE DEF x, w
  <2>2. RfcWord(x, w).entries = x.entries
    BY <2>1, WordEffect
  <2> QED  BY <2>1, <2>2 DEF x
<1> QED  BY <1>5, <1>6

\* Without a parenthesis outside quotes the depth stays.
LEMMA DepthStays ==
  ASSUME NEW st \in ScanStates, NEW l \in Seq(STRING), NEW n \in 0 .. Len(l),
         \A i \in 1 .. n : l[i] \in {Open, Close} => RfcWords(st, l)[i - 1].quoted
  PROVE  RfcWords(st, l)[n].depth = st.depth
<1> DEFINE W == RfcWords(st, l)
           bad == {i \in 0 .. n : W[i].depth # st.depth}
<1>1. /\ W[0].depth = st.depth
      /\ \A i \in 1 .. Len(l) : /\ W[i - 1] \in ScanStates /\ l[i] \in STRING
                                /\ W[i] = RfcWord(W[i - 1], l[i])
  BY ReadWords, Zenon
<1>0. \A i \in 1 .. n : l[i] \in {Open, Close} => W[i - 1].quoted
  BY Zenon
<1> HIDE DEF W
<1> SUFFICES ASSUME bad # {} PROVE FALSE
  BY DEF W
<1>2. PICK j \in bad : \A y \in bad : j <= y
  <2>1. bad \subseteq Nat
    OBVIOUS
  <2> HIDE DEF bad
  <2> QED  BY <2>1, LeastNumber
<1>3. j # 0
  BY <1>1
<1>4. j - 1 \in 0 .. n /\ ~(j <= j - 1) /\ j \in 1 .. Len(l) /\ j \in 1 .. n
  BY <1>3
<1>5. W[j - 1].depth = st.depth
  BY <1>2, <1>4
<1>6. W[j].depth = W[j - 1].depth
  <2> DEFINE x == W[j - 1]
             w == l[j]
  <2>1. x \in ScanStates /\ w \in STRING /\ W[j] = RfcWord(x, w) /\ (w \in {Open, Close} => x.quoted)
    BY <1>0, <1>1, <1>4
  <2> HIDE DEF x, w
  <2>2. RfcWord(x, w).depth = x.depth
    <3>1. x.comment \in BOOLEAN /\ x.quoted \in BOOLEAN
      BY <2>1 DEF ScanStates
    <3> QED  BY <2>1, <3>1, WordEffect
  <2> QED  BY <2>1, <2>2 DEF x
<1> QED  BY <1>5, <1>6

Associative(a, b, v) == Append(a \o b, v) = a \o Append(b, v)

\* Appending to what is appended.
LEMMA AppendToConcat ==
  ASSUME NEW S, NEW a \in Seq(S), NEW b \in Seq(S), NEW v \in S
  PROVE  Associative(a, b, v)
<1> DEFINE x == Append(a \o b, v)
           y == a \o Append(b, v)
           n == Len(a) + Len(b) + 1
<1>1. x \in Seq(S) /\ Len(x) = n /\ y \in Seq(S) /\ Len(y) = n
  OBVIOUS
<1>2. \A i \in 1 .. n : x[i] = y[i]
  OBVIOUS
<1> HIDE DEF x, y
<1>3. x = y
  BY <1>1, <1>2
<1> QED  BY <1>3 DEF x, y, Associative

\* The words of a line are added to the entry, except a parenthesis that
\* groups and white space at its beginning.
LEMMA WordsAreGathered ==
  ASSUME NEW st \in ScanStates, NEW l \in Seq(STRING), NEW n \in 0 .. Len(l),
         NEW c \in {Open, Close},
         \A j \in 1 .. Len(l) : l[j] = Blank => j = 1,
         st.depth = 0 => st.entry = <<>>,
         \A i \in 0 .. n : ~RfcWords(st, l)[i].comment,
         \A i \in 1 .. n : l[i] \in {Open, Close} => l[i] = c /\ ~RfcWords(st, l)[i - 1].quoted
  PROVE  /\ Trim(RfcWords(st, l)[n].entry) = Trim(st.entry) \o Without(Trim(SubSeq(l, 1, n)), c)
         /\ Trim(st.entry) \in Seq(STRING) /\ Trim(SubSeq(l, 1, n)) \in Seq(STRING)
<1> DEFINE W == RfcWords(st, l)
           P(k) == Trim(SubSeq(l, 1, k))
           E(k) == Trim(W[k].entry)
           F(k) == Trim(st.entry) \o Without(P(k), c)
           bad == {k \in 0 .. n : E(k) # F(k)}
<1>1. /\ W[0].entry = st.entry /\ W[0].depth = st.depth
      /\ \A i \in 1 .. Len(l) : /\ W[i - 1] \in ScanStates /\ l[i] \in STRING
                                /\ W[i] = RfcWord(W[i - 1], l[i])
      /\ W \in [0 .. Len(l) -> ScanStates]
  BY ReadWords, Zenon
<1>2. /\ \A i \in 0 .. n : ~W[i].comment
      /\ \A i \in 1 .. n : l[i] \in {Open, Close} => l[i] = c /\ ~W[i - 1].quoted
  BY Zenon
<1> HIDE DEF W
<1>3. \A x \in Seq(STRING) : Trim(x) \in Seq(STRING)
  <2> SUFFICES ASSUME NEW x \in Seq(STRING) PROVE Trim(x) \in Seq(STRING)
    OBVIOUS
  <2> QED  BY HeadTailProperties DEF Trim
<1>4. st.entry \in Seq(STRING) /\ Trim(st.entry) \in Seq(STRING)
  BY <1>3 DEF ScanStates
<1>5. \A k \in 0 .. n : SubSeq(l, 1, k) \in Seq(STRING) /\ P(k) \in Seq(STRING)
  <2>1. \A k \in 0 .. Len(l) : SubSeq(l, 1, k) \in Seq(STRING)
    BY PrefixGrows
  <2>2. \A k \in 0 .. n : k \in 0 .. Len(l)
    OBVIOUS
  <2> QED  BY <1>3, <2>1, <2>2
<1>6. ASSUME NEW k \in 1 .. n, l[k] # Blank
      PROVE  P(k) = Append(P(k - 1), l[k])
  <2> DEFINE x == SubSeq(l, 1, k - 1)
  <2>1. k - 1 \in 0 .. n /\ k \in 1 .. Len(l)
    OBVIOUS
  <2>2. x \in Seq(STRING) /\ l[k] \in STRING
    BY <1>1, <1>5, <2>1
  <2>3. SubSeq(l, 1, k) = Append(x, l[k])
    BY <2>1, PrefixGrows
  <2> HIDE DEF x
  <2>4. Trim(Append(x, l[k])) = Append(Trim(x), l[k])
    BY <1>6, <2>2, TrimAppend
  <2> QED  BY <2>3, <2>4, Zenon DEF x
<1>7. E(0) = F(0)
  <2>1. SubSeq(l, 1, 0) = <<>>
    BY PrefixGrows
  <2>2. Trim(<<>>) = <<>>
    BY DEF Trim
  <2>3. Without(P(0), c) = <<>>
    BY <2>1, <2>2, WithoutTypes
  <2>4. Trim(st.entry) \o <<>> = Trim(st.entry)
    BY <1>4, ConcatEmptySeq
  <2> QED  BY <1>1, <2>3, <2>4
<1>8. ASSUME NEW k \in 1 .. n, E(k - 1) = F(k - 1)
      PROVE  E(k) = F(k)
  <2> DEFINE x == W[k - 1]
             w == l[k]
  <2>1. k - 1 \in 0 .. n /\ k \in 1 .. Len(l)
    OBVIOUS
  <2>2. /\ x \in ScanStates /\ w \in STRING /\ W[k] = RfcWord(x, w) /\ ~x.comment
        /\ ~RfcWord(x, w).comment /\ x.entry \in Seq(STRING)
        /\ w \in {Open, Close} => w = c /\ ~x.quoted
    <3>1. W[k - 1] \in ScanStates /\ l[k] \in STRING /\ W[k] = RfcWord(W[k - 1], l[k])
      BY <1>1, <2>1
    <3>2. ~W[k - 1].comment /\ ~W[k].comment
      BY <1>2, <2>1
    <3> QED  BY <1>2, <3>1, <3>2 DEF ScanStates
  <2>3. CASE w = Blank
    <3>1. k = 1
      BY <2>1, <2>3
    <3>2. x.entry = st.entry /\ x.depth = st.depth /\ ~x.quoted
      <4>1. ~W[0].quoted
        BY ReadWords DEF W
      <4> QED  BY <1>1, <3>1, <4>1
    <3>3. RfcWord(x, w).entry = IF st.depth = 0 THEN <<Blank>> ELSE st.entry
      <4>1. w \notin {Open, Close, Semicolon}
        BY <2>3, ZoneFileAssumption
      <4> HIDE DEF x, w
      <4> QED  BY <2>2, <2>3, <3>2, <4>1, WordEffect
    <3>4. Trim(<<Blank>>) = <<>> /\ Trim(<<>>) = <<>>
      BY DEF Trim
    <3>5. E(k) = Trim(st.entry)
      BY <2>2, <3>3, <3>4
    <3>6. P(k) = <<>>
      <4>1. SubSeq(l, 1, k) = <<Blank>>
        <5>1. SubSeq(l, 1, 0) = <<>> /\ SubSeq(l, 1, k) = Append(SubSeq(l, 1, k - 1), w)
          BY <2>1, PrefixGrows
        <5>2. SubSeq(l, 1, k - 1) = SubSeq(l, 1, 0)
          BY <3>1
        <5>3. SubSeq(l, 1, k) = Append(<<>>, Blank)
          BY <2>3, <5>1, <5>2, Zenon
        <5>4. Append(<<>>, Blank) = <<Blank>>
          OBVIOUS
        <5> QED  BY <5>3, <5>4, Zenon
      <4> QED  BY <3>4, <4>1
    <3>7. Without(P(k), c) = <<>>
      BY <3>6, WithoutTypes
    <3>8. Trim(st.entry) \o <<>> = Trim(st.entry)
      BY <1>4, ConcatEmptySeq
    <3> QED  BY <3>5, <3>7, <3>8
  <2>4. CASE w # Blank
    <3>1. P(k) = Append(P(k - 1), w) /\ P(k - 1) \in Seq(STRING)
      BY <1>5, <1>6, <2>1, <2>4
    <3> DEFINE p == P(k - 1)
               t == Trim(st.entry)
    <3>2. p \in Seq(STRING) /\ t \in Seq(STRING) /\ P(k) = Append(p, w) /\ F(k) = t \o Without(P(k), c)
          /\ Trim(x.entry) = t \o Without(p, c)
      BY <1>4, <1>8, <3>1
    <3>3. E(k) = Trim(RfcWord(x, w).entry)
      BY <2>2
    <3> HIDE DEF p, t, x, w, P, E, F
    <3>4. CASE w = c
      <4>1. Without(Append(p, w), c) = Without(p, c)
        BY <2>2, <3>2, <3>4, WithoutAppend
      <4>2. RfcWord(x, w).entry = x.entry
        BY <2>2, <3>4, WordEffect
      <4> QED  BY <3>2, <3>3, <4>1, <4>2, Zenon
    <3>5. CASE w # c
      <4>1. Without(Append(p, w), c) = Append(Without(p, c), w)
        BY <2>2, <3>2, <3>5, WithoutAppend
      <4>2. RfcWord(x, w).entry = Append(x.entry, w)
        <5>1. w \notin {Open, Close}
          BY <2>2, <3>5
        <5>2. x.quoted \in BOOLEAN
          BY <2>2 DEF ScanStates
        <5> QED  BY <2>2, <2>4, <5>1, <5>2, WordEffect
      <4>3. Trim(Append(x.entry, w)) = Append(Trim(x.entry), w)
        BY <2>2, <2>4, TrimAppend
      <4>4. Without(p, c) \in Seq(STRING)
        BY <3>2, WithoutTypes
      <4>5. Append(t \o Without(p, c), w) = t \o Append(Without(p, c), w)
        <5>1. Associative(t, Without(p, c), w)
          BY <2>2, <3>2, <4>4, AppendToConcat
        <5> QED  BY <5>1 DEF Associative
      <4> QED  BY <3>2, <3>3, <4>1, <4>2, <4>3, <4>5, Zenon
    <3> QED  BY <3>4, <3>5
  <2> QED  BY <2>3, <2>4
<1> HIDE DEF E, F
<1>9. bad = {}
  <2> SUFFICES ASSUME bad # {} PROVE FALSE
    OBVIOUS
  <2>1. PICK j \in bad : \A y \in bad : j <= y
    <3>1. bad \subseteq Nat
      OBVIOUS
    <3> HIDE DEF bad
    <3> QED  BY <3>1, LeastNumber
  <2>2. j # 0
    BY <1>7
  <2>3. j - 1 \in 0 .. n /\ ~(j <= j - 1) /\ j \in 1 .. n
    BY <2>2
  <2>4. E(j - 1) = F(j - 1)
    BY <2>1, <2>3
  <2> QED  BY <1>8, <2>3, <2>4
<1>10. n \in 0 .. n
  OBVIOUS
<1>11. E(n) = F(n) /\ P(n) \in Seq(STRING)
  BY <1>5, <1>9, <1>10
<1> QED  BY <1>4, <1>11 DEF E, F, W

\* A set of at most one element has no two.
LEMMA AtMostOne ==
  ASSUME NEW A, IsFiniteSet(A), Cardinality(A) <= 1, NEW x \in A, NEW y \in A
  PROVE  x = y
<1> SUFFICES ASSUME x # y PROVE FALSE
  OBVIOUS
<1>1. IsFiniteSet({x}) /\ Cardinality({x}) = 1
  BY FS_Singleton
<1>2. Cardinality({x} \cup {y}) = 2 /\ IsFiniteSet({x} \cup {y})
  BY <1>1, FS_AddElement
<1>3. {x} \cup {y} \subseteq A
  OBVIOUS
<1>4. Cardinality({x} \cup {y}) <= Cardinality(A) /\ Cardinality(A) \in Nat
  BY <1>3, FS_Subset, FS_CardinalityType
<1> QED  BY <1>2, <1>4

\* Trimming finds the same words but white space.
LEMMA TrimKeeps ==
  ASSUME NEW S, NEW s \in Seq(S), NEW c, c # Blank
  PROVE  Contains(Trim(s), c) <=> Contains(s, c)
<1>1. CASE s # <<>> /\ s[1] = Blank
  <2>1. Trim(s) = Tail(s)
    BY <1>1 DEF Trim
  <2>2. /\ Len(s) \in Nat /\ Len(Tail(s)) = Len(s) - 1
        /\ \A i \in 1 .. Len(Tail(s)) : Tail(s)[i] = s[i + 1]
    BY <1>1, HeadTailProperties
  <2>3. ASSUME Contains(s, c) PROVE Contains(Tail(s), c)
    <3>1. PICK i \in 1 .. Len(s) : s[i] = c
      BY <2>3 DEF Contains
    <3>2. i # 1
      BY <1>1, <3>1
    <3>3. i - 1 \in 1 .. Len(Tail(s)) /\ (i - 1) + 1 = i
      BY <2>2, <3>2
    <3>4. Tail(s)[i - 1] = c
      BY <2>2, <3>1, <3>3
    <3> QED  BY <3>3, <3>4 DEF Contains
  <2>4. ASSUME Contains(Tail(s), c) PROVE Contains(s, c)
    <3>1. PICK i \in 1 .. Len(Tail(s)) : Tail(s)[i] = c
      BY <2>4 DEF Contains
    <3>2. i + 1 \in 1 .. Len(s) /\ s[i + 1] = c
      BY <2>2, <3>1
    <3> QED  BY <3>2 DEF Contains
  <2> QED  BY <2>1, <2>3, <2>4
<1>2. CASE ~(s # <<>> /\ s[1] = Blank)
  BY <1>2 DEF Trim
<1> QED  BY <1>1, <1>2

\* A line of a joinable file: the reference reads from it what the code does.
LEMMA LineIsRead ==
  ASSUME NEW st \in ScanStates, NEW l \in Seq(STRING), JoinableLine(st, l),
         \A j \in 1 .. Len(l) : l[j] = Blank => j = 1,
         st.depth = 0 => st.entry = <<>>
  PROVE  LET end == RfcWords(st, l)[Len(l)]
             T == Trim(StripComment(l))
         IN  /\ end \in ScanStates /\ end.entries = st.entries
             /\ T \in Seq(STRING) /\ Trim(st.entry) \in Seq(STRING)
             /\ Contains(T, Open) => st.depth = 0 /\ end.depth = 1
             /\ Contains(T, Close) => st.depth = 1 /\ end.depth = 0
             /\ \A c \in {Open, Close} :
                  Contains(T, c) => Trim(end.entry) = Trim(st.entry) \o Without(T, c)
             /\ ~Contains(T, Open) /\ ~Contains(T, Close) =>
                  end.depth = st.depth /\ Trim(end.entry) = Trim(st.entry) \o T
<1> DEFINE W == RfcWords(st, l)
           end == W[Len(l)]
           code == StripComment(l)
           T == Trim(code)
<1>1. PICK n : CodeEnds(l, n)
  BY CodeEndsSomewhere
<1>2. n \in 0 .. Len(l) /\ code = SubSeq(l, 1, n) /\ Len(l) \in Nat
  BY <1>1 DEF CodeEnds
<1>3. /\ \A i \in 0 .. n : ~W[i].comment
      /\ end.entry = W[n].entry /\ end.depth = W[n].depth
  BY <1>1, CodeIsRead, Zenon
<1>4. end \in ScanStates /\ end.entries = st.entries
  <2>1. Len(l) \in 0 .. Len(l)
    BY <1>2
  <2>2. W \in [0 .. Len(l) -> ScanStates]
    BY ReadWords, Zenon
  <2>3. end \in ScanStates
    <3> HIDE DEF W
    <3> QED  BY <2>1, <2>2
  <2> QED  BY <2>1, <2>3, EntriesStay
<1>5. code \in Seq(STRING) /\ Len(code) = n /\ \A j \in 1 .. n : code[j] = l[j]
  <2>1. /\ SubSeq(l, 1, n) \in Seq(STRING) /\ Len(SubSeq(l, 1, n)) = n
        /\ \A j \in 1 .. n : SubSeq(l, 1, n)[j] = l[j]
    BY <1>2, PrefixGrows
  <2> HIDE DEF code
  <2> QED  BY <1>2, <2>1, Zenon
<1>6. \A c \in {Open, Close} : (Contains(T, c) <=> Contains(code, c))
                              /\ (Contains(code, c) <=> \E i \in 1 .. n : l[i] = c)
  <2> SUFFICES ASSUME NEW c \in {Open, Close}
               PROVE  (Contains(T, c) <=> Contains(code, c))
                      /\ (Contains(code, c) <=> \E i \in 1 .. n : l[i] = c)
    OBVIOUS
  <2>1. c # Blank
    BY ZoneFileAssumption
  <2> HIDE DEF code
  <2>2. Contains(T, c) <=> Contains(code, c)
    BY <1>5, <2>1, TrimKeeps
  <2>3. Contains(code, c) <=> \E i \in 1 .. n : l[i] = c
    BY <1>5 DEF Contains
  <2> QED  BY <2>2, <2>3
<1>7. /\ Cardinality({k \in DOMAIN code : code[k] \in {Open, Close}}) <= 1
      /\ Contains(code, Open) => st.depth = 0 /\ end.depth = 1
      /\ Contains(code, Close) => st.depth = 1 /\ end.depth = 0
  BY DEF JoinableLine
<1> HIDE DEF W, code
<1>8. \A i, j \in 1 .. n : l[i] \in {Open, Close} /\ l[j] \in {Open, Close} => i = j
  <2> SUFFICES ASSUME NEW i \in 1 .. n, NEW j \in 1 .. n, l[i] \in {Open, Close}, l[j] \in {Open, Close}
               PROVE  i = j
    OBVIOUS
  <2> DEFINE A == {k \in DOMAIN code : code[k] \in {Open, Close}}
  <2>1. DOMAIN code = 1 .. n
    BY <1>5
  <2>2. i \in A /\ j \in A
    BY <1>5, <2>1
  <2>3. IsFiniteSet(A)
    <3>1. IsFiniteSet(1 .. n)
      BY <1>2, FS_Interval
    <3>2. A \subseteq 1 .. n
      BY <2>1
    <3> HIDE DEF A
    <3> QED  BY <3>1, <3>2, FS_Subset
  <2>4. Cardinality(A) <= 1
    BY <1>7
  <2> HIDE DEF A
  <2> QED  BY <2>2, <2>3, <2>4, AtMostOne
<1>9. ASSUME NEW c \in {Open, Close}, Contains(T, c)
      PROVE  Trim(end.entry) = Trim(st.entry) \o Without(T, c)
  <2>1. Contains(code, c) /\ \E i \in 1 .. n : l[i] = c
    BY <1>6, <1>9
  <2>2. W[n].depth # st.depth
    BY <1>3, <1>7, <2>1
  <2>3. PICK q \in 1 .. n : l[q] \in {Open, Close} /\ ~W[q - 1].quoted
    <3>1. ~\A i \in 1 .. n : l[i] \in {Open, Close} => W[i - 1].quoted
      BY <1>2, <2>2, DepthStays DEF W
    <3> QED  BY <3>1
  <2>4. \A i \in 1 .. n : l[i] \in {Open, Close} => l[i] = c /\ ~W[i - 1].quoted
    BY <1>8, <2>1, <2>3
  <2>5. Trim(W[n].entry) = Trim(st.entry) \o Without(Trim(SubSeq(l, 1, n)), c)
    <3>1. \A i \in 1 .. n : l[i] \in {Open, Close} => l[i] = c /\ ~RfcWords(st, l)[i - 1].quoted
      BY <2>4 DEF W
    <3>2. \A i \in 0 .. n : ~RfcWords(st, l)[i].comment
      BY <1>3 DEF W
    <3>3. Trim(RfcWords(st, l)[n].entry) = Trim(st.entry) \o Without(Trim(SubSeq(l, 1, n)), c)
      BY <1>2, <3>1, <3>2, WordsAreGathered
    <3> QED  BY <3>3 DEF W
  <2> QED  BY <1>2, <1>3, <2>5, Zenon
<1>10. ASSUME ~Contains(T, Open), ~Contains(T, Close)
       PROVE  end.depth = st.depth /\ Trim(end.entry) = Trim(st.entry) \o T
  <2>1. \A i \in 1 .. n : l[i] \notin {Open, Close}
    BY <1>6, <1>10
  <2>2. end.depth = st.depth
    <3>1. \A i \in 1 .. n : l[i] \in {Open, Close} => RfcWords(st, l)[i - 1].quoted
      BY <2>1
    <3>2. RfcWords(st, l)[n].depth = st.depth
      BY <1>2, <3>1, DepthStays
    <3> QED  BY <1>3, <3>2 DEF W
  <2>3. /\ Trim(W[n].entry) = Trim(st.entry) \o Without(Trim(SubSeq(l, 1, n)), Open)
        /\ Trim(SubSeq(l, 1, n)) \in Seq(STRING)
    <3>1. \A i \in 1 .. n : l[i] \in {Open, Close} => l[i] = Open /\ ~RfcWords(st, l)[i - 1].quoted
      BY <2>1
    <3>2. \A i \in 0 .. n : ~RfcWords(st, l)[i].comment
      BY <1>3 DEF W
    <3> QED  BY <1>2, <3>1, <3>2, WordsAreGathered DEF W
  <2>4. T \in Seq(STRING) /\ \A i \in 1 .. Len(T) : T[i] # Open
    <3>1. T \in Seq(STRING)
      BY <1>2, <2>3
    <3> QED  BY <1>10, <3>1 DEF Contains
  <2>5. Without(T, Open) = T
    <3> HIDE DEF T
    <3> QED  BY <2>4, WithoutAbsent
  <2> QED  BY <1>2, <1>3, <2>2, <2>3, <2>5, Zenon
<1>11. \A x \in Seq(STRING) : Trim(x) \in Seq(STRING)
  <2> SUFFICES ASSUME NEW x \in Seq(STRING) PROVE Trim(x) \in Seq(STRING)
    OBVIOUS
  <2> QED  BY HeadTailProperties DEF Trim
<1>12. T \in Seq(STRING) /\ Trim(st.entry) \in Seq(STRING)
  BY <1>5, <1>11 DEF ScanStates
<1>13. /\ Contains(T, Open) => st.depth = 0 /\ end.depth = 1
       /\ Contains(T, Close) => st.depth = 1 /\ end.depth = 0
  BY <1>6, <1>7
<1> QED  BY <1>4, <1>9, <1>10, <1>12, <1>13, Zenon DEF W, code

-----------------------------------------------------------------------------
(* Joining lines *)

TrimAll(entries) == [i \in DOMAIN entries |-> Trim(entries[i])]

\* What the code has put together is what the reference has read: the entry in
\* its parentheses and, but for empty lines, the entries before it.
Joined(st, paren, cur, res) ==
  /\ st.depth = IF paren THEN 1 ELSE 0
  /\ ~paren => st.entry = <<>>
  /\ cur = Trim(st.entry)
  /\ Without(res, <<>>) = TrimAll(st.entries)

\* A trimmed line is a line.
LEMMA TrimType ==
  ASSUME NEW S, NEW s \in Seq(S)
  PROVE  Trim(s) \in Seq(S)
BY HeadTailProperties DEF Trim

\* What is empty when trimmed is empty or white space.
LEMMA TrimEmpty ==
  ASSUME NEW S, NEW s \in Seq(S)
  PROVE  Trim(s) = <<>> <=> s \in {<<>>, <<Blank>>}
<1>1. CASE s # <<>> /\ s[1] = Blank
  <2>1. Trim(s) = Tail(s)
    BY <1>1 DEF Trim
  <2>2. Len(s) \in Nat /\ Len(Tail(s)) = Len(s) - 1 /\ Tail(s) \in Seq(S)
    BY <1>1, HeadTailProperties
  <2>3. Tail(s) = <<>> <=> Len(s) = 1
    <3> DEFINE t == Tail(s)
    <3>1. t \in Seq(S) /\ Len(t) = Len(s) - 1
      BY <2>2
    <3> HIDE DEF t
    <3>2. t = <<>> <=> Len(t) = 0
      BY <3>1, EmptySeq
    <3>3. Len(t) = 0 <=> Len(s) = 1
      BY <2>2, <3>1
    <3> QED  BY <3>2, <3>3 DEF t
  <2>4. Len(s) = 1 <=> s = <<Blank>>
    BY <1>1, <2>2
  <2> QED  BY <1>1, <2>1, <2>3, <2>4
<1>2. CASE ~(s # <<>> /\ s[1] = Blank)
  <2>1. Trim(s) = s /\ s # <<Blank>>
    BY <1>2 DEF Trim
  <2> QED  BY <2>1
<1> QED  BY <1>1, <1>2

\* Entries are trimmed one by one.
LEMMA TrimAllAppend ==
  ASSUME NEW S, NEW es \in Seq(Seq(S)), NEW e \in Seq(S)
  PROVE  /\ TrimAll(es) \in Seq(Seq(S)) /\ TrimAll(<<>>) = <<>>
         /\ TrimAll(Append(es, e)) = Append(TrimAll(es), Trim(e))
<1> DEFINE n == Len(es)
           a == TrimAll(es)
           f == Append(es, e)
<1>1. n \in Nat /\ DOMAIN es = 1 .. n /\ \A i \in 1 .. n : es[i] \in Seq(S)
  OBVIOUS
<1>2. \A i \in 1 .. n : Trim(es[i]) \in Seq(S)
  BY <1>1, TrimType
<1>3. a \in [1 .. n -> Seq(S)] /\ \A i \in 1 .. n : a[i] = Trim(es[i])
  BY <1>1, <1>2 DEF TrimAll
<1> HIDE DEF a
<1>4. a \in Seq(Seq(S)) /\ Len(a) = n
  <2> DEFINE R == Seq(S)
  <2>1. n \in Nat /\ a \in [1 .. n -> R]
    BY <1>1, <1>3
  <2> HIDE DEF n, R
  <2>2. a \in Seq(R) /\ Len(a) = n
    BY <2>1
  <2> QED  BY <2>2 DEF R
<1>5. /\ Len(f) = n + 1 /\ DOMAIN f = 1 .. n + 1 /\ f[n + 1] = e
      /\ \A i \in 1 .. n : f[i] = es[i]
  OBVIOUS
<1> HIDE DEF f
<1> DEFINE x == TrimAll(f)
           y == Append(a, Trim(e))
<1>6. Trim(e) \in Seq(S)
  BY TrimType
<1>7. /\ y \in Seq(Seq(S)) /\ Len(y) = n + 1 /\ y[n + 1] = Trim(e)
      /\ \A i \in 1 .. n : y[i] = a[i]
  BY <1>4, <1>6, AppendProperties
<1>8. x = [i \in 1 .. n + 1 |-> Trim(f[i])]
  BY <1>5 DEF TrimAll
<1> HIDE DEF x, y
<1>9. \A i \in 1 .. n + 1 : x[i] = y[i]
  <2> SUFFICES ASSUME NEW i \in 1 .. n + 1 PROVE x[i] = y[i]
    OBVIOUS
  <2>1. x[i] = Trim(f[i])
    BY <1>8
  <2>2. CASE i = n + 1
    BY <1>5, <1>7, <2>1, <2>2
  <2>3. CASE i # n + 1
    <3>1. i \in 1 .. n
      BY <1>1, <2>3
    <3> QED  BY <1>3, <1>5, <1>7, <2>1, <3>1
  <2> QED  BY <2>2, <2>3
<1>10. y = [i \in 1 .. n + 1 |-> y[i]]
  BY <1>7
<1>11. x = y
  BY <1>8, <1>9, <1>10
<1>12. TrimAll(<<>>) = <<>>
  BY DEF TrimAll
<1> QED  BY <1>4, <1>11, <1>12 DEF a, f, x, y

\* The end of a line outside parentheses.
LEMMA EntryEnds ==
  ASSUME NEW end \in ScanStates, end.depth = 0, NEW res \in Seq(Seq(STRING)),
         Without(res, <<>>) = TrimAll(end.entries),
         NEW st, NEW l, RfcWords(st, l)[Len(l)] = end
  PROVE  /\ Joined(RfcLine(st, l), FALSE, <<>>, Append(res, Trim(end.entry)))
         /\ Trim(end.entry) = <<>> => Joined(RfcLine(st, l), FALSE, <<>>, res)
<1> DEFINE e == end.entry
           es == end.entries
           more == IF e \in {<<>>, <<Blank>>} THEN es ELSE Append(es, e)
           to == RfcLine(st, l)
<1>1. to = [end EXCEPT !.entry = <<>>, !.entries = more]
  BY DEF RfcLine
<1>2. e \in Seq(STRING) /\ es \in Seq(Seq(STRING)) /\ Trim(e) \in Seq(STRING)
  BY TrimType DEF ScanStates
<1>3. to.entry = <<>> /\ to.entries = more /\ to.depth = 0
  <2> HIDE DEF more, to
  <2> QED  BY <1>1 DEF ScanStates
<1>4. Trim(<<>>) = <<>>
  BY DEF Trim
<1>5. Trim(e) = <<>> <=> e \in {<<>>, <<Blank>>}
  BY <1>2, TrimEmpty
<1>6. Without(Append(res, Trim(e)), <<>>) = TrimAll(more)
  <2> DEFINE t == Trim(e)
  <2>1. t \in Seq(STRING)
    BY <1>2
  <2>2. CASE t = <<>>
    <3>1. more = es
      BY <1>5, <2>2
    <3> HIDE DEF t, e, es
    <3>2. Without(Append(res, t), <<>>) = Without(res, <<>>)
      BY <2>1, <2>2, WithoutAppend
    <3> QED  BY <3>1, <3>2, Zenon DEF es, e, t
  <2>3. CASE t # <<>>
    <3>1. more = Append(es, e)
      BY <1>5, <2>3
    <3>2. TrimAll(Append(es, e)) = Append(TrimAll(es), t)
      <4> HIDE DEF e, es
      <4> QED  BY <1>2, TrimAllAppend
    <3> HIDE DEF t
    <3>3. Without(Append(res, t), <<>>) = Append(Without(res, <<>>), t)
      BY <2>1, <2>3, WithoutAppend
    <3> QED  BY <3>1, <3>2, <3>3, Zenon DEF t
  <2> QED  BY <2>2, <2>3
<1>7. Trim(e) = <<>> => Without(res, <<>>) = TrimAll(more)
  BY <1>5
<1> HIDE DEF to, more
<1> QED  BY <1>3, <1>4, <1>6, <1>7, Zenon DEF Joined, to

\* One line: each branch of preprocess_zone_content does what the reference does.
LEMMA LineIsJoined ==
  ASSUME NEW st \in ScanStates, NEW l \in Seq(STRING), JoinableLine(st, l),
         \A j \in 1 .. Len(l) : l[j] = Blank => j = 1,
         NEW paren \in BOOLEAN, NEW cur, NEW res \in Seq(Seq(STRING)),
         Joined(st, paren, cur, res)
  PROVE  LET T == Trim(StripComment(l))
             to == RfcLine(st, l)
         IN  /\ Contains(T, Open) => Joined(to, TRUE, cur \o Without(T, Open), res)
             /\ ~Contains(T, Open) /\ Contains(T, Close) =>
                  Joined(to, FALSE, <<>>, Append(res, cur \o Without(T, Close)))
             /\ ~Contains(T, Open) /\ ~Contains(T, Close) /\ paren =>
                  Joined(to, paren, cur \o T, res)
             /\ ~Contains(T, Open) /\ ~Contains(T, Close) /\ ~paren =>
                  Joined(to, paren, cur, IF T = <<>> THEN res ELSE Append(res, T))
<1> DEFINE T == Trim(StripComment(l))
           to == RfcLine(st, l)
           end == RfcWords(st, l)[Len(l)]
<1>1. /\ st.depth = IF paren THEN 1 ELSE 0
      /\ ~paren => st.entry = <<>>
      /\ cur = Trim(st.entry)
      /\ Without(res, <<>>) = TrimAll(st.entries)
  BY DEF Joined
<1>2. st.depth = 0 => st.entry = <<>>
  BY <1>1
<1>3. /\ end \in ScanStates /\ end.entries = st.entries
      /\ T \in Seq(STRING) /\ Trim(st.entry) \in Seq(STRING)
      /\ Contains(T, Open) => st.depth = 0 /\ end.depth = 1
      /\ Contains(T, Close) => st.depth = 1 /\ end.depth = 0
      /\ \A c \in {Open, Close} :
           Contains(T, c) => Trim(end.entry) = Trim(st.entry) \o Without(T, c)
      /\ ~Contains(T, Open) /\ ~Contains(T, Close) =>
           end.depth = st.depth /\ Trim(end.entry) = Trim(st.entry) \o T
  BY <1>2, LineIsRead, Zenon
<1>4. end.depth > 0 => to = end
  BY DEF RfcLine
<1>5. Without(res, <<>>) = TrimAll(end.entries)
  BY <1>1, <1>3
<1>6. end.depth = 0 => /\ Joined(to, FALSE, <<>>, Append(res, Trim(end.entry)))
                       /\ Trim(end.entry) = <<>> => Joined(to, FALSE, <<>>, res)
  BY <1>3, <1>5, EntryEnds, Zenon
<1> HIDE DEF T, to, end
<1>7. ASSUME Contains(T, Open) PROVE Joined(to, TRUE, cur \o Without(T, Open), res)
  <2>1. end.depth = 1 /\ Trim(end.entry) = cur \o Without(T, Open)
    BY <1>1, <1>3, <1>7
  <2>2. to = end
    BY <1>4, <2>1
  <2> QED  BY <1>5, <2>1, <2>2 DEF Joined
<1>8. ASSUME Contains(T, Close)
      PROVE  Joined(to, FALSE, <<>>, Append(res, cur \o Without(T, Close)))
  <2>1. end.depth = 0 /\ Trim(end.entry) = cur \o Without(T, Close)
    BY <1>1, <1>3, <1>8
  <2> QED  BY <1>6, <2>1, Zenon
<1>9. ASSUME ~Contains(T, Open), ~Contains(T, Close), paren PROVE Joined(to, paren, cur \o T, res)
  <2>1. end.depth = 1 /\ Trim(end.entry) = cur \o T
    BY <1>1, <1>3, <1>9
  <2>2. to = end
    BY <1>4, <2>1
  <2> QED  BY <1>5, <1>9, <2>1, <2>2 DEF Joined
<1>10. ASSUME ~Contains(T, Open), ~Contains(T, Close), ~paren
       PROVE  Joined(to, paren, cur, IF T = <<>> THEN res ELSE Append(res, T))
  <2>1. Trim(<<>>) = <<>>
    BY DEF Trim
  <2>2. st.entry = <<>> /\ cur = <<>>
    BY <1>1, <1>10, <2>1
  <2>3. <<>> \o T = T
    BY <1>3, ConcatEmptySeq
  <2>4. end.depth = 0 /\ Trim(end.entry) = T
    BY <1>1, <1>3, <1>10, <2>2, <2>3
  <2>5. paren = FALSE
    BY <1>10
  <2>6. CASE T = <<>>
    BY <1>6, <2>2, <2>4, <2>5, <2>6, Zenon
  <2>7. CASE T # <<>>
    BY <1>6, <2>2, <2>4, <2>5, <2>7, Zenon
  <2> QED  BY <2>6, <2>7
<1> QED  BY <1>7, <1>8, <1>9, <1>10, Zenon DEF T, to

-----------------------------------------------------------------------------
(* One record *)

\* Every supported type has a field, and a DS record has four.
LEMMA FieldsOfTypes ==
  /\ \A t \in DOMAIN Fields : DOMAIN Fields[t] = 1 .. Len(Fields[t]) /\ Len(Fields[t]) \in Nat \ {0}
  /\ "DS" \in DOMAIN Fields /\ Len(Fields["DS"]) = 4
<1>1. /\ DOMAIN AFields = 1 .. Len(AFields) /\ Len(AFields) \in Nat \ {0}
      /\ DOMAIN AaaaFields = 1 .. Len(AaaaFields) /\ Len(AaaaFields) \in Nat \ {0}
      /\ DOMAIN NsFields = 1 .. Len(NsFields) /\ Len(NsFields) \in Nat \ {0}
      /\ DOMAIN SoaFields = 1 .. Len(SoaFields) /\ Len(SoaFields) \in Nat \ {0}
  BY DEF AFields, AaaaFields, NsFields, SoaFields
<1>2. /\ DOMAIN CnameFields = 1 .. Len(CnameFields) /\ Len(CnameFields) \in Nat \ {0}
      /\ DOMAIN MxFields = 1 .. Len(MxFields) /\ Len(MxFields) \in Nat \ {0}
      /\ DOMAIN TxtFields = 1 .. Len(TxtFields) /\ Len(TxtFields) \in Nat \ {0}
      /\ DOMAIN PtrFields = 1 .. Len(PtrFields) /\ Len(PtrFields) \in Nat \ {0}
  BY DEF CnameFields, MxFields, TxtFields, PtrFields
<1>3. /\ DOMAIN SrvFields = 1 .. Len(SrvFields) /\ Len(SrvFields) \in Nat \ {0}
      /\ DOMAIN CaaFields = 1 .. Len(CaaFields) /\ Len(CaaFields) \in Nat \ {0}
      /\ DOMAIN DnskeyFields = 1 .. Len(DnskeyFields) /\ Len(DnskeyFields) \in Nat \ {0}
      /\ DOMAIN RrsigFields = 1 .. Len(RrsigFields) /\ Len(RrsigFields) \in Nat \ {0}
  BY DEF SrvFields, CaaFields, DnskeyFields, RrsigFields
<1>4. /\ DOMAIN NsecFields = 1 .. Len(NsecFields) /\ Len(NsecFields) \in Nat \ {0}
      /\ DOMAIN DsFields = 1 .. Len(DsFields) /\ Len(DsFields) \in Nat \ {0}
      /\ DOMAIN NaptrFields = 1 .. Len(NaptrFields) /\ Len(NaptrFields) \in Nat \ {0}
      /\ DOMAIN TlsaFields = 1 .. Len(TlsaFields) /\ Len(TlsaFields) \in Nat \ {0}
  BY DEF NsecFields, DsFields, NaptrFields, TlsaFields
<1>5. /\ DOMAIN SshfpFields = 1 .. Len(SshfpFields) /\ Len(SshfpFields) \in Nat \ {0}
  BY DEF SshfpFields
<1>6. ASSUME NEW t \in Supported PROVE DOMAIN Fields[t] = 1 .. Len(Fields[t]) /\ Len(Fields[t]) \in Nat \ {0}
  BY <1>1, <1>2, <1>3, <1>4, <1>5 DEF Fields, Supported
<1>7. DOMAIN Fields = Supported /\ "DS" \in Supported
  BY DEF Fields, Supported
<1>8. Fields["DS"] = DsFields
  BY DEF Fields, Supported
<1>9. Len(DsFields) = 4
  BY DEF DsFields
<1> QED  BY <1>6, <1>7, <1>8, <1>9

\* The place of the type, as the code finds it.
TypeFound(e) ==
  LET class == IF Fits(e[2], 32) THEN 3 ELSE 2
  IN  IF e[class] = "IN" THEN class + 1 ELSE class

\* Four words or more, no class before a TTL: the code and the reference find the
\* type, and the TTL before it, in the same place.
LEMMA TypeIsFound ==
  ASSUME NEW e \in Seq(STRING), Len(e) >= 4
  PROVE  /\ TypeFound(e) \in 2 .. 4
         /\ ~Overlooked(e) => TypeAt(e) = TypeFound(e)
         /\ Overlooked(e) => e[TypeFound(e)] \notin DOMAIN Fields
         /\ ~Overlooked(e) => {e[j] : j \in {j \in 2 .. TypeAt(e) - 1 : IsTtl(e[j])}}
                                = IF Fits(e[2], 32) THEN {e[2]} ELSE {}
<1>1. ~Fits("IN", 32) /\ \A w : Fits(w, 32) => w \notin DOMAIN Fields /\ w # "IN"
  BY WordsAssumption DEF Fits
<1>2. Fits(e[2], 32) \in BOOLEAN /\ Fits(e[3], 32) \in BOOLEAN /\ ~(Len(e) < 4) /\ Len(e) >= 3
  BY DEF Fits
<1>3. CASE Fits(e[2], 32) /\ e[3] = "IN"
  <2>1. TypeFound(e) = 4
    BY <1>1, <1>3 DEF TypeFound
  <2>2. TypeAt(e) = 4
    BY <1>1, <1>2, <1>3 DEF TypeAt, IsTtl
  <2>3. ~Overlooked(e)
    BY <1>1, <1>2, <1>3 DEF Overlooked, IsTtl
  <2>4. {j \in 2 .. 3 : IsTtl(e[j])} = {2}
    BY <1>1, <1>3 DEF IsTtl
  <2> QED  BY <1>3, <2>1, <2>2, <2>3, <2>4
<1>4. CASE Fits(e[2], 32) /\ e[3] # "IN"
  <2>1. TypeFound(e) = 3
    BY <1>1, <1>4 DEF TypeFound
  <2>2. TypeAt(e) = 3
    BY <1>1, <1>2, <1>4 DEF TypeAt, IsTtl
  <2>3. ~Overlooked(e)
    BY <1>1, <1>2, <1>4 DEF Overlooked, IsTtl
  <2>4. {j \in 2 .. 2 : IsTtl(e[j])} = {2}
    BY <1>1, <1>4 DEF IsTtl
  <2> QED  BY <1>4, <2>1, <2>2, <2>3, <2>4
<1>5. CASE ~Fits(e[2], 32) /\ e[2] = "IN"
  <2>1. TypeFound(e) = 3
    BY <1>5 DEF TypeFound
  <2>2. CASE Fits(e[3], 32)
    <3>1. Overlooked(e)
      BY <1>5, <2>2 DEF Overlooked, IsTtl
    <3> QED  BY <1>1, <2>1, <2>2, <3>1
  <2>3. CASE ~Fits(e[3], 32)
    <3>1. TypeAt(e) = 3
      BY <1>2, <1>5, <2>3 DEF TypeAt, IsTtl
    <3>2. ~Overlooked(e)
      BY <1>2, <2>3 DEF Overlooked, IsTtl
    <3>3. {j \in 2 .. 2 : IsTtl(e[j])} = {}
      BY <1>5 DEF IsTtl
    <3> QED  BY <1>5, <2>1, <3>1, <3>2, <3>3
  <2> QED  BY <1>2, <2>2, <2>3
<1>6. CASE ~Fits(e[2], 32) /\ e[2] # "IN"
  <2>1. TypeFound(e) = 2
    BY <1>6 DEF TypeFound
  <2>2. TypeAt(e) = 2
    <3>1. CASE e[3] = "IN"
      BY <1>1, <1>2, <1>6, <3>1 DEF TypeAt, IsTtl
    <3>2. CASE e[3] # "IN"
      BY <1>1, <1>2, <1>6, <3>2 DEF TypeAt, IsTtl
    <3> QED  BY <3>1, <3>2
  <2>3. ~Overlooked(e)
    BY <1>2, <1>6 DEF Overlooked
  <2>4. 2 .. 1 = {}
    OBVIOUS
  <2> QED  BY <1>6, <2>1, <2>2, <2>3, <2>4
<1> QED  BY <1>2, <1>3, <1>4, <1>5, <1>6

\* The words behind the type.
LEMMA Suffix ==
  ASSUME NEW S, NEW e \in Seq(S), NEW r \in 1 .. Len(e)
  PROVE  LET ws == SubSeq(e, r + 1, Len(e))
         IN  /\ ws \in Seq(S) /\ Len(ws) = Len(e) - r
             /\ \A i \in 1 .. Len(e) - r : ws[i] = e[r + i]
             /\ \A k \in 1 .. Len(e) - r : SubSeq(ws, k, Len(ws)) = SubSeq(e, r + k, Len(e))
<1> DEFINE ws == SubSeq(e, r + 1, Len(e))
           n == Len(e)
<1>1. n \in Nat /\ \A i \in r + 1 .. n : e[i] \in S
  OBVIOUS
<1>2. ws \in Seq(S) /\ Len(ws) = n - r /\ \A i \in 1 .. n - r : ws[i] = e[r + i]
  OBVIOUS
<1> HIDE DEF ws
<1>3. ASSUME NEW k \in 1 .. n - r PROVE SubSeq(ws, k, Len(ws)) = SubSeq(e, r + k, n)
  <2> DEFINE a == SubSeq(ws, k, Len(ws))
             b == SubSeq(e, r + k, n)
             m == n - r - k + 1
  <2>1. m \in Nat /\ n - r \in Nat
    BY <1>1
  <2>2. a \in Seq(S) /\ Len(a) = m /\ \A i \in 1 .. m : a[i] = ws[k + i - 1]
    BY <1>2, <2>1
  <2>3. b \in Seq(S) /\ Len(b) = m /\ \A i \in 1 .. m : b[i] = e[r + k + i - 1]
    BY <1>1, <2>1
  <2> HIDE DEF a, b
  <2>4. \A i \in 1 .. m : a[i] = b[i]
    <3> SUFFICES ASSUME NEW i \in 1 .. m PROVE a[i] = b[i]
      OBVIOUS
    <3>1. k + i - 1 \in 1 .. n - r /\ r + (k + i - 1) = r + k + i - 1
      BY <2>1
    <3>2. ws[k + i - 1] = e[r + (k + i - 1)]
      BY <1>2, <3>1
    <3> QED  BY <2>2, <2>3, <3>1, <3>2
  <2>5. a = b
    BY <2>2, <2>3, <2>4
  <2> QED  BY <2>5 DEF a, b
<1> QED  BY <1>2, <1>3 DEF ws

Keeps(e) == Complete(e) /\ Readable(e) /\ Decodable(e) /\ ~Overlooked(e)

\* The record of an entry that the code keeps.
RecordOf(e, origin, ttl) ==
  LET at == TypeAt(e)
  IN  [name |-> OwnerName(e[1], origin), ttl |-> IF Fits(e[2], 32) THEN e[2] ELSE ttl,
       rtype |-> e[at], data |-> RData(e[at], SubSeq(e, at + 1, Len(e)), origin)]

\* What parse_resource_record returns for an entry that names its owner.
LEMMA RecordIsParsed ==
  ASSUME NEW e \in Seq(STRING), NEW origin, NEW ttl
  PROVE  LET p == ParseResourceRecord(e, origin, ttl)
         IN  /\ p.out \in {"ok", "error"}
             /\ e # <<>> /\ e[1] # Blank /\ p.out = "ok" =>
                  /\ Accepted(e)
                  /\ Keeps(e) => p.records = <<RecordOf(e, origin, ttl)>>
                  /\ ~Keeps(e) => p.records = <<>>
<1> DEFINE p == ParseResourceRecord(e, origin, ttl)
<1>0. Len(e) \in Nat
  OBVIOUS
<1>1. CASE Len(e) < 4
  <2>1. p = [out |-> "ok", records |-> <<>>]
    BY <1>1 DEF ParseResourceRecord, Nothing, Ok
  <2>2. Overlooked(e)
    BY <1>1 DEF Overlooked
  <2>3. Accepted(e)
    BY <1>0, <1>1, <2>2 DEF Accepted
  <2> QED  BY <2>1, <2>2, <2>3 DEF Keeps
<1>2. CASE Len(e) >= 4 /\ e[1] # "@" /\ e[1] \notin DOMAIN Labels
  <2>1. p = [out |-> "error", records |-> <<>>]
    BY <1>0, <1>2 DEF ParseResourceRecord, Error
  <2> QED  BY <2>1
<1>3. CASE Len(e) >= 4 /\ (e[1] = "@" \/ e[1] \in DOMAIN Labels)
  <2> DEFINE r == TypeFound(e)
             ws == SubSeq(e, r + 1, Len(e))
             name == OwnerName(e[1], origin)
             t == IF Fits(e[2], 32) THEN e[2] ELSE ttl
             T == e[r]
             fields == Fields[T]
             last == Len(fields)
  <2>1. /\ r \in 2 .. 4 /\ r \in 1 .. Len(e)
        /\ ~Overlooked(e) => TypeAt(e) = r
        /\ Overlooked(e) => T \notin DOMAIN Fields
    BY <1>0, <1>3, TypeIsFound
  <2>2. p = ParseRData(name, t, T, ws, origin)
    <3>1. p = ParseTail(name, e, origin, ttl)
      BY <1>0, <1>3 DEF ParseResourceRecord
    <3>2. ~(r > Len(e))
      BY <1>0, <2>1
    <3> QED  BY <3>1, <3>2 DEF ParseTail, TypeFound
  <2>3. /\ ws \in Seq(STRING) /\ Len(ws) = Len(e) - r
        /\ \A i \in 1 .. Len(e) - r : ws[i] = e[r + i]
        /\ \A k \in 1 .. Len(e) - r : SubSeq(ws, k, Len(ws)) = SubSeq(e, r + k, Len(e))
    <3> HIDE DEF r
    <3> QED  BY <2>1, Suffix, Zenon
  <2> HIDE DEF p, r, ws
  <2>4. CASE T \notin DOMAIN Fields
    <3>1. p = [out |-> "ok", records |-> <<>>]
      BY <2>2, <2>4 DEF ParseRData, Nothing, Ok
    <3>2. ~Overlooked(e) => ~Complete(e)
      BY <2>1, <2>4 DEF Complete
    <3>3. Accepted(e)
      BY <1>3, <3>2 DEF Accepted, HasOwner
    <3> QED  BY <3>1, <3>2, <3>3 DEF Keeps, p
  <2>5. CASE T \in DOMAIN Fields
    <3>1. ~Overlooked(e) /\ TypeAt(e) = r
      BY <2>1, <2>5
    <3>2. last \in Nat /\ last >= 1 /\ DOMAIN fields = 1 .. last
      BY <2>5, FieldsOfTypes
    <3>3. Complete(e) <=> Len(ws) >= last
      <4>1. Complete(e) <=> Len(e) - r >= last
        BY <1>0, <2>1, <2>5, <3>1 DEF Complete
      <4> QED  BY <2>3, <4>1
    <3> DEFINE broken == \E i \in 1 .. last : fields[i] \notin Rest /\ ~Parses(fields[i], ws[i])
               decodes == Decodes(fields[last], SubSeq(ws, last, Len(ws)))
               digest == T = "DS" /\ ws[3] \notin KnownDigests
               rec == [name |-> name, ttl |-> t, rtype |-> T, data |-> RData(T, ws, origin)]
    <3>4. p = IF Len(ws) < last THEN [out |-> "ok", records |-> <<>>]
              ELSE IF broken THEN [out |-> "error", records |-> <<>>]
              ELSE IF ~decodes THEN [out |-> "ok", records |-> <<>>]
              ELSE IF digest THEN [out |-> "error", records |-> <<>>]
              ELSE [out |-> "ok", records |-> <<rec>>]
      BY <2>2, <2>5 DEF ParseRData, Nothing, Ok, Error
    <3>5. rec = RecordOf(e, origin, ttl)
      BY <3>1 DEF RecordOf, ws
    <3>6. CASE Len(ws) < last
      <4>1. ~Complete(e)
        BY <2>3, <3>2, <3>3, <3>6
      <4>2. p.out = "ok" /\ p.records = <<>>
        BY <3>4, <3>6
      <4>3. Accepted(e)
        BY <1>3, <4>1 DEF Accepted, HasOwner
      <4> QED  BY <4>1, <4>2, <4>3 DEF Keeps, p
    <3>7. CASE ~(Len(ws) < last)
      <4>1. Len(ws) >= last /\ Len(e) - r \in Nat /\ last \in 1 .. Len(e) - r
        BY <1>0, <2>1, <2>3, <3>2, <3>7
      <4>2. Decodable(e) <=> decodes
        <5>1. SubSeq(ws, last, Len(ws)) = SubSeq(e, r + last, Len(e))
          BY <2>3, <4>1
        <5> QED  BY <3>1, <5>1 DEF Decodable
      <4>3. (Readable(e) <=> ~broken /\ ~digest) /\ (FieldsParse(e) <=> ~broken)
        <5>1. \A i \in 1 .. last : ws[i] = e[r + i]
          <6> HIDE DEF last
          <6>1. \A i \in 1 .. last : i \in 1 .. Len(e) - r
            BY <4>1
          <6> QED  BY <2>3, <6>1
        <5>2. ~broken <=> \A i \in DOMAIN fields : fields[i] \in Rest \/ Parses(fields[i], e[r + i])
          <6> HIDE DEF last, fields
          <6> QED  BY <3>2, <5>1
        <5>3. digest <=> ~(T = "DS" => e[r + 3] \in KnownDigests)
          <6>1. CASE T = "DS"
            <7>1. last = 4
              BY <6>1, FieldsOfTypes
            <7>2. ws[3] = e[r + 3]
              BY <5>1, <7>1
            <7> QED  BY <6>1, <7>2
          <6>2. CASE T # "DS"
            BY <6>2
          <6> QED  BY <6>1, <6>2
        <5>4. FieldsParse(e) <=> \A i \in DOMAIN fields : fields[i] \in Rest \/ Parses(fields[i], e[r + i])
          BY <3>1 DEF FieldsParse
        <5>5. HasOwner(e)
          BY <1>3 DEF HasOwner
        <5>6. Readable(e) <=> FieldsParse(e) /\ (T = "DS" => e[r + 3] \in KnownDigests)
          BY <3>1, <5>5 DEF Readable
        <5> HIDE DEF broken, digest, fields
        <5> QED  BY <5>2, <5>3, <5>4, <5>6
      <4> HIDE DEF broken, digest, decodes, rec
      <4>5. p = IF broken THEN [out |-> "error", records |-> <<>>]
                ELSE IF ~decodes THEN [out |-> "ok", records |-> <<>>]
                ELSE IF digest THEN [out |-> "error", records |-> <<>>]
                ELSE [out |-> "ok", records |-> <<rec>>]
        BY <3>4, <3>7
      <4>6. p.out \in {"ok", "error"} /\ (p.out = "ok" => ~broken /\ (decodes => ~digest))
            /\ (p.out = "ok" => p.records = IF decodes THEN <<rec>> ELSE <<>>)
        BY <4>5
      <4>7. Complete(e)
        BY <3>3, <4>1
      <4>8. p.out = "ok" => Accepted(e)
        BY <1>3, <4>2, <4>3, <4>6 DEF Accepted, HasOwner
      <4> QED  BY <3>1, <3>5, <4>2, <4>3, <4>6, <4>7, <4>8 DEF Keeps, p
    <3> QED  BY <3>6, <3>7
  <2> QED  BY <2>4, <2>5
<1> QED  BY <1>0, <1>1, <1>2, <1>3

-----------------------------------------------------------------------------
(* Directives, owners and records *)

\* The greatest number of a set is the one that CHOOSE takes.
LEMMA GreatestIsChosen ==
  ASSUME NEW A, NEW m \in A, A \subseteq Int, \A k \in A : k <= m
  PROVE  (CHOOSE j \in A : \A k \in A : k <= j) = m
<1> DEFINE c == CHOOSE j \in A : \A k \in A : k <= j
<1>1. c \in A /\ \A k \in A : k <= c
  OBVIOUS
<1> HIDE DEF c
<1>2. c <= m /\ m <= c /\ c \in Int /\ m \in Int
  BY <1>1
<1>3. c = m
  BY <1>2
<1> QED  BY <1>3 DEF c

\* Before the first entry the default is in effect.
LEMMA NoDirectiveYet ==
  ASSUME NEW E, NEW d, NEW default
  PROVE  InEffect(E, d, 1, default) = default
<1> DEFINE at == {j \in 1 .. 1 - 1 : E[j][1] = d /\ Len(E[j]) >= 2}
<1>1. at = {}
  OBVIOUS
<1> QED  BY <1>1 DEF InEffect

\* A directive with an argument is in effect from the next entry on.
LEMMA DirectiveTakesEffect ==
  ASSUME NEW E, NEW i \in Nat \ {0}, Len(E[i]) >= 2, NEW default
  PROVE  InEffect(E, E[i][1], i + 1, default) = E[i][2]
<1> DEFINE at == {j \in 1 .. (i + 1) - 1 : E[j][1] = E[i][1] /\ Len(E[j]) >= 2}
<1>1. i \in at /\ at \subseteq Int /\ \A k \in at : k <= i
  OBVIOUS
<1>2. (CHOOSE j \in at : \A k \in at : k <= j) = i /\ at # {}
  <2> HIDE DEF at
  <2> QED  BY <1>1, GreatestIsChosen
<1> QED  BY <1>2 DEF InEffect

\* Any other entry leaves in effect what was.
LEMMA DirectiveStays ==
  ASSUME NEW E, NEW i \in Nat \ {0}, NEW d, E[i][1] # d \/ ~(Len(E[i]) >= 2), NEW default
  PROVE  InEffect(E, d, i + 1, default) = InEffect(E, d, i, default)
<1> DEFINE at(k) == {j \in 1 .. k - 1 : E[j][1] = d /\ Len(E[j]) >= 2}
<1>1. at(i + 1) = at(i)
  <2>1. \A j : j \in 1 .. (i + 1) - 1 <=> j \in 1 .. i - 1 \/ j = i
    OBVIOUS
  <2> QED  BY <2>1
<1>2. \A k : InEffect(E, d, k, default)
              = IF at(k) = {} THEN default ELSE E[CHOOSE j \in at(k) : \A h \in at(k) : h <= j][2]
  BY DEF InEffect
<1> HIDE DEF at
<1> QED  BY <1>1, <1>2, Zenon

\* An entry that names its owner has that owner.
LEMMA OwnerIsNamed ==
  ASSUME NEW E, NEW i \in Nat \ {0}, IsRecord(E[i]), E[i][1] # Blank
  PROVE  OwnerAt(E, i) = OwnerName(E[i][1], OriginAt(E, i))
<1> DEFINE named == {j \in 1 .. i : IsRecord(E[j]) /\ E[j][1] # Blank}
<1>1. i \in named /\ named \subseteq Int /\ \A k \in named : k <= i
  OBVIOUS
<1>2. (CHOOSE j \in named : \A k \in named : k <= j) = i /\ named # {}
  <2> HIDE DEF named
  <2> QED  BY <1>1, GreatestIsChosen
<1> QED  BY <1>2 DEF OwnerAt

\* What the reference reads in an entry that the code keeps.
LEMMA RecordIsRead ==
  ASSUME NEW E \in Seq(Seq(STRING)), Explicit(E), NEW i \in 1 .. Len(E),
         IsRecord(E[i]), Keeps(E[i])
  PROVE  RfcRecord(E, i) = RecordOf(E[i], OriginAt(E, i), InEffect(E, "$TTL", i, DefaultTtl))
<1> DEFINE e == E[i]
           at == TypeAt(e)
           ws == SubSeq(e, at + 1, Len(e))
           o == OriginAt(E, i)
           ttls == {e[j] : j \in {j \in 2 .. at - 1 : IsTtl(e[j])}}
<1>1. e \in Seq(STRING) /\ Len(e) \in Nat /\ ~Overlooked(e) /\ e \in ToSet(E)
  BY DEF Keeps, ToSet
<1>2. Len(e) >= 4
  BY <1>1 DEF Overlooked
<1>3. e[1] # Blank
  BY <1>1 DEF Explicit
<1>4. OwnerAt(E, i) = OwnerName(e[1], o)
  BY <1>3, OwnerIsNamed
<1>5. ttls = IF Fits(e[2], 32) THEN {e[2]} ELSE {}
  <2> HIDE DEF e
  <2> QED  BY <1>1, <1>2, TypeIsFound
<1>6. (IF ttls = {} THEN InEffect(E, "$TTL", i, DefaultTtl) ELSE CHOOSE w \in ttls : TRUE)
        = IF Fits(e[2], 32) THEN e[2] ELSE InEffect(E, "$TTL", i, DefaultTtl)
  <2> HIDE DEF ttls, e
  <2> QED  BY <1>5
<1>7. RfcData(e[at], ws, o) = RData(e[at], ws, o)
  <2>1. CASE e[at] # "DNSKEY"
    BY <2>1 DEF RfcData
  <2>2. CASE e[at] = "DNSKEY"
    <3>1. Bit(Value[e[at + 1]], 128) = Bit(Value[e[at + 1]], 32768)
      BY <1>1, <2>2 DEF Explicit, Keeps
    <3>2. at \in 1 .. Len(e) /\ Len(e) - at >= 1
      <4>1. at \in 2 .. 4
        <5> HIDE DEF e
        <5> QED  BY <1>1, <1>2, TypeIsFound
      <4>2. Len(e) - at >= Len(Fields[e[at]]) /\ at <= Len(e) /\ e[at] \in DOMAIN Fields
        BY DEF Keeps, Complete
      <4>3. Len(Fields[e[at]]) \in Nat \ {0}
        BY <4>2, FieldsOfTypes
      <4> HIDE DEF at, e
      <4> QED  BY <1>1, <4>1, <4>2, <4>3
    <3>3. ws[1] = e[at + 1]
      <4>1. ws[1] = e[at + 1]
        <5> HIDE DEF at, e
        <5> QED  BY <1>1, <3>2
      <4> QED  BY <4>1
    <3>4. [DnskeyData(ws) EXCEPT ![3] = <<"flag", Bit(Value[ws[1]], 128)>>] = DnskeyData(ws)
      <4> HIDE DEF ws, e, at
      <4> DEFINE F == Value[ws[1]]
      <4>1. Bit(F, 128) = Bit(F, 32768)
        BY <3>1, <3>3
      <4> DEFINE a == <<"flag", Bit(F, 256)>>
                 b == <<"flag", Bit(F, 1)>>
                 c == <<"flag", Bit(F, 32768)>>
                 d == <<"word", ws[3]>>
                 k == <<"bytes", SubSeq(ws, 4, Len(ws))>>
      <4>2. DnskeyData(ws) = <<a, b, c, d, k>>
        BY DEF DnskeyData
      <4>3. <<"flag", Bit(Value[ws[1]], 128)>> = c
        BY <4>1
      <4> HIDE DEF F, a, b, c, d, k
      <4>4. [<<a, b, c, d, k>> EXCEPT ![3] = c] = <<a, b, c, d, k>>
        OBVIOUS
      <4> QED  BY <4>2, <4>3, <4>4, Zenon
    <3> QED  BY <2>2, <3>4 DEF RfcData, RData
  <2> QED  BY <2>1, <2>2
<1>8. RfcRecord(E, i) = [name |-> OwnerAt(E, i),
         ttl |-> IF ttls = {} THEN InEffect(E, "$TTL", i, DefaultTtl) ELSE CHOOSE w \in ttls : TRUE,
         rtype |-> e[at], data |-> RfcData(e[at], ws, o)]
  BY DEF RfcRecord
<1>9. RecordOf(e, o, InEffect(E, "$TTL", i, DefaultTtl)) = [name |-> OwnerName(e[1], o),
         ttl |-> IF Fits(e[2], 32) THEN e[2] ELSE InEffect(E, "$TTL", i, DefaultTtl),
         rtype |-> e[at], data |-> RData(e[at], ws, o)]
  BY DEF RecordOf
<1> HIDE DEF e, at, ws, o, ttls
<1>10. RfcRecord(E, i) = RecordOf(e, o, InEffect(E, "$TTL", i, DefaultTtl))
  BY <1>4, <1>6, <1>7, <1>8, <1>9
<1> QED  BY <1>10 DEF e, o

\* The records after each entry, by recursion on the entries.
LEMMA RecordsUpToIs ==
  ASSUME NEW E \in Seq(Seq(STRING)), NEW kept
  PROVE  LET read == RecordsUpTo(E, kept)
             S == {RfcRecord(E, i) : i \in 1 .. Len(E)}
         IN  /\ read \in [0 .. Len(E) -> Seq(S)] /\ read[0] = <<>>
             /\ \A i \in 1 .. Len(E) :
                  read[i] = IF i \in kept /\ (\E j \in kept : j <= i /\ RfcRecord(E, j).rtype = "SOA")
                            THEN Append(read[i - 1], RfcRecord(E, i)) ELSE read[i - 1]
<1> DEFINE n == Len(E)
           soas == {i \in kept : RfcRecord(E, i).rtype = "SOA"}
           S == {RfcRecord(E, i) : i \in 1 .. n}
           in(i) == i \in kept /\ (\E j \in soas : j <= i)
           step == [i \in 1 .. n |-> [x \in Seq(S) |-> IF in(i) THEN Append(x, RfcRecord(E, i)) ELSE x]]
           read == RecordsUpTo(E, kept)
<1>1. n \in Nat
  OBVIOUS
<1>2. step \in [1 .. n -> [Seq(S) -> Seq(S)]]
  <2>1. \A i \in 1 .. n : RfcRecord(E, i) \in S
    OBVIOUS
  <2> HIDE DEF S, in
  <2>2. \A i \in 1 .. n : \A x \in Seq(S) : (IF in(i) THEN Append(x, RfcRecord(E, i)) ELSE x) \in Seq(S)
    BY <2>1
  <2> QED  BY <2>2
<1>3. <<>> \in Seq(S)
  OBVIOUS
<1>4. PICK f : Iterates(f, <<>>, step, n, Seq(S))
  <2> HIDE DEF n, step, S
  <2> QED  BY <1>1, <1>2, <1>3, IterationExists
<1> HIDE DEF S
<1>5. f \in [0 .. n -> Seq(S)] /\ f[0] = <<>>
  BY <1>4 DEF Iterates
<1>6. \A i \in 1 .. n : f[i] = IF in(i) THEN Append(f[i - 1], RfcRecord(E, i)) ELSE f[i - 1]
  <2> SUFFICES ASSUME NEW i \in 1 .. n
               PROVE  f[i] = IF in(i) THEN Append(f[i - 1], RfcRecord(E, i)) ELSE f[i - 1]
    OBVIOUS
  <2>1. f[i - 1] \in Seq(S)
    <3>1. i - 1 \in 0 .. n
      BY <1>1
    <3> HIDE DEF n
    <3> QED  BY <1>5, <3>1
  <2>2. f[i] = step[i][f[i - 1]]
    BY <1>4 DEF Iterates
  <2> HIDE DEF n, in
  <2> QED  BY <2>1, <2>2
<1> HIDE DEF step
<1>7. f = [i \in 0 .. n |-> IF i = 0 THEN <<>>
                            ELSE IF in(i) THEN Append(f[i - 1], RfcRecord(E, i)) ELSE f[i - 1]]
  <2>1. ASSUME NEW i \in 0 .. n
        PROVE  f[i] = IF i = 0 THEN <<>> ELSE IF in(i) THEN Append(f[i - 1], RfcRecord(E, i)) ELSE f[i - 1]
    <3>1. CASE i = 0
      BY <1>5, <3>1
    <3>2. CASE i # 0
      <4>1. i \in 1 .. n
        BY <1>1, <3>2
      <4> HIDE DEF n, in
      <4> QED  BY <1>6, <3>2, <4>1, Zenon
    <3> QED  BY <3>1, <3>2
  <2> HIDE DEF n, in
  <2> QED  BY <1>5, <2>1
<1>8. read = [i \in 0 .. n |-> IF i = 0 THEN <<>>
                               ELSE IF in(i) THEN Append(read[i - 1], RfcRecord(E, i)) ELSE read[i - 1]]
  <2>1. read = CHOOSE g : g = [i \in 0 .. n |-> IF i = 0 THEN <<>>
                      ELSE IF in(i) THEN Append(g[i - 1], RfcRecord(E, i)) ELSE g[i - 1]]
    BY DEF RecordsUpTo
  <2> HIDE DEF read, n, in
  <2> QED  BY <1>7, <2>1, Zenon
<1>9. \A i \in 1 .. n : in(i) <=> i \in kept /\ (\E j \in kept : j <= i /\ RfcRecord(E, j).rtype = "SOA")
  OBVIOUS
<1> HIDE DEF read, n, in, soas
<1>10. \A i \in 0 .. n : read[i] = f[i]
  <2>1. read[0] = f[0]
    BY <1>1, <1>5, <1>8
  <2>2. \A i \in 1 .. n : read[i - 1] = f[i - 1] => read[i] = f[i]
    <3> SUFFICES ASSUME NEW i \in 1 .. n, read[i - 1] = f[i - 1] PROVE read[i] = f[i]
      OBVIOUS
    <3>1. i \in 0 .. n /\ i # 0
      BY <1>1
    <3>2. read[i] = IF i = 0 THEN <<>> ELSE IF in(i) THEN Append(read[i - 1], RfcRecord(E, i)) ELSE read[i - 1]
      BY <1>8, <3>1
    <3>3. f[i] = IF in(i) THEN Append(f[i - 1], RfcRecord(E, i)) ELSE f[i - 1]
      BY <1>6
    <3>4. CASE in(i)
      BY <3>1, <3>2, <3>3, <3>4
    <3>5. CASE ~in(i)
      BY <3>1, <3>2, <3>3, <3>5
    <3> QED  BY <3>4, <3>5
  <2>3. Alike(read, f, n)
    BY <2>1, <2>2 DEF Alike
  <2> QED  BY <1>1, <2>3, IterationUnique
<1>11. read = f
  BY <1>5, <1>8, <1>10
<1>12. \A i \in 1 .. n :
         read[i] = IF i \in kept /\ (\E j \in kept : j <= i /\ RfcRecord(E, j).rtype = "SOA")
                   THEN Append(read[i - 1], RfcRecord(E, i)) ELSE read[i - 1]
  <2> SUFFICES ASSUME NEW i \in 1 .. n
               PROVE  read[i] = IF i \in kept /\ (\E j \in kept : j <= i /\ RfcRecord(E, j).rtype = "SOA")
                                THEN Append(read[i - 1], RfcRecord(E, i)) ELSE read[i - 1]
    OBVIOUS
  <2>1. read[i] = IF in(i) THEN Append(read[i - 1], RfcRecord(E, i)) ELSE read[i - 1]
    BY <1>6, <1>11, Zenon
  <2>2. in(i) <=> i \in kept /\ (\E j \in kept : j <= i /\ RfcRecord(E, j).rtype = "SOA")
    BY <1>9
  <2> DEFINE q == i \in kept /\ (\E j \in kept : j <= i /\ RfcRecord(E, j).rtype = "SOA")
  <2>3. in(i) <=> q
    BY <2>2
  <2> HIDE DEF q
  <2>4. read[i] = IF q THEN Append(read[i - 1], RfcRecord(E, i)) ELSE read[i - 1]
    BY <2>1, <2>3, Zenon
  <2> QED  BY <2>4 DEF q
<1> QED  BY <1>5, <1>11, <1>12, Zenon DEF n, S, read

-----------------------------------------------------------------------------
(* Parsing *)

HasSoa(E, m) == \E j \in Kept(E) : j <= m /\ RfcRecord(E, j).rtype = "SOA"

\* After m entries: the directives in effect, and the records read so far.
Parsed(E, m, o, t, z) ==
  /\ o = OriginAt(E, m + 1)
  /\ t = InEffect(E, "$TTL", m + 1, DefaultTtl)
  /\ z = {} => ~HasSoa(E, m) /\ RecordsUpTo(E, Kept(E))[m] = <<>>
  /\ z # {} => HasSoa(E, m)
  /\ \A x \in z : /\ x = [origin |-> x.origin, soa |-> x.soa, records |-> x.records]
                  /\ x.records = RecordsUpTo(E, Kept(E))[m]
  /\ \A i \in 1 .. m : IsRecord(E[i]) => Accepted(E[i])

\* Which entries the code keeps.
LEMMA KeptMeans ==
  ASSUME NEW E \in Seq(Seq(STRING)), NEW i \in 1 .. Len(E)
  PROVE  i \in Kept(E) <=> IsRecord(E[i]) /\ Keeps(E[i])
<1>1. i \in DOMAIN E
  OBVIOUS
<1> QED  BY <1>1, Zenon DEF Kept, Records, Keeps

\* Before the first entry.
LEMMA NothingParsed ==
  ASSUME NEW E \in Seq(Seq(STRING))
  PROVE  Parsed(E, 0, Origin, DefaultTtl, {})
<1>1. OriginAt(E, 1) = Origin
  <2>1. InEffect(E, "$ORIGIN", 1, Blank) = Blank
    BY NoDirectiveYet, Zenon
  <2> QED  BY <2>1, Zenon DEF OriginAt
<1>2. InEffect(E, "$TTL", 1, DefaultTtl) = DefaultTtl
  BY NoDirectiveYet, Zenon
<1>3. Kept(E) \subseteq 1 .. Len(E)
  BY DEF Kept, Records
<1>4. ~HasSoa(E, 0)
  BY <1>3 DEF HasSoa
<1>5. RecordsUpTo(E, Kept(E))[0] = <<>>
  BY RecordsUpToIs, Zenon
<1>6. 1 .. 0 = {} /\ 0 + 1 = 1
  OBVIOUS
<1> QED  BY <1>1, <1>2, <1>4, <1>5, <1>6 DEF Parsed

\* An SOA among the first m + 1 entries is among the first m or is the last.
LEMMA SoaSoFar ==
  ASSUME NEW E \in Seq(Seq(STRING)), NEW m \in Nat
  PROVE  HasSoa(E, m + 1) <=> HasSoa(E, m) \/ (m + 1 \in Kept(E) /\ RfcRecord(E, m + 1).rtype = "SOA")
<1>1. \A j \in Kept(E) : j \in Nat /\ (j <= m + 1 <=> j <= m \/ j = m + 1)
  <2>1. Kept(E) \subseteq 1 .. Len(E)
    BY DEF Kept, Records
  <2>2. \A j \in Nat : j <= m + 1 <=> j <= m \/ j = m + 1
    OBVIOUS
  <2>3. 1 .. Len(E) \subseteq Nat
    OBVIOUS
  <2> HIDE DEF Kept
  <2> QED  BY <2>1, <2>2, <2>3
<1> QED  BY <1>1 DEF HasSoa

\* A directive line leads from Parsed to Parsed.
LEMMA DirectiveIsParsed ==
  ASSUME NEW E \in Seq(Seq(STRING)), NEW m \in Nat, m + 1 \in 1 .. Len(E),
         NEW o, NEW t, NEW z, Parsed(E, m, o, t, z), ~IsRecord(E[m + 1])
  PROVE  LET e == E[m + 1]
         IN  /\ e[1] = "$ORIGIN" /\ Len(e) >= 2 /\ e[2] \in DOMAIN Labels =>
                  Parsed(E, m + 1, Labels[e[2]], t, z)
             /\ e[1] = "$TTL" /\ Len(e) >= 2 => Parsed(E, m + 1, o, e[2], z)
             /\ e[1] \notin {"$ORIGIN", "$TTL"} \/ Len(e) < 2 => Parsed(E, m + 1, o, t, z)
<1> DEFINE e == E[m + 1]
           read == RecordsUpTo(E, Kept(E))
<1>0. e \in Seq(STRING) /\ Len(e) \in Nat /\ (m + 1) - 1 = m /\ (m + 1) + 1 = m + 2
  OBVIOUS
<1>1. m + 1 \notin Kept(E)
  BY KeptMeans
<1>2. read[m + 1] = read[m]
  <2>1. read[m + 1] = read[(m + 1) - 1]
    <3>1. \A i \in 1 .. Len(E) : i \notin Kept(E) => read[i] = read[i - 1]
      BY RecordsUpToIs, Zenon
    <3> HIDE DEF read
    <3> QED  BY <1>1, <3>1
  <2> QED  BY <1>0, <2>1
<1>3. HasSoa(E, m + 1) <=> HasSoa(E, m)
  BY <1>1, SoaSoFar
<1>4. \A i \in 1 .. m + 1 : IsRecord(E[i]) => Accepted(E[i])
  <2> SUFFICES ASSUME NEW i \in 1 .. m + 1, IsRecord(E[i])
               PROVE  Accepted(E[i])
    OBVIOUS
  <2>1. i \in 1 .. m
    OBVIOUS
  <2> QED  BY <2>1 DEF Parsed
<1>5. ASSUME NEW o2, NEW t2, o2 = OriginAt(E, m + 2), t2 = InEffect(E, "$TTL", m + 2, DefaultTtl)
      PROVE  Parsed(E, m + 1, o2, t2, z)
  <2> HIDE DEF read
  <2>1. /\ z = {} => ~HasSoa(E, m) /\ read[m] = <<>>
        /\ z # {} => HasSoa(E, m)
        /\ \A x \in z : /\ x = [origin |-> x.origin, soa |-> x.soa, records |-> x.records]
                        /\ x.records = read[m]
    BY DEF Parsed, read
  <2>2. o2 = OriginAt(E, (m + 1) + 1) /\ t2 = InEffect(E, "$TTL", (m + 1) + 1, DefaultTtl)
    BY <1>0, <1>5
  <2> QED  BY <1>2, <1>3, <1>4, <2>1, <2>2, Zenon DEF Parsed, read
<1>6. o = OriginAt(E, m + 1) /\ t = InEffect(E, "$TTL", m + 1, DefaultTtl)
  BY DEF Parsed
<1> DEFINE i == m + 1
<1>i. i \in Nat \ {0} /\ i + 1 = m + 2
  OBVIOUS
<1>7. ASSUME ~(e[1] = "$ORIGIN" /\ Len(e) >= 2) PROVE o = OriginAt(E, m + 2)
  <2>1. InEffect(E, "$ORIGIN", m + 2, Blank) = InEffect(E, "$ORIGIN", m + 1, Blank)
    <3>1. E[i][1] # "$ORIGIN" \/ ~(Len(E[i]) >= 2)
      BY <1>7
    <3> HIDE DEF i
    <3>2. InEffect(E, "$ORIGIN", i + 1, Blank) = InEffect(E, "$ORIGIN", i, Blank)
      BY <1>i, <3>1, DirectiveStays, Zenon
    <3> QED  BY <1>i, <3>2, Zenon DEF i
  <2> QED  BY <1>6, <2>1, Zenon DEF OriginAt
<1>8. ASSUME ~(e[1] = "$TTL" /\ Len(e) >= 2) PROVE t = InEffect(E, "$TTL", m + 2, DefaultTtl)
  <2>1. E[i][1] # "$TTL" \/ ~(Len(E[i]) >= 2)
    BY <1>8
  <2> HIDE DEF i
  <2>2. InEffect(E, "$TTL", i + 1, DefaultTtl) = InEffect(E, "$TTL", i, DefaultTtl)
    BY <1>i, <2>1, DirectiveStays, Zenon
  <2> QED  BY <1>i, <1>6, <2>2, Zenon DEF i
<1>9. ASSUME e[1] = "$ORIGIN", Len(e) >= 2, e[2] \in DOMAIN Labels PROVE Labels[e[2]] = OriginAt(E, m + 2)
  <2>1. InEffect(E, "$ORIGIN", m + 2, Blank) = e[2]
    <3> HIDE DEF i
    <3>1. E[i][1] = "$ORIGIN" /\ Len(E[i]) >= 2
      BY <1>9 DEF i
    <3>2. InEffect(E, E[i][1], i + 1, Blank) = E[i][2]
      BY <1>i, <3>1, DirectiveTakesEffect, Zenon
    <3> QED  BY <1>i, <3>1, <3>2, Zenon DEF i
  <2>2. e[2] # Blank
    BY <1>9, ZoneFileAssumption
  <2> QED  BY <2>1, <2>2, Zenon DEF OriginAt
<1>10. ASSUME e[1] = "$TTL", Len(e) >= 2 PROVE e[2] = InEffect(E, "$TTL", m + 2, DefaultTtl)
  <2> HIDE DEF i
  <2>1. E[i][1] = "$TTL" /\ Len(E[i]) >= 2
    BY <1>10 DEF i
  <2>2. InEffect(E, E[i][1], i + 1, DefaultTtl) = E[i][2]
    BY <1>i, <2>1, DirectiveTakesEffect, Zenon
  <2> QED  BY <1>i, <2>1, <2>2, Zenon DEF i
<1>11. ASSUME e[1] = "$ORIGIN", Len(e) >= 2, e[2] \in DOMAIN Labels
       PROVE  Parsed(E, m + 1, Labels[e[2]], t, z)
  BY <1>5, <1>8, <1>9, <1>11
<1>12. ASSUME e[1] = "$TTL", Len(e) >= 2 PROVE Parsed(E, m + 1, o, e[2], z)
  BY <1>5, <1>7, <1>10, <1>12
<1>13. ASSUME e[1] \notin {"$ORIGIN", "$TTL"} \/ Len(e) < 2 PROVE Parsed(E, m + 1, o, t, z)
  <2>1. ~(e[1] = "$ORIGIN" /\ Len(e) >= 2) /\ ~(e[1] = "$TTL" /\ Len(e) >= 2)
    BY <1>0, <1>13
  <2> QED  BY <1>5, <1>7, <1>8, <2>1
<1> QED  BY <1>11, <1>12, <1>13

\* The zone after a record line that gave these records.
ZoneWith(z, records) ==
  IF z = {} /\ \E r \in ToSet(records) : r.rtype = "SOA"
  THEN {[origin |-> Origin, soa |-> ExtractSoaData(records[1]), records |-> records]}
  ELSE {[x EXCEPT !.records = @ \o records] : x \in z}

\* A record line that is accepted leads from Parsed to Parsed.
LEMMA RecordIsKept ==
  ASSUME NEW E \in Seq(Seq(STRING)), Explicit(E), NEW m \in Nat, m + 1 \in 1 .. Len(E),
         NEW o, NEW t, NEW z, Parsed(E, m, o, t, z), IsRecord(E[m + 1]), E[m + 1] # <<>>,
         NEW p, p = ParseResourceRecord(E[m + 1], o, t), p.out = "ok"
  PROVE  Parsed(E, m + 1, o, t, ZoneWith(z, p.records))
<1> DEFINE e == E[m + 1]
           read == RecordsUpTo(E, Kept(E))
           S == {RfcRecord(E, i) : i \in 1 .. Len(E)}
           rec == RfcRecord(E, m + 1)
           one == {[origin |-> Origin, soa |-> ExtractSoaData(p.records[1]), records |-> p.records]}
           more == {[x EXCEPT !.records = @ \o p.records] : x \in z}
           to == IF z = {} /\ \E r \in ToSet(p.records) : r.rtype = "SOA" THEN one ELSE more
<1>0. e \in Seq(STRING) /\ Len(e) \in Nat /\ (m + 1) - 1 = m /\ (m + 1) + 1 = m + 2 /\ e \in ToSet(E)
  BY DEF ToSet
<1>1. e[1] # Blank
  BY <1>0 DEF Explicit
<1>2. /\ o = OriginAt(E, m + 1) /\ t = InEffect(E, "$TTL", m + 1, DefaultTtl)
      /\ z = {} => ~HasSoa(E, m) /\ read[m] = <<>>
      /\ z # {} => HasSoa(E, m)
      /\ \A x \in z : /\ x = [origin |-> x.origin, soa |-> x.soa, records |-> x.records]
                      /\ x.records = read[m]
  BY DEF Parsed
<1>3. o = OriginAt(E, m + 2) /\ t = InEffect(E, "$TTL", m + 2, DefaultTtl)
  <2>1. e[1] # "$ORIGIN" /\ e[1] # "$TTL"
    BY ZoneFileAssumption DEF IsRecord
  <2> DEFINE i == m + 1
  <2>i. i \in Nat \ {0} /\ i + 1 = m + 2 /\ E[i] = e
    OBVIOUS
  <2> HIDE DEF i, e
  <2>2. InEffect(E, "$ORIGIN", m + 2, Blank) = InEffect(E, "$ORIGIN", m + 1, Blank)
    <3>1. InEffect(E, "$ORIGIN", i + 1, Blank) = InEffect(E, "$ORIGIN", i, Blank)
      BY <2>1, <2>i, DirectiveStays, Zenon
    <3> QED  BY <2>i, <3>1, Zenon DEF i
  <2>3. InEffect(E, "$TTL", m + 2, DefaultTtl) = InEffect(E, "$TTL", m + 1, DefaultTtl)
    <3>1. InEffect(E, "$TTL", i + 1, DefaultTtl) = InEffect(E, "$TTL", i, DefaultTtl)
      BY <2>1, <2>i, DirectiveStays, Zenon
    <3> QED  BY <2>i, <3>1, Zenon DEF i
  <2> QED  BY <1>2, <2>2, <2>3, Zenon DEF OriginAt
<1>4. /\ Accepted(e)
      /\ Keeps(e) => p.records = <<RecordOf(e, o, t)>>
      /\ ~Keeps(e) => p.records = <<>>
  <2> HIDE DEF e
  <2>1. p = ParseResourceRecord(e, o, t) /\ e # <<>>
    BY DEF e
  <2> DEFINE q == ParseResourceRecord(e, o, t)
  <2>2. e # <<>> /\ e[1] # Blank /\ q.out = "ok" =>
          /\ Accepted(e)
          /\ Keeps(e) => q.records = <<RecordOf(e, o, t)>>
          /\ ~Keeps(e) => q.records = <<>>
    BY <1>0, RecordIsParsed, Zenon
  <2> QED  BY <1>1, <2>1, <2>2, Zenon
<1>5. m + 1 \in Kept(E) <=> Keeps(e)
  BY KeptMeans
<1>6. Keeps(e) => p.records = <<rec>>
  <2>1. Keeps(e) => rec = RecordOf(e, OriginAt(E, m + 1), InEffect(E, "$TTL", m + 1, DefaultTtl))
    BY RecordIsRead
  <2> QED  BY <1>2, <1>4, <2>1
<1>7. \A i \in 1 .. m + 1 : IsRecord(E[i]) => Accepted(E[i])
  <2> SUFFICES ASSUME NEW i \in 1 .. m + 1, IsRecord(E[i])
               PROVE  Accepted(E[i])
    OBVIOUS
  <2>1. CASE i \in 1 .. m
    BY <2>1 DEF Parsed
  <2>2. CASE i = m + 1
    BY <1>4, <2>2
  <2> QED  BY <2>1, <2>2
<1>8. /\ read \in [0 .. Len(E) -> Seq(S)] /\ m \in 0 .. Len(E) /\ rec \in S
      /\ read[m + 1] = IF m + 1 \in Kept(E) /\ HasSoa(E, m + 1) THEN Append(read[m], rec) ELSE read[m]
  <2>1. read \in [0 .. Len(E) -> Seq(S)]
    BY RecordsUpToIs, Zenon
  <2>2. \A i \in 1 .. Len(E) :
          read[i] = IF i \in Kept(E) /\ HasSoa(E, i) THEN Append(read[i - 1], RfcRecord(E, i)) ELSE read[i - 1]
    BY RecordsUpToIs, Zenon DEF HasSoa
  <2>3. read[m + 1] = IF m + 1 \in Kept(E) /\ HasSoa(E, m + 1)
                      THEN Append(read[(m + 1) - 1], RfcRecord(E, m + 1)) ELSE read[(m + 1) - 1]
    <3> HIDE DEF read
    <3> QED  BY <2>2, Zenon
  <2>4. m \in 0 .. Len(E) /\ rec \in S
    OBVIOUS
  <2> HIDE DEF read, S
  <2>5. (m + 1) - 1 = m
    OBVIOUS
  <2> QED  BY <2>1, <2>3, <2>4, <2>5, Zenon
<1>9. HasSoa(E, m + 1) <=> HasSoa(E, m) \/ (Keeps(e) /\ rec.rtype = "SOA")
  BY <1>5, SoaSoFar
<1>10. read[m] \in Seq(S)
  <2> HIDE DEF read, S
  <2> QED  BY <1>8
<1> HIDE DEF e, read, S, rec
<1>11. SUFFICES Parsed(E, m + 1, o, t, to)
  BY Zenon DEF ZoneWith
<1>12. CASE z = {} /\ Keeps(e) /\ rec.rtype = "SOA"
  <2>1. p.records = <<rec>>
    BY <1>6, <1>12
  <2>2. \E r \in ToSet(p.records) : r.rtype = "SOA"
    <3>1. ToSet(<<rec>>) = {rec}
      BY DEF ToSet
    <3> QED  BY <1>12, <2>1, <3>1
  <2>3. to = one
    BY <1>12, <2>2
  <2>4. read[m + 1] = p.records
    <3>1. read[m + 1] = Append(read[m], rec) /\ read[m] = <<>>
      BY <1>2, <1>5, <1>8, <1>9, <1>12, Zenon
    <3>2. Append(<<>>, rec) = <<rec>>
      OBVIOUS
    <3> QED  BY <2>1, <3>1, <3>2, Zenon
  <2>5. HasSoa(E, m + 1)
    BY <1>9, <1>12
  <2>6. one # {} /\ \A x \in one : /\ x = [origin |-> x.origin, soa |-> x.soa, records |-> x.records]
                                   /\ x.records = p.records
    OBVIOUS
  <2>7. o = OriginAt(E, (m + 1) + 1) /\ t = InEffect(E, "$TTL", (m + 1) + 1, DefaultTtl)
    BY <1>0, <1>3
  <2> HIDE DEF one, to
  <2> QED  BY <1>7, <2>3, <2>4, <2>5, <2>6, <2>7, Zenon DEF Parsed, read
<1>13. CASE z = {} /\ ~(Keeps(e) /\ rec.rtype = "SOA")
  <2>1. ~\E r \in ToSet(p.records) : r.rtype = "SOA"
    <3>1. CASE Keeps(e)
      <4>1. p.records = <<rec>> /\ rec.rtype # "SOA"
        BY <1>6, <1>13, <3>1
      <4>2. ToSet(<<rec>>) = {rec}
        BY DEF ToSet
      <4> QED  BY <4>1, <4>2
    <3>2. CASE ~Keeps(e)
      <4>1. p.records = <<>> /\ ToSet(<<>>) = {}
        BY <1>4, <3>2 DEF ToSet
      <4> QED  BY <4>1
    <3> QED  BY <3>1, <3>2
  <2>2. to = {}
    BY <1>13, <2>1
  <2>3. ~HasSoa(E, m + 1) /\ read[m + 1] = <<>>
    BY <1>2, <1>8, <1>9, <1>13, Zenon
  <2>4. o = OriginAt(E, (m + 1) + 1) /\ t = InEffect(E, "$TTL", (m + 1) + 1, DefaultTtl)
    BY <1>0, <1>3
  <2> HIDE DEF to
  <2> QED  BY <1>7, <2>2, <2>3, <2>4, Zenon DEF Parsed, read
<1>14. CASE z # {}
  <2>1. to = more /\ more # {} /\ HasSoa(E, m + 1)
    BY <1>2, <1>9, <1>14
  <2>2. read[m + 1] = read[m] \o p.records
    <3>1. CASE Keeps(e)
      <4>1. p.records = <<rec>> /\ read[m + 1] = Append(read[m], rec)
        BY <1>5, <1>6, <1>8, <2>1, <3>1, Zenon
      <4>2. Append(read[m], rec) = read[m] \o <<rec>>
        BY <1>8, <1>10, AppendIsConcat
      <4> QED  BY <4>1, <4>2, Zenon
    <3>2. CASE ~Keeps(e)
      <4>1. p.records = <<>> /\ read[m + 1] = read[m]
        BY <1>4, <1>5, <1>8, <3>2, Zenon
      <4>2. read[m] \o <<>> = read[m]
        BY <1>10, ConcatEmptySeq
      <4> QED  BY <4>1, <4>2, Zenon
    <3> QED  BY <3>1, <3>2
  <2>3. \A y \in more : /\ y = [origin |-> y.origin, soa |-> y.soa, records |-> y.records]
                        /\ y.records = read[m + 1]
    <3> SUFFICES ASSUME NEW x \in z, NEW y, y = [x EXCEPT !.records = @ \o p.records]
                 PROVE  /\ y = [origin |-> y.origin, soa |-> y.soa, records |-> y.records]
                        /\ y.records = read[m + 1]
      OBVIOUS
    <3>1. x = [origin |-> x.origin, soa |-> x.soa, records |-> x.records] /\ x.records = read[m]
      BY <1>2
    <3> DEFINE q == read[m] \o p.records
    <3>2. y = [x EXCEPT !.records = q]
      BY <3>1
    <3> HIDE DEF q
    <3>3. y = [origin |-> x.origin, soa |-> x.soa, records |-> q]
      BY <3>1, <3>2
    <3> DEFINE a == x.origin
               b == x.soa
    <3> HIDE DEF a, b
    <3>4. y = [origin |-> a, soa |-> b, records |-> q]
      BY <3>3 DEF a, b
    <3>5. y.records = q /\ y.origin = a /\ y.soa = b
      BY <3>4
    <3>6. y.records = q /\ y = [origin |-> y.origin, soa |-> y.soa, records |-> y.records]
      BY <3>4, <3>5, Zenon
    <3> QED  BY <2>2, <3>6, Zenon DEF q
  <2>4. o = OriginAt(E, (m + 1) + 1) /\ t = InEffect(E, "$TTL", (m + 1) + 1, DefaultTtl)
    BY <1>0, <1>3
  <2> HIDE DEF to, more
  <2> QED  BY <1>7, <2>1, <2>3, <2>4, Zenon DEF Parsed, read
<1> QED  BY <1>12, <1>13, <1>14

-----------------------------------------------------------------------------
(* From the lines to the entries *)

EntriesIn(end) == IF end.entry = <<>> THEN end.entries ELSE Append(end.entries, end.entry)

\* The entries are sequences of words.
LEMMA EntriesType ==
  ASSUME NEW end \in ScanStates
  PROVE  EntriesIn(end) \in Seq(Seq(STRING))
<1>1. end.entry \in Seq(STRING) /\ end.entries \in Seq(Seq(STRING))
  BY DEF ScanStates
<1> DEFINE S == Seq(STRING)
           e == end.entry
           es == end.entries
<1>2. e \in S /\ es \in Seq(S)
  BY <1>1
<1> HIDE DEF S, e, es
<1>3. Append(es, e) \in Seq(S)
  BY <1>2
<1> QED  BY <1>2, <1>3, Zenon DEF EntriesIn, S, e, es

\* At the end of the file the lines are the entries, parentheses that were never
\* closed included.
LEMMA AllJoined ==
  ASSUME NEW end \in ScanStates, NEW paren \in BOOLEAN, NEW cur, NEW res \in Seq(Seq(STRING)),
         Joined(end, paren, cur, res), Explicit(EntriesIn(end))
  PROVE  Without(IF cur = <<>> THEN res ELSE Append(res, cur), <<>>) = EntriesIn(end)
<1> DEFINE es == end.entries
           e == end.entry
           S == Seq(STRING)
<1>1. es \in Seq(S) /\ e \in S /\ cur = Trim(e) /\ Without(res, <<>>) = TrimAll(es)
  BY DEF ScanStates, Joined
<1> HIDE DEF S
<1>2. \A i \in DOMAIN es : es[i] \in ToSet(EntriesIn(end))
  <2>1. CASE e = <<>>
    BY <2>1 DEF EntriesIn, ToSet
  <2>2. CASE e # <<>>
    <3>1. EntriesIn(end) = Append(es, e)
      BY <2>2 DEF EntriesIn
    <3> HIDE DEF es, e
    <3>2. \A i \in DOMAIN es : i \in DOMAIN Append(es, e) /\ Append(es, e)[i] = es[i]
      BY <1>1
    <3> QED  BY <3>1, <3>2 DEF ToSet
  <2> QED  BY <2>1, <2>2
<1>3. \A w \in ToSet(EntriesIn(end)) : Trim(w) = w
  BY DEF Explicit, Trim
<1>4. TrimAll(es) = es
  <2>1. \A i \in DOMAIN es : Trim(es[i]) = es[i]
    BY <1>2, <1>3
  <2> HIDE DEF es
  <2>2. es = [i \in DOMAIN es |-> es[i]]
    BY <1>1
  <2> QED  BY <2>1, <2>2 DEF TrimAll
<1>5. CASE e = <<>>
  <2>1. cur = <<>>
    BY <1>1, <1>5 DEF Trim
  <2> QED  BY <1>1, <1>4, <1>5, <2>1 DEF EntriesIn
<1>6. CASE e # <<>>
  <2>1. EntriesIn(end) = Append(es, e)
    BY <1>6 DEF EntriesIn
  <2>2. e \in ToSet(EntriesIn(end))
    <3> HIDE DEF es, e
    <3>1. Len(es) + 1 \in DOMAIN Append(es, e) /\ Append(es, e)[Len(es) + 1] = e
      BY <1>1
    <3> QED  BY <2>1, <3>1 DEF ToSet
  <2>3. cur = e
    BY <1>1, <1>3, <2>2
  <2>4. Without(Append(res, e), <<>>) = Append(Without(res, <<>>), e)
    <3> HIDE DEF e
    <3>1. res \in Seq(S) /\ e \in S
      BY <1>1 DEF S
    <3> QED  BY <1>6, <3>1, WithoutAppend
  <2>5. Without(Append(res, e), <<>>) = EntriesIn(end)
    BY <1>1, <1>4, <2>1, <2>4
  <2> HIDE DEF e
  <2> QED  BY <1>6, <2>3, <2>5
<1> QED  BY <1>5, <1>6

\* The entries among the first i lines.
Passed(res, i) == Len(Without(SubSeq(res, 1, i), <<>>))

\* An empty line is no entry; any other is the next one.
LEMMA NextLine ==
  ASSUME NEW res \in Seq(Seq(STRING)), NEW i \in Nat, i + 1 \in 1 .. Len(res)
  PROVE  /\ Passed(res, i) \in Nat
         /\ res[i + 1] = <<>> => Passed(res, i + 1) = Passed(res, i)
         /\ res[i + 1] # <<>> =>
              /\ Passed(res, i + 1) = Passed(res, i) + 1
              /\ Passed(res, i) + 1 \in 1 .. Len(Without(res, <<>>))
              /\ Without(res, <<>>)[Passed(res, i) + 1] = res[i + 1]
<1> DEFINE S == Seq(STRING)
           j == i + 1
<1>0. res \in Seq(S) /\ j \in 1 .. Len(res) /\ j - 1 = i /\ i \in 0 .. Len(res)
  OBVIOUS
<1> HIDE DEF S, j
<1>1. /\ SubSeq(res, 1, i) \in Seq(S) /\ res[j] \in S
      /\ SubSeq(res, 1, j) = Append(SubSeq(res, 1, j - 1), res[j])
  BY <1>0, PrefixGrows, Zenon
<1>2. Without(SubSeq(res, 1, i), <<>>) \in Seq(S)
  BY <1>1, WithoutTypes, Zenon
<1>3. Passed(res, i) \in Nat
  <2> DEFINE w == Without(SubSeq(res, 1, i), <<>>)
  <2>1. w \in Seq(S)
    BY <1>2
  <2> HIDE DEF w
  <2>2. Len(w) \in Nat
    BY <2>1
  <2> QED  BY <2>2 DEF w, Passed
<1>4. res[j] = <<>> => Passed(res, j) = Passed(res, i)
  <2> SUFFICES ASSUME res[j] = <<>> PROVE Passed(res, j) = Passed(res, i)
    OBVIOUS
  <2> DEFINE p == SubSeq(res, 1, i)
  <2>1. p \in Seq(S) /\ SubSeq(res, 1, j) = Append(p, res[j])
    BY <1>0, <1>1, Zenon
  <2> HIDE DEF p
  <2>2. Without(Append(p, res[j]), <<>>) = Without(p, <<>>)
    BY <1>1, <2>1, WithoutAppend
  <2> QED  BY <2>1, <2>2, Zenon DEF Passed, p
<1>5. res[j] # <<>> =>
        /\ Passed(res, j - 1) + 1 \in 1 .. Len(Without(res, <<>>))
        /\ Without(res, <<>>)[Passed(res, j - 1) + 1] = res[j]
        /\ Passed(res, j) = Passed(res, j - 1) + 1
  BY <1>0, WithoutPlace, Zenon DEF Passed
<1> QED  BY <1>0, <1>3, <1>4, <1>5, Zenon DEF j

-----------------------------------------------------------------------------
(* The invariant *)

TypeInv ==
  /\ content \in Files \cup {<<>>}
  /\ line \in Nat /\ in_parens \in BOOLEAN
  /\ current_line \in Seq(STRING) /\ result \in Seq(Seq(STRING))
  /\ status \in {"reading", "joining", "parsing", "loaded", "failed"}
  /\ status = "reading" => line = 0 /\ ~in_parens /\ current_line = <<>> /\ result = <<>>
  /\ status = "joining" => line <= Len(content)
  /\ status \in {"reading", "joining"} =>
       default_ttl = DefaultTtl /\ current_origin = Origin /\ zone = {}
  /\ status = "parsing" => line <= Len(result)
  /\ status = "loaded" => line = Len(result)

\* While lines are joined: what is put together is what the reference has read.
JoinInv ==
  status = "joining" /\ Joinable(content) =>
    Joined(RfcScan(content)[line], in_parens, current_line, result)

\* While lines are parsed: they are the entries of the file, and what has been
\* kept of them is what the reference keeps.
ParseInv ==
  status \in {"parsing", "loaded"} /\ Joinable(content) /\ Explicit(Entries) =>
    /\ Without(result, <<>>) = Entries
    /\ Parsed(Entries, Passed(result, line), current_origin, default_ttl, zone)

IInv == TypeInv /\ JoinInv /\ ParseInv

\* The lines of a file, white space only at their beginning.
LEMMA ContentTypes ==
  ASSUME TypeInv
  PROVE  /\ content \in Seq(Seq(STRING)) /\ Len(content) \in Nat
         /\ \A i \in 1 .. Len(content) :
              content[i] \in Seq(STRING) /\ \A j \in 1 .. Len(content[i]) : content[i][j] = Blank => j = 1
<1>1. content \in Seq(Seq(STRING))
  <2> DEFINE S == Seq(STRING)
  <2>1. Files \subseteq Seq(S)
    BY ZoneFileAssumption
  <2> HIDE DEF S
  <2>2. <<>> \in Seq(S)
    OBVIOUS
  <2> QED  BY <2>1, <2>2 DEF TypeInv, S
<1>2. \A i \in DOMAIN content : \A j \in DOMAIN content[i] : content[i][j] = Blank => j = 1
  BY ZoneFileAssumption DEF TypeInv
<1>3. \A i \in 1 .. Len(content) : i \in DOMAIN content /\ content[i] \in Seq(STRING)
  BY <1>1
<1>4. \A i \in 1 .. Len(content) : DOMAIN content[i] = 1 .. Len(content[i])
  BY <1>3
<1>5. Len(content) \in Nat
  BY <1>1
<1> QED  BY <1>1, <1>2, <1>3, <1>4, <1>5, Zenon

\* The reference reads every file.
LEMMA EntriesAre ==
  ASSUME TypeInv
  PROVE  /\ RfcScan(content) \in [0 .. Len(content) -> ScanStates]
         /\ Entries = EntriesIn(RfcScan(content)[Len(content)])
         /\ Entries \in Seq(Seq(STRING))
<1>1. content \in Seq(Seq(STRING)) /\ Len(content) \in Nat
  BY ContentTypes
<1>2. RfcScan(content) \in [0 .. Len(content) -> ScanStates]
  BY <1>1, RfcScanIs, Zenon
<1>3. Entries = EntriesIn(RfcScan(content)[Len(content)])
  BY Zenon DEF Entries, EntriesIn
<1>4. Len(content) \in 0 .. Len(content)
  BY <1>1
<1>5. RfcScan(content)[Len(content)] \in ScanStates
  BY <1>2, <1>4, Zenon
<1> QED  BY <1>2, <1>3, <1>5, EntriesType, Zenon

\* The code of a line, trimmed, is a sequence of words.
LEMMA TrimmedType ==
  ASSUME NEW l \in Seq(STRING)
  PROVE  Trim(StripComment(l)) \in Seq(STRING)
<1>1. PICK n : CodeEnds(l, n)
  BY CodeEndsSomewhere
<1>2. n \in 0 .. Len(l) /\ StripComment(l) = SubSeq(l, 1, n)
  BY <1>1 DEF CodeEnds
<1>3. StripComment(l) \in Seq(STRING)
  BY <1>2, PrefixGrows
<1> QED  BY <1>3, TrimType

\* The facts the four actions that join a line share.
LEMMA LineToJoin ==
  ASSUME TypeInv, JoinInv, Joining
  PROVE  /\ trimmed \in Seq(STRING) /\ line + 1 \in Nat /\ line + 1 <= Len(content)
         /\ Joinable(content) => LET to == RfcScan(content)[line + 1] IN
              /\ Contains(trimmed, Open) =>
                   Joined(to, TRUE, current_line \o Without(trimmed, Open), result)
              /\ ~Contains(trimmed, Open) /\ Contains(trimmed, Close) =>
                   Joined(to, FALSE, <<>>, Append(result, current_line \o Without(trimmed, Close)))
              /\ ~Contains(trimmed, Open) /\ ~Contains(trimmed, Close) /\ in_parens =>
                   Joined(to, in_parens, current_line \o trimmed, result)
              /\ ~Contains(trimmed, Open) /\ ~Contains(trimmed, Close) /\ ~in_parens =>
                   Joined(to, in_parens, current_line,
                          IF trimmed = <<>> THEN result ELSE Append(result, trimmed))
<1> DEFINE l == content[line + 1]
           st == RfcScan(content)[line]
           i == line + 1
<1>1. content \in Seq(Seq(STRING)) /\ Len(content) \in Nat /\ line \in Nat
  BY ContentTypes DEF TypeInv
<1>2. line + 1 \in 1 .. Len(content) /\ line \in 0 .. Len(content) /\ (line + 1) - 1 = line
  BY <1>1 DEF Joining
<1>3. l \in Seq(STRING) /\ \A j \in 1 .. Len(l) : l[j] = Blank => j = 1
  BY <1>2, ContentTypes
<1>4. trimmed \in Seq(STRING)
  BY <1>3, TrimmedType, Zenon DEF trimmed
<1>5. /\ RfcScan(content) \in [0 .. Len(content) -> ScanStates]
      /\ \A k \in 1 .. Len(content) : RfcScan(content)[k] = RfcLine(RfcScan(content)[k - 1], content[k])
  BY <1>1, RfcScanIs, Zenon
<1>6. st \in ScanStates
  BY <1>2, <1>5, Zenon
<1>7. RfcScan(content)[line + 1] = RfcLine(st, l)
  <2>1. RfcScan(content)[i] = RfcLine(RfcScan(content)[i - 1], content[i]) /\ i - 1 = line
    <3> HIDE DEF i
    <3>1. i \in 1 .. Len(content)
      BY <1>2 DEF i
    <3>2. i - 1 = line
      BY <1>2 DEF i
    <3> QED  BY <1>5, <3>1, <3>2, Zenon
  <2> QED  BY <2>1, Zenon
<1>8. ASSUME Joinable(content)
      PROVE  LET to == RfcLine(st, l) IN
              /\ Contains(trimmed, Open) =>
                   Joined(to, TRUE, current_line \o Without(trimmed, Open), result)
              /\ ~Contains(trimmed, Open) /\ Contains(trimmed, Close) =>
                   Joined(to, FALSE, <<>>, Append(result, current_line \o Without(trimmed, Close)))
              /\ ~Contains(trimmed, Open) /\ ~Contains(trimmed, Close) /\ in_parens =>
                   Joined(to, in_parens, current_line \o trimmed, result)
              /\ ~Contains(trimmed, Open) /\ ~Contains(trimmed, Close) /\ ~in_parens =>
                   Joined(to, in_parens, current_line,
                          IF trimmed = <<>> THEN result ELSE Append(result, trimmed))
  <2>1. JoinableLine(st, l)
    <3>1. \A k \in DOMAIN content : JoinableLine(RfcScan(content)[k - 1], content[k])
      BY <1>8, Zenon DEF Joinable
    <3>2. line + 1 \in DOMAIN content
      BY <1>1, <1>2
    <3>3. JoinableLine(RfcScan(content)[(line + 1) - 1], content[line + 1])
      BY <3>1, <3>2, Zenon
    <3> QED  BY <1>2, <3>3, Zenon
  <2>2. Joined(st, in_parens, current_line, result)
    BY <1>8, Zenon DEF JoinInv, Joining
  <2>3. in_parens \in BOOLEAN /\ result \in Seq(Seq(STRING))
    BY DEF TypeInv
  <2>4. trimmed = Trim(StripComment(l))
    BY Zenon DEF trimmed
  <2> HIDE DEF l, st
  <2> QED  BY <1>3, <1>6, <2>1, <2>2, <2>3, <2>4, LineIsJoined, Zenon
<1>9. line + 1 \in Nat /\ line + 1 <= Len(content)
  BY <1>1, <1>2
<1> QED  BY <1>4, <1>7, <1>8, <1>9, Zenon

\* The types of what the joining actions put together.
LEMMA JoinTypes ==
  ASSUME NEW cur \in Seq(STRING), NEW t \in Seq(STRING), NEW res \in Seq(Seq(STRING)), NEW w
  PROVE  /\ cur \o t \in Seq(STRING)
         /\ cur \o Without(t, w) \in Seq(STRING)
         /\ Append(res, cur \o Without(t, w)) \in Seq(Seq(STRING))
         /\ Append(res, t) \in Seq(Seq(STRING))
         /\ <<>> \in Seq(STRING)
<1> DEFINE S == Seq(STRING)
           u == Without(t, w)
<1>1. u \in Seq(STRING)
  BY WithoutTypes
<1> HIDE DEF u
<1>2. cur \o u \in Seq(STRING) /\ cur \o t \in Seq(STRING) /\ <<>> \in Seq(STRING)
  BY <1>1
<1> DEFINE v == cur \o u
<1>3. v \in S /\ res \in Seq(S) /\ t \in S
  BY <1>2
<1> HIDE DEF v, S
<1>4. Append(res, v) \in Seq(S) /\ Append(res, t) \in Seq(S)
  BY <1>3
<1> QED  BY <1>2, <1>4, Zenon DEF u, v, S

\* The four branches of the loop of preprocess_zone_content keep the invariant.
LEMMA JoinLineStep ==
  ASSUME IInv, JoinOpen \/ JoinClose \/ JoinInside \/ JoinOutside
  PROVE  IInv'
<1>1. TypeInv /\ JoinInv /\ Joining
  BY DEF IInv, JoinOpen, JoinClose, JoinInside, JoinOutside
<1>2. /\ status = "joining" /\ status' = "joining" /\ content' = content /\ line' = line + 1
      /\ default_ttl' = default_ttl /\ current_origin' = current_origin /\ zone' = zone
  BY DEF Joining, JoinOpen, JoinClose, JoinInside, JoinOutside
<1>3. trimmed \in Seq(STRING) /\ line + 1 \in Nat /\ line + 1 <= Len(content)
  BY <1>1, LineToJoin, Zenon
<1>4. current_line \in Seq(STRING) /\ result \in Seq(Seq(STRING)) /\ in_parens \in BOOLEAN
  BY <1>1 DEF TypeInv
<1>5. /\ current_line \o trimmed \in Seq(STRING) /\ <<>> \in Seq(STRING)
      /\ Append(result, trimmed) \in Seq(Seq(STRING))
      /\ \A w : /\ current_line \o Without(trimmed, w) \in Seq(STRING)
                /\ Append(result, current_line \o Without(trimmed, w)) \in Seq(Seq(STRING))
  BY <1>3, <1>4, JoinTypes, Zenon
<1>6. in_parens' \in BOOLEAN /\ current_line' \in Seq(STRING) /\ result' \in Seq(Seq(STRING))
  BY <1>4, <1>5, Zenon DEF JoinOpen, JoinClose, JoinInside, JoinOutside
<1>7. TypeInv'
  <2>1. /\ content' \in Files \cup {<<>>} /\ line' \in Nat /\ line' <= Len(content')
        /\ default_ttl' = DefaultTtl /\ current_origin' = Origin /\ zone' = {}
    BY <1>1, <1>2, <1>3, Zenon DEF TypeInv
  <2> QED  BY <1>2, <1>6, <2>1 DEF TypeInv
<1>8. JoinInv'
  <2> SUFFICES ASSUME Joinable(content)
               PROVE  Joined(RfcScan(content)[line + 1], in_parens', current_line', result')
    BY <1>2, Zenon DEF JoinInv
  <2> DEFINE to == RfcScan(content)[line + 1]
  <2>1. /\ Contains(trimmed, Open) =>
             Joined(to, TRUE, current_line \o Without(trimmed, Open), result)
        /\ ~Contains(trimmed, Open) /\ Contains(trimmed, Close) =>
             Joined(to, FALSE, <<>>, Append(result, current_line \o Without(trimmed, Close)))
        /\ ~Contains(trimmed, Open) /\ ~Contains(trimmed, Close) /\ in_parens =>
             Joined(to, in_parens, current_line \o trimmed, result)
        /\ ~Contains(trimmed, Open) /\ ~Contains(trimmed, Close) /\ ~in_parens =>
             Joined(to, in_parens, current_line,
                    IF trimmed = <<>> THEN result ELSE Append(result, trimmed))
    BY <1>1, LineToJoin, Zenon
  <2> HIDE DEF to
  <2>2. CASE JoinOpen
    BY <2>1, <2>2, Zenon DEF JoinOpen, to
  <2>3. CASE JoinClose
    BY <2>1, <2>3, Zenon DEF JoinClose, to
  <2>4. CASE JoinInside
    BY <2>1, <2>4, Zenon DEF JoinInside, to
  <2>5. CASE JoinOutside
    BY <2>1, <2>5, Zenon DEF JoinOutside, to
  <2> QED  BY <2>2, <2>3, <2>4, <2>5
<1>9. ParseInv'
  BY <1>2 DEF ParseInv
<1> QED  BY <1>7, <1>8, <1>9 DEF IInv

\* Its end starts the parse with nothing parsed.
LEMMA JoinEndStep ==
  ASSUME IInv, JoinEnd
  PROVE  IInv'
<1>1. TypeInv /\ JoinInv /\ status = "joining" /\ line = Len(content)
  BY DEF IInv, JoinEnd
<1>2. /\ status' = "parsing" /\ line' = 0 /\ content' = content /\ current_line' = current_line
      /\ in_parens' = in_parens /\ default_ttl' = DefaultTtl /\ current_origin' = Origin /\ zone' = {}
      /\ result' = IF current_line = <<>> THEN result ELSE Append(result, current_line)
  BY <1>1 DEF JoinEnd, TypeInv
<1>3. current_line \in Seq(STRING) /\ result \in Seq(Seq(STRING)) /\ in_parens \in BOOLEAN
  BY <1>1 DEF TypeInv
<1>4. result' \in Seq(Seq(STRING))
  <2>1. Append(result, current_line) \in Seq(Seq(STRING))
    BY <1>3, JoinTypes, Zenon
  <2> QED  BY <1>2, <1>3, <2>1, Zenon
<1>5. TypeInv'
  <2>1. 0 \in Nat /\ 0 <= Len(result')
    BY <1>4
  <2>2. content' \in Files \cup {<<>>}
    BY <1>1, <1>2, Zenon DEF TypeInv
  <2> QED  BY <1>2, <1>3, <1>4, <2>1, <2>2 DEF TypeInv
<1>6. JoinInv'
  BY <1>2 DEF JoinInv
<1>7. ParseInv'
  <2> SUFFICES ASSUME Joinable(content), Explicit(Entries)
               PROVE  /\ Without(result', <<>>) = Entries
                      /\ Parsed(Entries, Passed(result', 0), Origin, DefaultTtl, {})
    <3>1. Entries' = Entries
      BY <1>2, Zenon DEF Entries
    <3> QED  BY <1>2, <3>1, Zenon DEF ParseInv
  <2> DEFINE end == RfcScan(content)[Len(content)]
  <2>1. /\ RfcScan(content) \in [0 .. Len(content) -> ScanStates]
        /\ Entries = EntriesIn(end) /\ Entries \in Seq(Seq(STRING))
    BY <1>1, EntriesAre, Zenon
  <2>2. end \in ScanStates
    <3>1. Len(content) \in 0 .. Len(content)
      BY <1>1, ContentTypes
    <3> QED  BY <2>1, <3>1, Zenon
  <2>3. Joined(end, in_parens, current_line, result)
    BY <1>1, Zenon DEF JoinInv
  <2> HIDE DEF end
  <2>4. Without(result', <<>>) = Entries
    BY <1>2, <1>3, <2>1, <2>2, <2>3, AllJoined, Zenon
  <2>5. Passed(result', 0) = 0
    <3>1. SubSeq(result', 1, 0) = <<>>
      BY <1>4, PrefixGrows, Zenon
    <3>2. Without(<<>>, <<>>) = <<>>
      BY WithoutTypes, Zenon
    <3>3. Len(<<>>) = 0
      OBVIOUS
    <3> QED  BY <3>1, <3>2, <3>3, Zenon DEF Passed
  <2>6. Parsed(Entries, 0, Origin, DefaultTtl, {})
    BY <2>1, NothingParsed, Zenon
  <2> QED  BY <2>4, <2>5, <2>6, Zenon
<1> QED  BY <1>5, <1>6, <1>7 DEF IInv

\* The facts the actions that parse a line share: where the line stands among
\* the entries.
LEMMA LineToParse ==
  ASSUME TypeInv, Parsing
  PROVE  /\ words \in Seq(STRING) /\ line + 1 \in Nat /\ line + 1 <= Len(result)
         /\ Passed(result, line) \in Nat
         /\ words = <<>> => Passed(result, line + 1) = Passed(result, line)
         /\ words # <<>> =>
              /\ Passed(result, line + 1) = Passed(result, line) + 1
              /\ Passed(result, line) + 1 \in 1 .. Len(Without(result, <<>>))
              /\ Without(result, <<>>)[Passed(result, line) + 1] = words
<1>1. result \in Seq(Seq(STRING)) /\ line \in Nat /\ line < Len(result)
  BY DEF TypeInv, Parsing
<1>2. line + 1 \in 1 .. Len(result) /\ line + 1 \in Nat /\ line + 1 <= Len(result)
  BY <1>1
<1>3. words \in Seq(STRING)
  BY <1>1, <1>2 DEF words
<1> QED  BY <1>1, <1>2, <1>3, NextLine, Zenon DEF words

\* A line that does not end the parse moves it on by one.
LEMMA ParseTypes ==
  ASSUME TypeInv, Parsing, line' = line + 1, status' \in {"parsing", "failed"},
         UNCHANGED <<content, current_line, in_parens, result>>
  PROVE  TypeInv'
<1>1. line + 1 \in Nat /\ line + 1 <= Len(result)
  BY LineToParse, Zenon
<1> QED  BY <1>1 DEF TypeInv

\* Lines without effect keep the invariant.
LEMMA ParseSkipStep ==
  ASSUME IInv, ParseSkip
  PROVE  IInv'
<1>1. TypeInv /\ ParseInv /\ Parsing /\ status = "parsing"
  BY DEF IInv, ParseSkip, Parsing
<1>2. /\ status' = "parsing" /\ line' = line + 1 /\ content' = content /\ result' = result
      /\ current_line' = current_line /\ in_parens' = in_parens
      /\ default_ttl' = default_ttl /\ current_origin' = current_origin /\ zone' = zone
  BY <1>1 DEF ParseSkip
<1>3. TypeInv'
  BY <1>1, <1>2, ParseTypes
<1>4. JoinInv'
  BY <1>2 DEF JoinInv
<1>5. ParseInv'
  <2>0. Entries' = Entries
    BY <1>2, Zenon DEF Entries
  <2> SUFFICES ASSUME Joinable(content), Explicit(Entries)
               PROVE  /\ Without(result, <<>>) = Entries
                      /\ Parsed(Entries, Passed(result, line + 1), current_origin, default_ttl, zone)
    BY <1>2, <2>0, Zenon DEF ParseInv
  <2> DEFINE m == Passed(result, line)
             E == Entries
  <2>1. Without(result, <<>>) = E /\ Parsed(E, m, current_origin, default_ttl, zone)
    BY <1>1, Zenon DEF ParseInv
  <2>2. m \in Nat /\ E \in Seq(Seq(STRING)) /\ words \in Seq(STRING)
    BY <1>1, LineToParse, EntriesAre, Zenon
  <2>3. CASE words = <<>>
    <3>1. Passed(result, line + 1) = m
      BY <1>1, <2>3, LineToParse, Zenon
    <3> QED  BY <2>1, <3>1, Zenon
  <2>4. CASE words # <<>>
    <3>1. /\ Passed(result, line + 1) = m + 1 /\ m + 1 \in 1 .. Len(Without(result, <<>>))
          /\ Without(result, <<>>)[m + 1] = words
      BY <1>1, <2>4, LineToParse, Zenon
    <3>2. m + 1 \in 1 .. Len(E) /\ E[m + 1] = words
      BY <2>1, <3>1, Zenon
    <3>3. /\ words[1] \notin {"$ORIGIN", "$TTL"} \/ Len(words) < 2
          /\ ~IsRecord(words)
      BY <2>4, ZoneFileAssumption DEF ParseSkip, Directive, IsRecord
    <3> HIDE DEF m, E
    <3>4. Parsed(E, m + 1, current_origin, default_ttl, zone)
      BY <2>1, <2>2, <3>2, <3>3, DirectiveIsParsed, Zenon
    <3> QED  BY <2>1, <3>1, <3>4, Zenon DEF m, E
  <2> QED  BY <2>3, <2>4
<1> QED  BY <1>3, <1>4, <1>5 DEF IInv

\* $ORIGIN and $TTL keep the invariant.
LEMMA ParseDirectiveStep ==
  ASSUME IInv, ParseOrigin \/ ParseTtl
  PROVE  IInv'
<1>1. TypeInv /\ ParseInv /\ Parsing /\ status = "parsing" /\ Directive /\ Len(words) >= 2
  BY DEF IInv, ParseOrigin, ParseTtl, Parsing
<1>2. /\ status' \in {"parsing", "failed"} /\ line' = line + 1 /\ content' = content /\ result' = result
      /\ current_line' = current_line /\ in_parens' = in_parens /\ zone' = zone
  BY <1>1 DEF ParseOrigin, ParseTtl
<1>3. TypeInv'
  BY <1>1, <1>2, ParseTypes
<1>4. JoinInv'
  BY <1>2 DEF JoinInv
<1>5. ParseInv'
  <2>0. Entries' = Entries
    BY <1>2, Zenon DEF Entries
  <2> SUFFICES ASSUME Joinable(content), Explicit(Entries), status' = "parsing"
               PROVE  /\ Without(result, <<>>) = Entries
                      /\ Parsed(Entries, Passed(result, line + 1), current_origin', default_ttl', zone)
    <3>1. status' # "loaded"
      BY <1>2
    <3> QED  BY <1>2, <2>0, <3>1 DEF ParseInv
  <2> DEFINE m == Passed(result, line)
             E == Entries
  <2>1. Without(result, <<>>) = E /\ Parsed(E, m, current_origin, default_ttl, zone)
    BY <1>1, Zenon DEF ParseInv
  <2>2. m \in Nat /\ E \in Seq(Seq(STRING)) /\ words \in Seq(STRING)
    BY <1>1, LineToParse, EntriesAre, Zenon
  <2>3. /\ Passed(result, line + 1) = m + 1 /\ m + 1 \in 1 .. Len(Without(result, <<>>))
        /\ Without(result, <<>>)[m + 1] = words
    BY <1>1, LineToParse, Zenon DEF Directive
  <2>4. m + 1 \in 1 .. Len(E) /\ E[m + 1] = words
    BY <2>1, <2>3, Zenon
  <2>5. ~IsRecord(words)
    BY <1>1 DEF Directive, IsRecord
  <2>e. words[1] \in OriginLike \cup TtlLike => words[1] \in {"$ORIGIN", "$TTL"}
    <3>1. words \in ToSet(E)
      <4> HIDE DEF m, E
      <4> QED  BY <2>2, <2>4 DEF ToSet
    <3>2. Explicit(E)
      OBVIOUS
    <3> HIDE DEF m, E
    <3>3. \A e \in ToSet(E) : e[1] \in OriginLike \cup TtlLike => e[1] \in {"$ORIGIN", "$TTL"}
      BY <3>2 DEF Explicit
    <3> QED  BY <3>1, <3>3
  <2> HIDE DEF m, E
  <2>6. CASE ParseOrigin
    <3>0. words[1] = "$ORIGIN"
      BY <2>6, <2>e, ZoneFileAssumption DEF ParseOrigin
    <3>1. /\ words[1] = "$ORIGIN" /\ words[2] \in DOMAIN Labels
          /\ current_origin' = Labels[words[2]] /\ default_ttl' = default_ttl
      BY <1>1, <2>6, <3>0 DEF ParseOrigin
    <3>2. Parsed(E, m + 1, Labels[words[2]], default_ttl, zone)
      BY <1>1, <2>1, <2>2, <2>4, <2>5, <3>1, DirectiveIsParsed, Zenon
    <3> QED  BY <2>1, <2>3, <3>1, <3>2, Zenon DEF m, E
  <2>7. CASE ParseTtl
    <3>0. words[1] = "$TTL"
      BY <2>7, <2>e, ZoneFileAssumption DEF ParseTtl
    <3>1. words[1] = "$TTL" /\ default_ttl' = words[2] /\ current_origin' = current_origin
      BY <1>1, <2>7, <3>0 DEF ParseTtl
    <3>2. Parsed(E, m + 1, current_origin, words[2], zone)
      BY <1>1, <2>1, <2>2, <2>4, <2>5, <3>1, DirectiveIsParsed, Zenon
    <3> QED  BY <2>1, <2>3, <3>1, <3>2, Zenon DEF m, E
  <2> QED  BY <2>6, <2>7
<1> QED  BY <1>3, <1>4, <1>5 DEF IInv

\* A record line keeps the invariant, and never panics.
LEMMA ParseRecordStep ==
  ASSUME IInv, ParseRecord
  PROVE  IInv'
<1>1. TypeInv /\ ParseInv /\ Parsing /\ status = "parsing" /\ words # <<>> /\ ~Directive
  BY DEF IInv, ParseRecord, Parsing
<1>2. words \in Seq(STRING)
  BY <1>1, LineToParse, Zenon
<1>3. parsed.out \in {"ok", "error"}
  BY <1>2, RecordIsParsed, Zenon DEF parsed
<1>4. /\ line' = line + 1 /\ content' = content /\ result' = result /\ current_line' = current_line
      /\ in_parens' = in_parens /\ default_ttl' = default_ttl /\ current_origin' = current_origin
      /\ zone' = ZoneWith(zone, parsed.records)
  BY Zenon DEF ParseRecord, ZoneWith
<1>5. status' = IF parsed.out = "ok" THEN "parsing" ELSE "failed"
  <2>1. status' = CASE parsed.out = "ok" -> status
                    [] parsed.out = "error" -> "failed"
                    [] parsed.out = "panic" -> "panicked"
    BY DEF ParseRecord
  <2> DEFINE out == parsed.out
  <2> HIDE DEF out
  <2>2. out \in {"ok", "error"}
    BY <1>3 DEF out
  <2>3. status' = CASE out = "ok" -> status [] out = "error" -> "failed" [] out = "panic" -> "panicked"
    BY <2>1, Zenon DEF out
  <2>4. status' = IF out = "ok" THEN "parsing" ELSE "failed"
    BY <1>1, <2>2, <2>3
  <2> QED  BY <2>4, Zenon DEF out
<1>6. TypeInv'
  BY <1>1, <1>4, <1>5, ParseTypes
<1>7. JoinInv'
  BY <1>5 DEF JoinInv
<1>8. ParseInv'
  <2>0. Entries' = Entries
    BY <1>4, Zenon DEF Entries
  <2>1. status' # "loaded" /\ (status' = "parsing" => parsed.out = "ok")
    BY <1>5
  <2> SUFFICES ASSUME Joinable(content), Explicit(Entries), parsed.out = "ok"
               PROVE  /\ Without(result, <<>>) = Entries
                      /\ Parsed(Entries, Passed(result, line + 1), current_origin, default_ttl, zone')
    BY <1>4, <2>0, <2>1 DEF ParseInv
  <2> DEFINE m == Passed(result, line)
             E == Entries
             p == parsed
  <2>2. Without(result, <<>>) = E /\ Parsed(E, m, current_origin, default_ttl, zone)
    BY <1>1, Zenon DEF ParseInv
  <2>3. m \in Nat /\ E \in Seq(Seq(STRING))
    BY <1>1, LineToParse, EntriesAre, Zenon
  <2>4. /\ Passed(result, line + 1) = m + 1 /\ m + 1 \in 1 .. Len(Without(result, <<>>))
        /\ Without(result, <<>>)[m + 1] = words
    BY <1>1, LineToParse, Zenon
  <2>5. m + 1 \in 1 .. Len(E) /\ E[m + 1] = words
    BY <2>2, <2>4, Zenon
  <2>6. IsRecord(words)
    BY <1>1 DEF Directive, IsRecord
  <2>7. p = ParseResourceRecord(E[m + 1], current_origin, default_ttl) /\ p.out = "ok"
    BY <2>5, Zenon DEF parsed
  <2>8. Explicit(E) /\ IsRecord(E[m + 1]) /\ E[m + 1] # <<>>
    BY <1>1, <2>5, <2>6, Zenon
  <2> HIDE DEF m, E, p
  <2>9. Parsed(E, m + 1, current_origin, default_ttl, ZoneWith(zone, p.records))
    BY <2>2, <2>3, <2>5, <2>7, <2>8, RecordIsKept, Zenon
  <2>10. Parsed(E, m + 1, current_origin, default_ttl, zone')
    BY <1>4, <2>9, Zenon DEF p
  <2> QED  BY <2>2, <2>4, <2>10, Zenon DEF m, E
<1> QED  BY <1>6, <1>7, <1>8 DEF IInv

\* The end of the file keeps the invariant.
LEMMA ParseEndStep ==
  ASSUME IInv, ParseEnd
  PROVE  IInv'
<1>1. TypeInv /\ ParseInv /\ status = "parsing" /\ line = Len(result)
  BY DEF IInv, ParseEnd
<1>2. /\ status' \in {"loaded", "failed"} /\ line' = line /\ content' = content /\ result' = result
      /\ current_line' = current_line /\ in_parens' = in_parens
      /\ default_ttl' = default_ttl /\ current_origin' = current_origin /\ zone' = zone
  BY <1>1 DEF ParseEnd
<1>3. TypeInv'
  BY <1>1, <1>2 DEF TypeInv
<1>4. JoinInv'
  BY <1>2 DEF JoinInv
<1>5. ParseInv'
  <2>0. Entries' = Entries
    BY <1>2, Zenon DEF Entries
  <2> QED  BY <1>1, <1>2, <2>0, Zenon DEF ParseInv
<1> QED  BY <1>3, <1>4, <1>5 DEF IInv

\* Reading the file, or failing to, keeps the invariant.
LEMMA ReadStep ==
  ASSUME IInv, Read \/ ReadFails
  PROVE  IInv'
<1>1. TypeInv /\ status = "reading"
  BY DEF IInv, Read, ReadFails
<1>2. CASE ReadFails
  <2>1. /\ status' = "failed" /\ content' = content /\ line' = line /\ current_line' = current_line
        /\ in_parens' = in_parens /\ result' = result
    BY <1>2 DEF ReadFails
  <2>2. TypeInv'
    BY <1>1, <2>1 DEF TypeInv
  <2> QED  BY <2>1, <2>2 DEF IInv, JoinInv, ParseInv
<1>3. CASE Read
  <2>1. /\ status' = "joining" /\ content' \in Files /\ line' = 0 /\ current_line' = <<>>
        /\ in_parens' = FALSE /\ result' = <<>>
        /\ default_ttl' = DefaultTtl /\ current_origin' = Origin /\ zone' = {}
    BY <1>1, <1>3 DEF Read, TypeInv
  <2>2. Len(content') \in Nat /\ content' \in Seq(Seq(STRING))
    <3>1. content' \in Seq(Seq(STRING))
      BY <2>1, ZoneFileAssumption
    <3> QED  BY <3>1
  <2>3. TypeInv'
    <3>1. <<>> \in Seq(STRING) /\ <<>> \in Seq(Seq(STRING)) /\ 0 \in Nat /\ 0 <= Len(content')
      BY <2>2
    <3>2. content' \in Files \cup {<<>>}
      BY <2>1
    <3> QED  BY <2>1, <3>1, <3>2 DEF TypeInv
  <2>4. RfcScan(content')[0] = RfcStart
    BY <2>2, RfcScanIs, Zenon
  <2>5. Joined(RfcStart, FALSE, <<>>, <<>>)
    <3>1. Without(<<>>, <<>>) = <<>>
      BY WithoutTypes, Zenon
    <3>2. TrimAll(<<>>) = <<>>
      <4>1. <<>> \in Seq(Seq(STRING)) /\ <<>> \in Seq(STRING)
        OBVIOUS
      <4> QED  BY <4>1, TrimAllAppend, Zenon
    <3>3. Trim(<<>>) = <<>>
      BY DEF Trim
    <3>4. RfcStart.entry = <<>> /\ RfcStart.entries = <<>> /\ RfcStart.depth = 0
      BY DEF RfcStart
    <3> QED  BY <3>1, <3>2, <3>3, <3>4, Zenon DEF Joined
  <2>6. JoinInv'
    BY <2>1, <2>4, <2>5, Zenon DEF JoinInv
  <2>7. ParseInv'
    BY <2>1 DEF ParseInv
  <2> QED  BY <2>3, <2>6, <2>7 DEF IInv
<1> QED  BY <1>2, <1>3

-----------------------------------------------------------------------------
(* The theorems *)

\* A parse begins in the invariant.
LEMMA InvHoldsInitially == Init => IInv
<1> SUFFICES ASSUME Init PROVE IInv
  OBVIOUS
<1>1. <<>> \in Seq(STRING) /\ <<>> \in Seq(Seq(STRING))
  OBVIOUS
<1>2. TypeInv
  BY <1>1 DEF Init, TypeInv
<1> QED  BY <1>2 DEF Init, IInv, JoinInv, ParseInv

\* Every step keeps the invariant.
LEMMA InvIsPreserved == IInv /\ [Next]_vars => IInv'
<1> SUFFICES ASSUME IInv, [Next]_vars PROVE IInv'
  OBVIOUS
<1>1. CASE Read \/ ReadFails
  BY <1>1, ReadStep
<1>2. CASE JoinOpen \/ JoinClose \/ JoinInside \/ JoinOutside
  BY <1>2, JoinLineStep
<1>3. CASE JoinEnd
  BY <1>3, JoinEndStep
<1>4. CASE ParseSkip
  BY <1>4, ParseSkipStep
<1>5. CASE ParseOrigin \/ ParseTtl
  BY <1>5, ParseDirectiveStep
<1>6. CASE ParseRecord
  BY <1>6, ParseRecordStep
<1>7. CASE ParseEnd
  BY <1>7, ParseEndStep
<1>8. CASE UNCHANGED vars
  <2>1. Entries' = Entries
    BY <1>8, Zenon DEF vars, Entries
  <2> QED  BY <1>8, <2>1, Zenon DEF vars, IInv, TypeInv, JoinInv, ParseInv
<1> QED  BY <1>1, <1>2, <1>3, <1>4, <1>5, <1>6, <1>7, <1>8 DEF Next

\* The invariant of parse_zone_file: while preprocess_zone_content joins lines,
\* what it has put together is what the reference has read of the file so far;
\* while the lines are parsed, $ORIGIN, $TTL, the records kept and the lines
\* refused are those the reference gives the entries so far.
THEOREM ParserInvariant == Spec => []IInv
BY InvHoldsInitially, InvIsPreserved, PTL DEF Spec

\* parse_resource_record never indexes past the words of a line: with four words
\* or more there is a word for the type after a TTL and a class, so no file
\* makes parse_zone_file panic.
THEOREM ParserNeverPanics == Spec => []NoPanic
<1>1. IInv => NoPanic
  BY DEF IInv, TypeInv, NoPanic
<1> QED  BY <1>1, ParserInvariant, PTL

\* At the end every entry of the file has been passed.
LEMMA AllParsed ==
  ASSUME IInv, status = "loaded", Joinable(content), Explicit(Entries)
  PROVE  Parsed(Entries, Len(Entries), current_origin, default_ttl, zone)
<1>1. /\ Without(result, <<>>) = Entries /\ line = Len(result) /\ result \in Seq(Seq(STRING))
      /\ Parsed(Entries, Passed(result, line), current_origin, default_ttl, zone)
  BY Zenon DEF IInv, TypeInv, ParseInv
<1>2. SubSeq(result, 1, line) = result
  BY <1>1, PrefixGrows, Zenon
<1> QED  BY <1>1, <1>2, Zenon DEF Passed

\* A zone that parse_zone_file returns has the records of its file in the order
\* of the file, each with the owner, TTL and names in effect where it stands,
\* from the first SOA on, for every file whose lines can be joined and whose
\* entries name their owners, of any length.
THEOREM LoadedZoneIsItsFile == Spec => []LoadedAsRead
<1>1. IInv => LoadedAsRead
  <2> SUFFICES ASSUME IInv, status = "loaded", Joinable(content), Explicit(Entries), NEW z \in zone
               PROVE  z.records = RecordsOf(Entries, Kept(Entries))
    BY DEF LoadedAsRead
  <2>1. Parsed(Entries, Len(Entries), current_origin, default_ttl, zone)
    BY AllParsed
  <2> QED  BY <2>1, Zenon DEF Parsed, RecordsOf
<1> QED  BY <1>1, ParserInvariant, PTL

\* The `?' on the owner, the fields and the digest type reaches the caller of
\* parse_zone_file: a file with one that cannot be read is never loaded, wherever
\* the record stands and whether or not the rest of it decodes.  Of the faults
\* that return Ok(None) it says nothing: they drop the line.
THEOREM MalformedFileIsRefused == Spec => []MalformedRefused
<1>1. IInv => MalformedRefused
  <2> SUFFICES ASSUME IInv, status = "loaded", Joinable(content), Explicit(Entries),
                      NEW e \in ToSet(Entries), IsRecord(e)
               PROVE  Accepted(e)
    BY DEF MalformedRefused
  <2>1. Parsed(Entries, Len(Entries), current_origin, default_ttl, zone)
    BY AllParsed
  <2>2. Entries \in Seq(Seq(STRING))
    BY EntriesAre DEF IInv
  <2>3. PICK i \in DOMAIN Entries : e = Entries[i]
    BY DEF ToSet
  <2>4. i \in 1 .. Len(Entries)
    <3> HIDE DEF Entries
    <3> QED  BY <2>2, <2>3
  <2> QED  BY <2>1, <2>3, <2>4, Zenon DEF Parsed
<1> QED  BY <1>1, ParserInvariant, PTL
=============================================================================
