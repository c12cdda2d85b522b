----------------------------- MODULE Induction -----------------------------
(***************************************************************************)
(* Induction on natural numbers over sets instead of predicates, and that  *)
(* functions defined by recursion on an interval exist: what proofs about  *)
(* recursive functions rest on.                                            *)
(***************************************************************************)
EXTENDS Integers, SequencesExt, WellFoundedInduction, SequenceTheorems, TLAPS

(* Every nonempty set of natural numbers has a least element.              *)
LEMMA LeastNumber ==
  ASSUME NEW T \in SUBSET Nat, T # {}
  PROVE  \E m \in T : \A k \in T : m <= k
<1> DEFINE R == {ss \in Nat \X Nat : ss[1] < ss[2]}
<1>1. IsWellFoundedOn(R, Nat)
  BY NatLessThanWellFounded DEF OpToRel
<1>2. \A j, k \in Nat : j < k => <<j, k>> \in R
  OBVIOUS
<1> HIDE DEF R
<1>3. PICK m \in T : \A k \in T : <<k, m>> \notin R
  BY <1>1, WFMin
<1>4. ASSUME NEW k \in T PROVE m <= k
  <2>1. ~(k < m)
    BY <1>2, <1>3
  <2>2. m \in Nat /\ k \in Nat
    OBVIOUS
  <2>3. QED
    BY <2>1, <2>2
<1>5. QED
  BY <1>4

(* Every nonempty set of numbers up to n has a greatest element.           *)
LEMMA GreatestNumber ==
  ASSUME NEW n \in Nat, NEW T \in SUBSET (0 .. n), T # {}
  PROVE  \E m \in T : \A k \in T : m >= k
<1> DEFINE D == {d \in Nat : \E k \in T : d = n - k}
<1>1. D # {} /\ D \in SUBSET Nat
  <2>1. PICK k \in T : TRUE
    OBVIOUS
  <2>2. n - k \in Nat
    OBVIOUS
  <2>3. QED
    BY <2>2
<1> HIDE DEF D
<1>2. PICK d \in D : \A c \in D : d <= c
  BY <1>1, LeastNumber
<1>3. PICK m \in T : d = n - m
  BY DEF D
<1>4. ASSUME NEW k \in T PROVE m >= k
  <2>1. n - k \in D
    BY DEF D
  <2>2. n - m <= n - k
    BY <1>2, <1>3, <2>1
  <2>3. k \in 0 .. n /\ m \in 0 .. n
    OBVIOUS
  <2>4. QED
    BY <2>2, <2>3
<1>5. QED
  BY <1>4

LEMMA LeastMember ==
  ASSUME NEW T \in SUBSET Nat, T # {}
  PROVE  Min(T) \in T /\ \A k \in T : Min(T) <= k
<1>1. \E m \in T : \A k \in T : m <= k
  BY LeastNumber
<1>. QED
  BY <1>1 DEF Min

LEMMA GreatestMember ==
  ASSUME NEW n \in Nat, NEW T \in SUBSET (0..n), T # {}
  PROVE  Max(T) \in T /\ \A k \in T : Max(T) >= k
<1>1. \E m \in T : \A k \in T : m >= k
  BY GreatestNumber
<1>. QED
  BY <1>1 DEF Max

(* A set that holds 0 and the successor of each of its elements holds      *)
(* every natural number.                                                   *)
LEMMA NatInductionOnSets ==
  ASSUME NEW T \in SUBSET Nat, 0 \in T, \A n \in T : n + 1 \in T
  PROVE  T = Nat
<1> SUFFICES ASSUME Nat \ T # {} PROVE FALSE
  OBVIOUS
<1>1. PICK m \in Nat \ T : \A k \in Nat \ T : m <= k
  BY LeastNumber
<1>2. m # 0 /\ m - 1 \in T
  BY <1>1
<1>3. QED
  BY <1>1, <1>2

(* A function whose value at k > 0 is given by k and its value at k - 1.   *)
Follows(f, n, c, G) == f[0] = c /\ \A k \in 1 .. n : f[k] = G[k][f[k - 1]]

(* There is one.                                                           *)
LEMMA RecursionExists ==
  ASSUME NEW S, NEW n \in Nat, NEW c \in S, NEW G \in [1 .. n -> [S -> S]]
  PROVE  \E f \in [0 .. n -> S] : Follows(f, n, c, G)
<1> DEFINE Solves(f, m) == f[0] = c /\ \A k \in 1 .. m : f[k] = G[k][f[k - 1]]
           T == {m \in Nat : m <= n => \E f \in [0 .. m -> S] : Solves(f, m)}
<1>1. 0 \in T
  <2>1. [k \in 0 .. 0 |-> c] \in [0 .. 0 -> S] /\ Solves([k \in 0 .. 0 |-> c], 0)
    OBVIOUS
  <2>2. QED
    BY <2>1
<1>2. ASSUME NEW m \in T PROVE m + 1 \in T
  <2>0. m + 1 \in Nat
    OBVIOUS
  <2> SUFFICES ASSUME m + 1 <= n PROVE \E f \in [0 .. m + 1 -> S] : Solves(f, m + 1)
    BY <2>0
  <2>1. PICK f \in [0 .. m -> S] : Solves(f, m)
    BY <1>2
  <2> DEFINE v == G[m + 1][f[m]]
             g == [k \in 0 .. m + 1 |-> IF k <= m THEN f[k] ELSE v]
  <2>2. m \in Nat /\ m + 1 \in 1 .. n /\ m \in 0 .. m /\ f[m] \in S
    OBVIOUS
  <2>3. v \in S
    BY <2>2
  <2> HIDE DEF v
  <2>4. g \in [0 .. m + 1 -> S]
    BY <2>2, <2>3
  <2>5. g[0] = c /\ g[m + 1] = v /\ g[m] = f[m]
    BY <2>1, <2>2
  <2>6. ASSUME NEW k \in 1 .. m + 1 PROVE g[k] = G[k][g[k - 1]]
    <3>1. CASE k = m + 1
      BY <2>2, <2>5, <3>1 DEF v
    <3>2. CASE k # m + 1
      <4>1. k \in 1 .. m /\ k \in 0 .. m /\ k - 1 \in 0 .. m
        BY <2>2, <3>2
      <4>2. g[k] = f[k] /\ g[k - 1] = f[k - 1]
        BY <2>2, <4>1
      <4>3. QED
        BY <2>1, <4>1, <4>2
    <3>3. QED
      BY <3>1, <3>2
  <2>7. QED
    BY <2>4, <2>5, <2>6
<1>3. T = Nat
  BY <1>1, <1>2, NatInductionOnSets
<1>4. \E f \in [0 .. n -> S] : Solves(f, n)
  BY <1>3
<1>5. QED
  BY <1>4 DEF Follows

(* A function whose value at k is given by k and its value at p[k] < k, or *)
(* by k alone.                                                             *)
Descends(f, n, p, B, G) ==
  \A k \in 0 .. n : f[k] = IF p[k] < k THEN G[k][f[p[k]]] ELSE B[k]

(* There is one.                                                           *)
LEMMA DescentExists ==
  ASSUME NEW S, NEW n \in Nat, NEW p \in [0 .. n -> Nat], NEW B \in [0 .. n -> S],
         NEW G \in [0 .. n -> [S -> S]]
  PROVE  \E f \in [0 .. n -> S] : Descends(f, n, p, B, G)
<1> DEFINE Value(f, k) == IF p[k] < k THEN G[k][f[p[k]]] ELSE B[k]
           Solves(f, m) == \A k \in 0 .. m : f[k] = Value(f, k)
           T == {m \in Nat : m <= n => \E f \in [0 .. m -> S] : Solves(f, m)}
<1>1. 0 \in T
  <2>1. ~(p[0] < 0) /\ B[0] \in S
    OBVIOUS
  <2>2. [k \in 0 .. 0 |-> B[0]] \in [0 .. 0 -> S] /\ Solves([k \in 0 .. 0 |-> B[0]], 0)
    BY <2>1
  <2>. QED
    BY <2>2
<1>2. ASSUME NEW m \in T PROVE m + 1 \in T
  <2>0. m \in Nat /\ m + 1 \in Nat
    OBVIOUS
  <2> SUFFICES ASSUME m + 1 <= n PROVE \E f \in [0 .. m + 1 -> S] : Solves(f, m + 1)
    BY <2>0
  <2>00. m <= n
    BY <2>0
  <2> HIDE DEF Solves
  <2>1. PICK f \in [0 .. m -> S] : Solves(f, m)
    BY <2>00
  <2> USE DEF Solves
  <2> DEFINE v == Value(f, m + 1)
             g == [k \in 0 .. m + 1 |-> IF k <= m THEN f[k] ELSE v]
  <2>2. m + 1 \in 0 .. n
    BY <2>0
  <2>3. v \in S
    <3>1. CASE p[m + 1] < m + 1
      <4>1. p[m + 1] \in 0 .. m
        BY <2>0, <2>2, <3>1
      <4>2. f[p[m + 1]] \in S /\ G[m + 1] \in [S -> S]
        BY <2>2, <4>1
      <4>. QED
        BY <3>1, <4>2
    <3>2. CASE ~(p[m + 1] < m + 1)
      BY <2>2, <3>2
    <3>. QED
      BY <3>1, <3>2
  <2>4. \A k \in 0 .. m : f[k] = Value(f, k)
    BY <2>1
  <2>5. v = IF p[m + 1] < m + 1 THEN G[m + 1][f[p[m + 1]]] ELSE B[m + 1]
    OBVIOUS
  <2> HIDE DEF v
  <2>6. g \in [0 .. m + 1 -> S]
    BY <2>0, <2>3
  <2>7. g[m + 1] = v /\ \A k \in 0 .. m : g[k] = f[k]
    BY <2>0
  <2>8. ASSUME NEW k \in 0 .. m + 1 PROVE g[k] = Value(g, k)
    <3>0. k \in 0 .. n /\ p[k] \in Nat
      BY <2>0
    <3>1. p[k] < k => g[p[k]] = f[p[k]]
      <4>1. p[k] < k => p[k] \in 0 .. m
        BY <2>0, <3>0
      <4>. QED
        BY <2>7, <4>1
    <3>2. Value(g, k) = Value(f, k)
      BY <3>1
    <3>3. CASE k = m + 1
      BY <2>5, <2>7, <3>2, <3>3
    <3>4. CASE k # m + 1
      <4>1. k \in 0 .. m
        BY <2>0, <3>4
      <4>. QED
        BY <2>4, <2>7, <3>2, <4>1
    <3>. QED
      BY <3>3, <3>4
  <2>. QED
    BY <2>6, <2>8
<1>3. T = Nat
  BY <1>1, <1>2, NatInductionOnSets
<1> HIDE DEF Solves
<1>4. n <= n
  OBVIOUS
<1>5. n \in T
  <2> HIDE DEF T
  <2>. QED
    BY <1>3
<1>6. \E f \in [0 .. n -> S] : Solves(f, n)
  BY <1>4, <1>5
<1>. QED
  BY <1>6 DEF Descends, Solves

(* A set that holds each number all whose predecessors it holds, has all. *)
LEMMA StrongInduction ==
  ASSUME NEW n \in Nat, NEW T,
         \A k \in 0 .. n : (\A j \in 0 .. k - 1 : j \in T) => k \in T
  PROVE  \A k \in 0 .. n : k \in T
<1> DEFINE Missing == (0 .. n) \ T
<1> SUFFICES ASSUME Missing # {} PROVE FALSE
  OBVIOUS
<1>1. Missing \in SUBSET Nat
  OBVIOUS
<1>2. PICK k \in Missing : \A j \in Missing : k <= j
  <2> HIDE DEF Missing
  <2>. QED
    BY <1>1, LeastNumber
<1>3. ASSUME NEW j \in 0 .. k - 1 PROVE j \in T
  <2>1. k \in 0 .. n
    OBVIOUS
  <2>2. j \in 0 .. n /\ ~(k <= j)
    BY <2>1
  <2>. QED
    BY <1>2, <2>2
<1>4. k \in 0 .. n /\ k \notin T
  OBVIOUS
<1>. QED
  BY <1>3, <1>4

-----------------------------------------------------------------------------
(* Sequences with the same elements, and parts of sequences.               *)

LEMMA SameElements ==
  ASSUME NEW S, NEW s \in Seq(S), NEW t \in Seq(S), Len(s) = Len(t),
         \A i \in 1..Len(s) : s[i] = t[i]
  PROVE  s = t
OBVIOUS

LEMMA SliceOf ==
  ASSUME NEW S, NEW s \in Seq(S), NEW m \in 1..Len(s) + 1, NEW n \in m - 1..Len(s)
  PROVE  /\ SubSeq(s, m, n) \in Seq(S) /\ Len(SubSeq(s, m, n)) = n - m + 1
         /\ \A i \in 1..n - m + 1 : SubSeq(s, m, n)[i] = s[i + m - 1]
<1>1. \A i \in m..n : i \in 1..Len(s)
  OBVIOUS
<1>. QED
  BY <1>1

LEMMA FrontOf ==
  ASSUME NEW S, NEW s \in Seq(S), NEW n \in 0..Len(s)
  PROVE  /\ SubSeq(s, 1, n) \in Seq(S) /\ Len(SubSeq(s, 1, n)) = n
         /\ \A i \in 1..n : SubSeq(s, 1, n)[i] = s[i]
<1>1. \A i \in 1..n : i \in 1..Len(s)
  OBVIOUS
<1>. QED
  BY <1>1

-----------------------------------------------------------------------------
(* FlattenSeq puts the sequences of a sequence behind each other.           *)
ConcatenatesTo(h, s) ==
  h = [i \in 1..Len(s) |-> IF i = 1 THEN s[i] ELSE h[i - 1] \o s[i]]

LEMMA ConcatenatesToAt ==
  ASSUME NEW s, NEW h, ConcatenatesTo(h, s), NEW k \in 1..Len(s)
  PROVE  h[k] = IF k = 1 THEN s[k] ELSE h[k - 1] \o s[k]
<1> DEFINE E(j) == IF j = 1 THEN s[j] ELSE h[j - 1] \o s[j]
<1>1. h = [j \in 1..Len(s) |-> E(j)]
  BY DEF ConcatenatesTo
<1> HIDE DEF E
<1>2. h[k] = E(k)
  BY <1>1
<1>. QED
  BY <1>2 DEF E

(* Sequences are put behind each other one by one.                         *)
Concatenates(f, s) == f[0] = <<>> /\ \A k \in 1..Len(s) : f[k] = f[k - 1] \o s[k]

LEMMA FlattenIs ==
  ASSUME NEW S, NEW s \in Seq(Seq(S))
  PROVE  \E f \in [0..Len(s) -> Seq(S)] :
            Concatenates(f, s) /\ FlattenSeq(s) = f[Len(s)]
<1> DEFINE n == Len(s)
           G == [k \in 1..n |-> [x \in Seq(S) |-> x \o s[k]]]
<1>0. n \in Nat /\ <<>> \in Seq(S) /\ \A k \in 1..n : s[k] \in Seq(S)
  OBVIOUS
<1>1. G \in [1..n -> [Seq(S) -> Seq(S)]]
  BY <1>0
<1>2. PICK f \in [0..n -> Seq(S)] : Follows(f, n, <<>>, G)
  <2> HIDE DEF G, n
  <2>. QED
    BY <1>0, <1>1, RecursionExists
<1>3. f[0] = <<>> /\ \A k \in 1..n : f[k] = f[k - 1] \o s[k]
  <2>1. f[0] = <<>> /\ \A k \in 1..n : f[k] = G[k][f[k - 1]]
    BY <1>2 DEF Follows
  <2>2. ASSUME NEW k \in 1..n PROVE f[k] = f[k - 1] \o s[k]
    <3>1. f[k - 1] \in Seq(S)
      OBVIOUS
    <3>. QED
      BY <2>1, <3>1
  <2>. QED
    BY <2>1, <2>2
<1>4. Concatenates(f, s)
  BY <1>3 DEF Concatenates
<1>5. CASE n = 0
  <2>1. s = <<>> /\ FlattenSeq(s) = s
    BY <1>5 DEF FlattenSeq
  <2>. QED
    BY <1>3, <1>4, <1>5, <2>1
<1>6. CASE n # 0
  <2> DEFINE g == [i \in 1..n |-> f[i]]
             h == CHOOSE x : ConcatenatesTo(x, s)
  <2>1. FlattenSeq(s) = h[n]
    BY <1>6 DEF FlattenSeq, ConcatenatesTo
  <2>2. ASSUME NEW i \in 1..n PROVE f[i] = IF i = 1 THEN s[i] ELSE g[i - 1] \o s[i]
    <3>1. CASE i = 1
      <4>0. i - 1 = 0
        BY <3>1
      <4>1. f[i] = f[i - 1] \o s[i] /\ f[i - 1] = <<>>
        BY <1>3, <4>0
      <4>2. s[i] \in Seq(S)
        BY <1>0
      <4>. QED
        BY <3>1, <4>1, <4>2
    <3>2. CASE i # 1
      <4>1. i - 1 \in 1..n
        BY <3>2
      <4>. QED
        BY <1>3, <3>2, <4>1
    <3>. QED
      BY <3>1, <3>2
  <2>3. ConcatenatesTo(g, s)
    BY <2>2 DEF ConcatenatesTo
  <2>4. ConcatenatesTo(h, s)
    BY <2>3
  <2> DEFINE T == {k \in 0..n : k > 0 => h[k] = f[k]}
  <2> HIDE DEF g, h
  <2>5. ASSUME NEW k \in 0..n, \A j \in 0..k - 1 : j \in T PROVE k \in T
    <3>1. CASE k = 0
      BY <3>1
    <3>2. CASE k = 1
      <4>1. h[k] = s[k]
        BY <2>4, <3>2, ConcatenatesToAt
      <4>2. f[k] = s[k]
        BY <2>2, <3>2
      <4>. QED
        BY <3>2, <4>1, <4>2
    <3>3. CASE k > 1
      <4>1. k \in 1..n /\ k - 1 \in 1..n /\ k # 1
        BY <3>3
      <4>2. h[k] = h[k - 1] \o s[k]
        BY <2>4, <4>1, ConcatenatesToAt
      <4>3. k - 1 \in 0..k - 1
        BY <3>3
      <4>4. h[k - 1] = f[k - 1]
        BY <2>5, <4>1, <4>3
      <4>. QED
        BY <1>3, <4>1, <4>2, <4>4
    <3>. QED
      BY <3>1, <3>2, <3>3
  <2>6. \A k \in 0..n : k \in T
    <3> HIDE DEF T, n
    <3>. QED
      BY <1>0, <2>5, StrongInduction
  <2>7. h[n] = f[n]
    BY <1>6, <2>6
  <2>. QED
    BY <1>4, <2>1, <2>7
<1>. QED
  BY <1>5, <1>6

(* Three sequences put behind each other.                                  *)
Cat(x, y) == x \o y

LEMMA CatAssociates ==
  ASSUME NEW S, NEW x \in Seq(S), NEW y \in Seq(S), NEW z \in Seq(S)
  PROVE  Cat(Cat(x, y), z) = Cat(x, Cat(y, z))
BY DEF Cat

(* The first of them stands in front of the others.                        *)
LEMMA FlattenFirst ==
  ASSUME NEW S, NEW s \in Seq(Seq(S)), NEW t \in Seq(Seq(S)), Len(s) = Len(t) + 1,
         \A i \in 1..Len(t) : s[i + 1] = t[i]
  PROVE  FlattenSeq(s) = s[1] \o FlattenSeq(t)
<1>1. PICK f \in [0..Len(s) -> Seq(S)] : Concatenates(f, s) /\ FlattenSeq(s) = f[Len(s)]
  BY FlattenIs
<1>2. PICK g \in [0..Len(t) -> Seq(S)] : Concatenates(g, t) /\ FlattenSeq(t) = g[Len(t)]
  BY FlattenIs
<1>3. Len(t) \in Nat /\ s[1] \in Seq(S) /\ \A k \in 1..Len(t) : t[k] \in Seq(S)
  OBVIOUS
<1> DEFINE T == {k \in 0..Len(t) : f[k + 1] = s[1] \o g[k]}
<1>4. ASSUME NEW k \in 0..Len(t), \A j \in 0..k - 1 : j \in T PROVE k \in T
  <2>1. CASE k = 0
    <3>1. f[1] = f[0] \o s[1] /\ f[0] = <<>> /\ g[0] = <<>>
      BY <1>1, <1>2 DEF Concatenates
    <3>. QED
      BY <1>3, <2>1, <3>1
  <2>2. CASE k # 0
    <3>1. k - 1 \in 0..k - 1 /\ k - 1 \in 0..Len(t) /\ (k - 1) + 1 = k /\ k \in 1..Len(t)
      BY <2>2
    <3>2. f[(k - 1) + 1] = s[1] \o g[k - 1]
      BY <1>4, <3>1
    <3>3. f[k + 1] = f[k] \o t[k] /\ g[k] = g[k - 1] \o t[k]
      <4>1. k + 1 \in 1..Len(s) /\ (k + 1) - 1 = k
        BY <3>1
      <4>. QED
        BY <1>1, <1>2, <3>1, <4>1 DEF Concatenates
    <3>4. (s[1] \o g[k - 1]) \o t[k] = s[1] \o (g[k - 1] \o t[k])
      <4>1. g[k - 1] \in Seq(S) /\ t[k] \in Seq(S)
        BY <1>3, <3>1
      <4>2. Cat(Cat(s[1], g[k - 1]), t[k]) = Cat(s[1], Cat(g[k - 1], t[k]))
        BY <1>3, <4>1, CatAssociates
      <4>. QED
        BY <4>2 DEF Cat
    <3>. QED
      BY <3>1, <3>2, <3>3, <3>4
  <2>. QED
    BY <2>1, <2>2
<1>5. Len(t) \in T
  <2>1. \A k \in 0..Len(t) : k \in T
    <3> HIDE DEF T
    <3>. QED
      BY <1>3, <1>4, StrongInduction
  <2>2. Len(t) \in 0..Len(t)
    BY <1>3
  <2> HIDE DEF T
  <2>. QED
    BY <2>1, <2>2
<1>. QED
  BY <1>1, <1>2, <1>5

LEMMA FlattenType ==
  ASSUME NEW S, NEW s \in Seq(Seq(S))
  PROVE  FlattenSeq(s) \in Seq(S) /\ (s = <<>> => FlattenSeq(s) = <<>>)
<1>1. PICK f \in [0..Len(s) -> Seq(S)] : Concatenates(f, s) /\ FlattenSeq(s) = f[Len(s)]
  BY FlattenIs
<1>2. Len(s) \in Nat /\ (s = <<>> => Len(s) = 0)
  OBVIOUS
<1>. QED
  BY <1>1, <1>2 DEF Concatenates
=============================================================================
