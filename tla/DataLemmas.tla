------------------------------ MODULE DataLemmas ------------------------------
(***************************************************************************)
(* Facts about naturals, sequences and folds that the proofs share.  None  *)
(* is about the program.                                                   *)
(*                                                                         *)
(* Induction is stated for sets of numbers instead of predicates, and a    *)
(* fold for a function instead of an operator, so that first-order provers *)
(* can instantiate them.                                                   *)
(***************************************************************************)
EXTENDS SequencesExt, SequenceTheorems, FiniteSetTheorems, TLAPS

-----------------------------------------------------------------------------
(* Naturals.                                                                *)

\* The least-number principle, from the well-foundedness of set inclusion.
LEMMA LeastNatural ==
  ASSUME NEW S \in SUBSET Nat, S # {}
  PROVE  \E m \in S : \A n \in S : m <= n
<1> DEFINE T == {0..n : n \in S}
           O == StrictSubsetOrdering(Nat)
<1>1. T \subseteq FiniteSubsetsOf(Nat)
  <2> SUFFICES ASSUME NEW n \in S PROVE 0..n \in FiniteSubsetsOf(Nat)
    OBVIOUS
  <2> QED
    BY FS_Interval DEF FiniteSubsetsOf
<1>2. T # {}
  OBVIOUS
<1>3. IsWellFoundedOn(O, FiniteSubsetsOf(Nat))
  BY FS_StrictSubsetOrderingWellFounded
<1>4. PICK s \in T : \A t \in T : ~(<<t, s>> \in O)
  <2> HIDE DEF T, O
  <2> QED
    BY <1>1, <1>2, <1>3, WFMin
<1>5. PICK m \in S : s = 0..m
  OBVIOUS
<1>6. ASSUME NEW n \in S, n < m PROVE FALSE
  <2>1. 0..n \in SUBSET Nat /\ 0..m \in SUBSET Nat /\ 0..n \subseteq 0..m
    BY <1>6
  <2>2. m \in 0..m /\ m \notin 0..n
    BY <1>6
  <2>3. <<0..n, 0..m>> \in O
    BY <2>1, <2>2 DEF StrictSubsetOrdering
  <2> QED
    BY <1>4, <1>5, <2>3
<1> QED
  BY <1>6

LEMMA MinIsLeast ==
  ASSUME NEW S \in SUBSET Nat, S # {}
  PROVE  Min(S) \in S /\ \A n \in S : Min(S) <= n
  BY LeastNatural DEF Min

\* Of numbers up to b, some is greatest: the one with the least distance from b.
LEMMA MaxIsGreatest ==
  ASSUME NEW b \in Nat, NEW S \in SUBSET (0..b), S # {}
  PROVE  Max(S) \in S /\ \A n \in S : n <= Max(S)
<1> DEFINE D == {b - n : n \in S}
<1>1. D \in SUBSET Nat /\ D # {}
  <2>1. PICK n \in S : TRUE
    OBVIOUS
  <2>2. b - n \in D
    OBVIOUS
  <2>3. \A m \in S : b - m \in Nat
    OBVIOUS
  <2> QED
    BY <2>2, <2>3
<1>2. PICK d \in D : \A e \in D : d <= e
  <2> HIDE DEF D
  <2> QED
    BY <1>1, LeastNatural
<1>3. PICK m \in S : d = b - m
  OBVIOUS
<1>4. ASSUME NEW n \in S PROVE n <= m
  BY <1>2, <1>3
<1> QED
  BY <1>3, <1>4 DEF Max

\* Induction from a to b.
LEMMA IntervalInduction ==
  ASSUME NEW a \in Nat, NEW b \in Nat, NEW S, a \in S,
         \A i \in a..(b - 1) : i \in S => i + 1 \in S
  PROVE  a..b \subseteq S
<1> DEFINE Bad == {i \in a..b : i \notin S}
<1>1. SUFFICES ASSUME Bad # {} PROVE FALSE
  OBVIOUS
<1>2. PICK m \in Bad : \A n \in Bad : m <= n
  <2>1. Bad \in SUBSET Nat
    OBVIOUS
  <2> HIDE DEF Bad
  <2> QED
    BY <1>1, <2>1, LeastNatural
<1>3. m # a /\ m - 1 \in a..(b - 1) /\ m - 1 \notin Bad
  BY <1>2
<1>4. m - 1 \in S /\ (m - 1) + 1 = m
  BY <1>3
<1> QED
  BY <1>2, <1>3, <1>4

-----------------------------------------------------------------------------
(* Sequences, one fact at a time.                                           *)

LEMMA ConcatType == \A S : \A s, t \in Seq(S) : s \o t \in Seq(S)
  BY ConcatProperties

LEMMA ConcatLen == \A S : \A s, t \in Seq(S) : Len(s \o t) = Len(s) + Len(t)
  BY ConcatProperties

LEMMA ConcatLeft == \A S : \A s, t \in Seq(S) : \A k \in 1..Len(s) : (s \o t)[k] = s[k]
<1> SUFFICES ASSUME NEW S, NEW s \in Seq(S), NEW t \in Seq(S), NEW k \in 1..Len(s)
             PROVE  (s \o t)[k] = s[k]
  OBVIOUS
<1>1. \A i \in 1..(Len(s) + Len(t)) :
        (s \o t)[i] = IF i <= Len(s) THEN s[i] ELSE t[i - Len(s)]
  BY ConcatProperties
<1>2. k \in 1..(Len(s) + Len(t)) /\ k <= Len(s)
  BY LenProperties
<1> QED
  BY <1>1, <1>2

LEMMA ConcatRight ==
  \A S : \A s, t \in Seq(S) : \A k \in 1..Len(t) : (s \o t)[Len(s) + k] = t[k]
<1> SUFFICES ASSUME NEW S, NEW s \in Seq(S), NEW t \in Seq(S), NEW k \in 1..Len(t)
             PROVE  (s \o t)[Len(s) + k] = t[k]
  OBVIOUS
<1>1. \A i \in 1..(Len(s) + Len(t)) :
        (s \o t)[i] = IF i <= Len(s) THEN s[i] ELSE t[i - Len(s)]
  BY ConcatProperties
<1>2. /\ Len(s) + k \in 1..(Len(s) + Len(t)) /\ ~(Len(s) + k <= Len(s))
      /\ (Len(s) + k) - Len(s) = k
  BY LenProperties
<1> QED
  BY <1>1, <1>2

-----------------------------------------------------------------------------
(* Folds.                                                                   *)

\* What the folds of the community modules iterate, with H for the operator: values
\* for the sets of numbers up to n.
Iterates(it, n, V, base, H) ==
  /\ it \in [SUBSET (1..n) -> V]
  /\ \A s \in SUBSET (1..n) :
       it[s] = IF s = {} THEN base ELSE H[Max(s)][it[s \ {Max(s)}]]

\* There is such an iteration.
LEMMA FoldExists ==
  ASSUME NEW n \in Nat, NEW V, NEW base \in V, NEW H \in [1..n -> [V -> V]]
  PROVE  \E it : Iterates(it, n, V, base, H)
<1> DEFINE Step(it, s) == IF s = {} THEN base ELSE H[Max(s)][it[s \ {Max(s)}]]
           Iterated(it, k) == \A s \in SUBSET (1..k) : it[s] = Step(it, s)
           Upto == {k \in 0..n : \E it \in [SUBSET (1..k) -> V] : Iterated(it, k)}
<1>1. 0 \in Upto
  <2> DEFINE it == [s \in SUBSET (1..0) |-> base]
  <2>1. it \in [SUBSET (1..0) -> V]
    OBVIOUS
  <2>2. Iterated(it, 0)
    OBVIOUS
  <2>3. 0 \in 0..n
    OBVIOUS
  <2> HIDE DEF it, Iterated
  <2> QED
    BY <2>1, <2>2, <2>3
<1>2. ASSUME NEW k \in 0..(n - 1), k \in Upto PROVE k + 1 \in Upto
  <2>1. PICK old \in [SUBSET (1..k) -> V] : Iterated(old, k)
    <3> HIDE DEF Iterated
    <3> QED
      BY <1>2
  <2> DEFINE it == [s \in SUBSET (1..(k + 1)) |->
                      IF k + 1 \in s THEN H[k + 1][old[s \ {k + 1}]] ELSE old[s]]
  <2>2. \A s \in SUBSET (1..(k + 1)) :
          /\ s \ {k + 1} \in SUBSET (1..k)
          /\ k + 1 \notin s => s \in SUBSET (1..k)
    OBVIOUS
  <2>3. it \in [SUBSET (1..(k + 1)) -> V]
    <3>1. \A s \in SUBSET (1..k) : k + 1 \in 1..n /\ old[s] \in V
      OBVIOUS
    <3>2. \A s \in SUBSET (1..k) : H[k + 1][old[s]] \in V /\ old[s] \in V
      BY <3>1
    <3>3. ASSUME NEW s \in SUBSET (1..(k + 1))
          PROVE  (IF k + 1 \in s THEN H[k + 1][old[s \ {k + 1}]] ELSE old[s]) \in V
      BY <2>2, <3>2
    <3> QED
      BY <3>3
  <2>4. ASSUME NEW s \in SUBSET (1..(k + 1)) PROVE it[s] = Step(it, s)
    <3>1. CASE s = {}
      <4>1. {} \in SUBSET (1..k) /\ k + 1 \notin {}
        OBVIOUS
      <4>2. old[{}] = base
        BY <2>1, <4>1
      <4> QED
        BY <3>1, <4>1, <4>2
    <3>2. CASE k + 1 \in s
      <4>1. Max(s) = k + 1
        <5>1. k + 1 \in Nat /\ s \in SUBSET (0..(k + 1)) /\ s # {}
          BY <3>2
        <5>2. Max(s) \in s /\ k + 1 <= Max(s)
          BY <5>1, <3>2, MaxIsGreatest
        <5>3. Max(s) \in 1..(k + 1)
          BY <5>2
        <5> QED
          BY <5>2, <5>3
      <4>2. s \ {k + 1} \in SUBSET (1..(k + 1)) /\ it[s \ {k + 1}] = old[s \ {k + 1}]
        BY <2>2
      <4>3. it[s] = H[k + 1][old[s \ {k + 1}]]
        BY <3>2
      <4> QED
        BY <3>2, <4>1, <4>2, <4>3
    <3>3. CASE s # {} /\ k + 1 \notin s
      <4>1. s \in SUBSET (1..k) /\ it[s] = old[s]
        BY <3>3, <2>2
      <4>2. it[s \ {Max(s)}] = old[s \ {Max(s)}]
        <5>1. /\ s \ {Max(s)} \in SUBSET (1..(k + 1))
              /\ k + 1 \notin s \ {Max(s)}
          BY <3>3
        <5> QED
          BY <5>1
      <4>3. old[s] = Step(old, s)
        BY <2>1, <4>1
      <4> QED
        BY <3>3, <4>1, <4>2, <4>3
    <3> QED
      BY <3>1, <3>2, <3>3
  <2>5. Iterated(it, k + 1)
    <3> HIDE DEF it, Step
    <3> QED
      BY <2>4
  <2>6. k + 1 \in 0..n
    OBVIOUS
  <2> HIDE DEF it, Iterated
  <2> QED
    BY <2>3, <2>5, <2>6
<1>3. n \in Upto
  <2> HIDE DEF Upto
  <2>1. 0..n \subseteq Upto
    BY <1>1, <1>2, IntervalInduction
  <2> QED
    BY <2>1
<1>4. PICK it \in [SUBSET (1..n) -> V] : Iterated(it, n)
  <2> HIDE DEF Iterated
  <2> QED
    BY <1>3
<1> QED
  BY <1>4 DEF Iterates

\* What a fold takes, of what is known of it without the types of its values.
Folds(it, n, V, base, H) ==
  /\ it[{}] = base
  /\ \A s \in SUBSET (1..n) :
       s # {} /\ it[s \ {Max(s)}] \in V => it[s] = H[Max(s)][it[s \ {Max(s)}]]

\* The values of a fold after 0, 1, ... n elements.
IsTrace(t, n, V, base, H) ==
  /\ t \in [0..n -> V] /\ t[0] = base
  /\ \A k \in 1..n : t[k] = H[k][t[k - 1]]

\* What iterates with H, where it has a value at all, goes through a trace of H.
LEMMA FoldTrace ==
  ASSUME NEW n \in Nat, NEW V, NEW base \in V, NEW H \in [1..n -> [V -> V]], NEW it,
         Folds(it, n, V, base, H)
  PROVE  \E t : IsTrace(t, n, V, base, H) /\ it[1..n] = t[n]
<1> USE DEF Folds
<1>1. it[1..0] = base
  <2>1. 1..0 = {}
    OBVIOUS
  <2> QED
    BY <2>1
<1>2. ASSUME NEW k \in 1..n, it[1..(k - 1)] \in V
      PROVE  it[1..k] = H[k][it[1..(k - 1)]]
  <2>1. 1..k \in SUBSET (1..n) /\ 1..k # {}
    <3>1. k \in 1..k /\ 1..k \subseteq 1..n
      OBVIOUS
    <3> QED
      BY <3>1
  <2>2. Max(1..k) = k
    <3>1. 1..k \in SUBSET (0..k) /\ k \in 1..k /\ k \in Nat
      OBVIOUS
    <3>2. Max(1..k) \in 1..k /\ k <= Max(1..k)
      BY <2>1, <3>1, MaxIsGreatest
    <3> QED
      BY <3>2
  <2>3. (1..k) \ {k} = 1..(k - 1)
    OBVIOUS
  <2> QED
    BY <1>2, <2>1, <2>2, <2>3
<1>3. \A k \in 0..n : it[1..k] \in V
  <2> DEFINE S == {k \in 0..n : it[1..k] \in V}
  <2>1. 0 \in S
    BY <1>1
  <2>2. ASSUME NEW i \in 0..(n - 1), i \in S PROVE i + 1 \in S
    <3>1. i + 1 \in 1..n /\ (i + 1) - 1 = i
      OBVIOUS
    <3>2. it[1..(i + 1)] = H[i + 1][it[1..i]] /\ it[1..i] \in V
      BY <1>2, <2>2, <3>1
    <3> QED
      BY <3>1, <3>2
  <2> HIDE DEF S
  <2>3. 0..n \subseteq S
    BY <2>1, <2>2, IntervalInduction
  <2> QED
    BY <2>3 DEF S
<1> DEFINE t == [k \in 0..n |-> it[1..k]]
<1>4. IsTrace(t, n, V, base, H) /\ it[1..n] = t[n]
  BY <1>1, <1>2, <1>3 DEF IsTrace
<1> QED
  BY <1>4

\* Traces of folds that agree up to j have the same values up to there.
LEMMA TracesAgree ==
  ASSUME NEW n \in Nat, NEW m \in Nat, NEW V, NEW base, NEW H, NEW G, NEW t, NEW u,
         IsTrace(t, n, V, base, H), IsTrace(u, m, V, base, G),
         NEW j \in Nat, j <= n, j <= m, \A k \in 1..j : \A v \in V : H[k][v] = G[k][v]
  PROVE  t[j] = u[j]
<1> DEFINE S == {k \in 0..j : t[k] = u[k]}
<1>1. 0 \in S
  BY DEF IsTrace
<1>2. ASSUME NEW i \in 0..(j - 1), i \in S PROVE i + 1 \in S
  <2>1. i + 1 \in 1..j /\ i + 1 \in 1..n /\ i + 1 \in 1..m /\ (i + 1) - 1 = i /\ i \in 0..n
    OBVIOUS
  <2>2. t[i + 1] = H[i + 1][t[i]] /\ u[i + 1] = G[i + 1][u[i]] /\ t[i] = u[i] /\ t[i] \in V
    BY <1>2, <2>1 DEF IsTrace
  <2> QED
    BY <2>1, <2>2
<1> HIDE DEF S
<1>3. 0..j \subseteq S
  BY <1>1, <1>2, IntervalInduction
<1> QED
  BY <1>3 DEF S

-----------------------------------------------------------------------------
(* Counting.                                                                *)

\* A sequence of numbers that increase takes as many values as it has elements.
LEMMA IncreasingCounted ==
  ASSUME NEW n \in Nat, NEW f \in [1..n -> Nat],
         \A i, j \in 1..n : i < j => f[i] < f[j],
         NEW m \in 0..n
  PROVE  Cardinality({f[i] : i \in 1..m}) = m
<1> DEFINE S == {f[i] : i \in 1..m}
           g == [i \in 1..m |-> f[i]]
<1>1. \A i \in 1..m : i \in 1..n
  OBVIOUS
<1>2. g \in [1..m -> S] /\ \A i \in 1..m : g[i] = f[i]
  OBVIOUS
<1>3. \A i, j \in 1..m : g[i] = g[j] => i = j
  <2> SUFFICES ASSUME NEW i \in 1..m, NEW j \in 1..m, g[i] = g[j], i # j
               PROVE  FALSE
    OBVIOUS
  <2>1. i < j \/ j < i
    OBVIOUS
  <2>2. f[i] = f[j] /\ f[i] \in Nat
    BY <1>1, <1>2
  <2> QED
    BY <1>1, <2>1, <2>2
<1>4. \A s \in S : \E i \in 1..m : g[i] = s
  OBVIOUS
<1> HIDE DEF g, S
<1>5. g \in Bijection(1..m, S)
  BY <1>2, <1>3, <1>4 DEF Bijection, Injection, Surjection, IsInjective
<1>6. ExistsBijection(1..m, S)
  BY <1>5 DEF ExistsBijection
<1>7. m \in Nat
  OBVIOUS
<1>8. Cardinality(S) = m
  BY <1>6, <1>7, FS_CountingElements
<1> QED
  BY <1>8 DEF S

\* A finite set in a strict total order, given as what is below each element: some
\* element has each number of others below it, and the more the higher it stands.
LEMMA RankExists ==
  ASSUME NEW S, IsFiniteSet(S), NEW below \in [S -> SUBSET S],
         \A a \in S : a \notin below[a],
         \A a, b \in S : a \in below[b] => below[a] \subseteq below[b],
         \A a, b \in S : a # b => a \in below[b] \/ b \in below[a]
  PROVE  /\ \A k \in 0..(Cardinality(S) - 1) : \E a \in S : Cardinality(below[a]) = k
         /\ \A a, b \in S : Cardinality(below[a]) < Cardinality(below[b]) <=> a \in below[b]
<1> DEFINE n    == Cardinality(S)
           rank == [a \in S |-> Cardinality(below[a])]
<1>1. n \in Nat
  BY FS_CardinalityType
<1>2. ASSUME NEW a \in S PROVE IsFiniteSet(below[a]) /\ rank[a] \in 0..(n - 1)
  <2>1. below[a] \in SUBSET S /\ below[a] # S
    OBVIOUS
  <2>2. IsFiniteSet(below[a]) /\ Cardinality(below[a]) <= n /\ Cardinality(below[a]) # n
    BY <2>1, FS_Subset
  <2>3. Cardinality(below[a]) \in Nat
    BY <2>2, FS_CardinalityType
  <2> QED
    BY <1>1, <2>2, <2>3
<1>3. ASSUME NEW a \in S, NEW b \in S, a \in below[b] PROVE rank[a] < rank[b]
  <2>1. below[a] \in SUBSET below[b] /\ below[a] # below[b]
    BY <1>3
  <2>2. Cardinality(below[a]) <= Cardinality(below[b])
        /\ Cardinality(below[a]) # Cardinality(below[b])
    BY <1>2, <2>1, FS_Subset
  <2>3. rank[a] \in 0..(n - 1) /\ rank[b] \in 0..(n - 1)
    BY <1>2
  <2> QED
    BY <1>1, <2>2, <2>3
<1> HIDE DEF n
<1>4. \A a, b \in S : rank[a] < rank[b] <=> a \in below[b]
  <2> SUFFICES ASSUME NEW a \in S, NEW b \in S, rank[a] < rank[b], a \notin below[b]
               PROVE  FALSE
    BY <1>3
  <2>1. a # b
    BY <1>1, <1>2
  <2>2. rank[b] < rank[a]
    BY <1>3, <2>1
  <2>3. rank[a] \in 0..(n - 1) /\ rank[b] \in 0..(n - 1)
    BY <1>2
  <2> QED
    BY <1>1, <2>2, <2>3
<1>5. rank \in [S -> 0..(n - 1)]
  BY <1>2
<1>6. rank \in Injection(S, 0..(n - 1))
  <2>1. ASSUME NEW a \in S, NEW b \in S, rank[a] = rank[b] PROVE a = b
    <3>1. rank[a] \in 0..(n - 1) /\ ~(rank[a] < rank[b]) /\ ~(rank[b] < rank[a])
      BY <1>1, <1>5, <2>1
    <3> QED
      BY <1>4, <3>1
  <2> HIDE DEF rank
  <2> QED
    BY <1>5, <2>1 DEF Injection, IsInjective
<1>7. IsFiniteSet(0..(n - 1)) /\ Cardinality(0..(n - 1)) = n
  <2>1. 0 \in Int /\ n - 1 \in Int /\ (n - 1) - 0 + 1 = n /\ (0 > n - 1 => n = 0)
    BY <1>1
  <2> QED
    BY <2>1, FS_Interval
<1>8. rank \in Surjection(S, 0..(n - 1))
  <2>1. Cardinality(S) = Cardinality(0..(n - 1))
    BY <1>7 DEF n
  <2> HIDE DEF rank
  <2> QED
    BY <1>6, <1>7, <2>1, FS_Injection
<1>9. \A k \in 0..(n - 1) : \E a \in S : rank[a] = k
  <2> HIDE DEF rank
  <2> QED
    BY <1>8 DEF Surjection
<1> QED
  BY <1>4, <1>9 DEF n

\* The values of a function on a finite set.
LEMMA ImageFinite ==
  ASSUME NEW S, IsFiniteSet(S), NEW f, f \in [S -> {f[x] : x \in S}]
  PROVE  IsFiniteSet({f[x] : x \in S})
<1> DEFINE T == {f[x] : x \in S}
<1>1. f \in Surjection(S, T)
  BY DEF Surjection
<1> HIDE DEF T
<1>2. IsFiniteSet(T)
  BY <1>1, FS_Surjection
<1> QED
  BY <1>2 DEF T

\* Partial sums.
LEMMA SumExists ==
  ASSUME NEW n \in Nat, NEW base \in Int, NEW g \in [1..n -> Int]
  PROVE  \E f \in [0..n -> Int] :
           f[0] = base /\ \A k \in 1..n : f[k] = f[k - 1] + g[k]
<1> DEFINE H == [k \in 1..n |-> [v \in Int |-> v + g[k]]]
<1>1. H \in [1..n -> [Int -> Int]]
  OBVIOUS
<1>2. PICK it : Iterates(it, n, Int, base, H)
  <2> HIDE DEF H
  <2> QED
    BY <1>1, FoldExists
<1>3. Folds(it, n, Int, base, H)
  <2>1. {} \in SUBSET (1..n)
    OBVIOUS
  <2> HIDE DEF H
  <2> QED
    BY <1>2, <2>1 DEF Iterates, Folds
<1>4. PICK t : IsTrace(t, n, Int, base, H)
  <2> HIDE DEF H
  <2> QED
    BY <1>1, <1>3, FoldTrace
<1>5. ASSUME NEW k \in 1..n PROVE t[k] = t[k - 1] + g[k]
  <2>1. k - 1 \in 0..n
    OBVIOUS
  <2>2. t \in [0..n -> Int] /\ t[k] = H[k][t[k - 1]]
    <3> HIDE DEF H
    <3> QED
      BY <1>4 DEF IsTrace
  <2>3. H[k][t[k - 1]] = t[k - 1] + g[k]
    BY <2>1, <2>2
  <2> QED
    BY <2>2, <2>3
<1> QED
  BY <1>4, <1>5 DEF IsTrace
\* What increases at each step increases.
LEMMA StepsIncrease ==
  ASSUME NEW n \in Nat, NEW f \in [1..n -> Int], \A k \in 1..(n - 1) : f[k] < f[k + 1]
  PROVE  \A i, j \in 1..n : i < j => f[i] < f[j]
<1> SUFFICES ASSUME NEW i \in 1..n, NEW j \in 1..n, i < j PROVE f[i] < f[j]
  OBVIOUS
<1> DEFINE S == {k \in (i + 1)..n : f[i] < f[k]}
<1>1. i + 1 \in S
  BY i + 1 \in 1..n
<1>2. ASSUME NEW k \in (i + 1)..(j - 1), k \in S PROVE k + 1 \in S
  <2>1. k \in 1..(n - 1) /\ k \in 1..n /\ k + 1 \in 1..n /\ k + 1 \in (i + 1)..n
    OBVIOUS
  <2>2. f[k] < f[k + 1] /\ f[i] < f[k]
    BY <1>2, <2>1
  <2>3. f[i] < f[k + 1]
    BY <2>1, <2>2
  <2> QED
    BY <2>1, <2>3
<1>3. i + 1 \in Nat /\ j \in Nat /\ j \in (i + 1)..j
  OBVIOUS
<1> HIDE DEF S
<1>4. (i + 1)..j \subseteq S
  BY <1>1, <1>2, <1>3, IntervalInduction
<1> QED
  BY <1>3, <1>4 DEF S

=============================================================================
