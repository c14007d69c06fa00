------------------------- MODULE InfillModifierProofs -------------------------
(***************************************************************************)
(* Proofs about InfillModifier: types, that no line outside the pattern is *)
(* moved, and that an encoded layer prints its payload where it has room,  *)
(* for every number of payload bits, set of payloads and number of rows.   *)
(*                                                                         *)
(* The invariant says how the slicer's text is built: a line is at a       *)
(* multiple of the spacing, and the move that reaches it stands right      *)
(* before it or with one command between, and every command ends its line. *)
(* The rest is about the sort, the median, the sums and the loop of        *)
(* modify_layer as functions of the text.                                  *)
(***************************************************************************)
EXTENDS InfillModifier, DataLemmas

-----------------------------------------------------------------------------
(* The inductive invariant.                                                 *)

IsLine(lines, i) == i \in DOMAIN lines /\ lines[i].cmd = "line"

\* The line at i is drawn level from where the move at t went.
ReachedBy(lines, i, t) ==
  /\ t \in 1..(i - 1)
  /\ lines[t].cmd \in {"travel", "joint"} /\ lines[t].y = lines[i].y
  /\ \/ t = i - 1
     \/ t = i - 2 /\ lines[i - 1] \in {Command("unretract", NoY), Command("feed", NoY)}

\* The heights the slicer writes.
Heights == {Spacing * m : m \in Nat}

WellWritten(lines) ==
  /\ lines \in Seq(Commands)
  /\ \A i \in DOMAIN lines : lines[i].cmd = "line" =>
       lines[i].y \in Heights /\ \E t \in DOMAIN lines : ReachedBy(lines, i, t)
  /\ \A i \in DOMAIN lines : lines[i].ends

\* Downwards, there is height left for the rows to come.
Written ==
  /\ WellWritten(text) /\ Len(text) > 0 /\ Last(text).cmd = "line"
  /\ ~up => Last(text).y >= 2 * Spacing * (MaxRows - Rows)

Detected ==
  outcome \in {"detected", "encoded"} =>
    Encodable /\ group = SortedLines(text) /\ nominal = Nominal(text)

Modified ==
  outcome = "encoded" =>
    payload \in Payloads /\ output = ModifyLayer(text, group, SpacingSequence(payload, nominal))

IInv == TypeOK /\ Written /\ Detected /\ Modified

-----------------------------------------------------------------------------
(* Where the nozzle is, and what is printed of the slicer's text.           *)

LEMMA HeightsAreNatural == \A y \in Heights : y \in Nat /\ y # NoY /\ \E m \in Nat : y = 40 * m
  BY DEF Heights, Spacing, NoY

LEMMA NozzleThere ==
  ASSUME NEW lines, NEW i \in Nat \ {0}, MovesNozzle(lines[i])
  PROVE  NozzleAt(lines, i) = lines[i].y
<1> DEFINE S == {j \in 1..i : MovesNozzle(lines[j])}
<1>1. i \in S /\ S \in SUBSET (0..i) /\ i \in Nat
  OBVIOUS
<1> HIDE DEF S
<1>2. Max(S) \in S /\ i <= Max(S)
  BY <1>1, MaxIsGreatest
<1>3. Max(S) = i
  <2>1. Max(S) \in 0..i
    BY <1>1, <1>2
  <2> QED
    BY <1>1, <1>2, <2>1
<1> QED
  BY <1>3 DEF NozzleAt, S

LEMMA NozzleBefore ==
  ASSUME NEW lines, NEW i \in Nat \ {0}, ~MovesNozzle(lines[i])
  PROVE  NozzleAt(lines, i) = NozzleAt(lines, i - 1)
<1>1. {j \in 1..i : MovesNozzle(lines[j])} = {j \in 1..(i - 1) : MovesNozzle(lines[j])}
  OBVIOUS
<1> QED
  BY <1>1 DEF NozzleAt

\* Between the move that reaches a line and the line, nothing moves the nozzle.
LEMMA ReachedFrom ==
  ASSUME NEW lines, NEW i \in Nat, NEW t, t \in 1..(i - 1), MovesNozzle(lines[t]),
         t = i - 1 \/ (t = i - 2 /\ ~MovesNozzle(lines[i - 1]))
  PROVE  NozzleAt(lines, i - 1) = lines[t].y
<1>1. t \in Nat \ {0} /\ i - 1 \in Nat \ {0}
  OBVIOUS
<1>2. NozzleAt(lines, t) = lines[t].y
  BY <1>1, NozzleThere
<1>3. CASE t = i - 1
  BY <1>2, <1>3
<1>4. CASE t = i - 2 /\ ~MovesNozzle(lines[i - 1])
  <2>1. NozzleAt(lines, i - 1) = NozzleAt(lines, (i - 1) - 1)
    BY <1>1, <1>4, NozzleBefore
  <2>2. (i - 1) - 1 = t
    BY <1>4
  <2> QED
    BY <1>2, <2>1, <2>2
<1> QED
  BY <1>3, <1>4

\* The line at i, as it is printed from the slicer's text.
Drawn(lines, i) == [y0 |-> lines[i].y, y1 |-> lines[i].y, at |-> i]

LEMMA LevelLine ==
  ASSUME NEW lines, WellWritten(lines), NEW i \in DOMAIN lines, lines[i].cmd = "line"
  PROVE  NozzleAt(lines, i - 1) = lines[i].y
<1>1. PICK t \in DOMAIN lines : ReachedBy(lines, i, t)
  BY DEF WellWritten
<1>2. lines[i].y # NoY
  BY HeightsAreNatural DEF WellWritten
<1>3. i \in Nat
  BY DEF WellWritten
<1>4. t = i - 1 \/ (t = i - 2 /\ ~MovesNozzle(lines[i - 1]))
  BY <1>1 DEF ReachedBy, Command, MovesNozzle
<1>5. t \in 1..(i - 1) /\ lines[t].y = lines[i].y /\ MovesNozzle(lines[t])
  BY <1>1, <1>2 DEF ReachedBy, MovesNozzle, WellWritten
<1> QED
  BY <1>2, <1>3, <1>4, <1>5, ReachedFrom

LEMMA PrintedLevel ==
  ASSUME NEW lines, WellWritten(lines)
  PROVE  Printed(lines) = {Drawn(lines, i) : i \in {j \in DOMAIN lines : lines[j].cmd = "line"}}
  BY LevelLine DEF Printed, Drawn

LEMMA PrintedMoves ==
  ASSUME NEW lines, WellWritten(lines), NEW a \in Printed(lines)
  PROVE  /\ a \in Moves /\ a.at \in DOMAIN lines /\ lines[a.at].cmd = "line"
         /\ a = Drawn(lines, a.at) /\ a.y0 = a.y1 /\ a.y1 = lines[a.at].y
         /\ a.y1 \in Heights /\ Middle(a) = 2 * a.y1
<1>1. PICK i \in DOMAIN lines : lines[i].cmd = "line" /\ a = Drawn(lines, i)
  BY PrintedLevel
<1>2. i \in Nat \ {0} /\ lines[i].y \in Heights
  BY <1>1 DEF WellWritten
<1>3. lines[i].y \in Nat
  BY <1>2, HeightsAreNatural
<1> QED
  BY <1>1, <1>2, <1>3 DEF Drawn, Moves, Middle

LEMMA PrintedFinite ==
  ASSUME NEW lines, lines \in Seq(Commands)
  PROVE  IsFiniteSet(Printed(lines))
<1> DEFINE S == {j \in DOMAIN lines : lines[j].cmd = "line"}
           f == [i \in S |-> [y0 |-> NozzleAt(lines, i - 1), y1 |-> lines[i].y, at |-> i]]
<1>1. IsFiniteSet(S)
  <2>1. DOMAIN lines = 1..Len(lines) /\ Len(lines) \in Int
    BY LenProperties
  <2>2. IsFiniteSet(1..Len(lines))
    BY <2>1, FS_Interval
  <2>3. S \in SUBSET (1..Len(lines))
    BY <2>1
  <2> QED
    BY <2>2, <2>3, FS_Subset
<1>2. f \in [S -> {f[i] : i \in S}]
  OBVIOUS
<1>3. Printed(lines) = {f[i] : i \in S}
  BY DEF Printed
<1> HIDE DEF f, S
<1> QED
  BY <1>1, <1>2, <1>3, ImageFinite

-----------------------------------------------------------------------------
(* The sort.                                                                *)

\* The printed lines, each once, in the sort's order.
InOrder(moves, lines) ==
  /\ moves \in [1..Cardinality(Printed(lines)) -> Printed(lines)]
  /\ \A a \in Printed(lines) : \E k \in DOMAIN moves : moves[k] = a
  /\ \A j, k \in DOMAIN moves : j < k <=> Before(moves[j], moves[k])

LEMMA SortedInOrder ==
  ASSUME NEW lines, WellWritten(lines)
  PROVE  InOrder(SortedLines(lines), lines)
<1> DEFINE S     == Printed(lines)
           n     == Cardinality(S)
           below == [a \in S |-> {b \in S : Before(b, a)}]
           moves == SortedLines(lines)
<1>1. IsFiniteSet(S) /\ n \in Nat
  BY PrintedFinite, FS_CardinalityType DEF WellWritten
<1>2. ASSUME NEW a \in S
      PROVE  a.at \in Nat /\ Middle(a) \in Int
  <2>1. a \in Moves
    BY PrintedMoves
  <2> QED
    BY <2>1 DEF Moves, Middle
<1>3. ASSUME NEW a \in S, NEW b \in S, a.at = b.at PROVE a = b
  <2>1. a = Drawn(lines, a.at) /\ b = Drawn(lines, b.at)
    BY PrintedMoves
  <2> QED
    BY <1>3, <2>1
<1>4. below \in [S -> SUBSET S] /\ \A a, b \in S : b \in below[a] <=> Before(b, a)
  OBVIOUS
<1> HIDE DEF S, n, below
<1>5. \A a \in S : a \notin below[a]
  BY <1>2, <1>4 DEF Before
<1>6. \A a, b \in S : a \in below[b] => below[a] \subseteq below[b]
  <2> SUFFICES ASSUME NEW a \in S, NEW b \in S, a \in below[b], NEW c \in below[a]
               PROVE  c \in below[b]
    OBVIOUS
  <2>1. c \in S
    BY <1>4
  <2>2. Before(a, b) /\ Before(c, a)
    BY <1>4, <2>1
  <2>3. Before(c, b)
    BY <1>2, <2>1, <2>2 DEF Before
  <2> QED
    BY <1>4, <2>1, <2>3
<1>7. \A a, b \in S : a # b => a \in below[b] \/ b \in below[a]
  <2> SUFFICES ASSUME NEW a \in S, NEW b \in S, a # b
               PROVE  Before(a, b) \/ Before(b, a)
    BY <1>4
  <2>1. a.at # b.at
    BY <1>3
  <2> QED
    BY <1>2, <2>1 DEF Before
<1>8. /\ \A k \in 0..(n - 1) : \E a \in S : Cardinality(below[a]) = k
      /\ \A a, b \in S : Cardinality(below[a]) < Cardinality(below[b]) <=> a \in below[b]
  BY <1>1, <1>4, <1>5, <1>6, <1>7, RankExists DEF n
<1>9. /\ DOMAIN moves = 1..n
      /\ \A k \in 1..n : moves[k] = CHOOSE a \in S : Cardinality(below[a]) = k - 1
  BY DEF SortedLines, S, n, below
<1> HIDE DEF moves
<1>10. ASSUME NEW k \in 1..n PROVE moves[k] \in S /\ Cardinality(below[moves[k]]) = k - 1
  <2>1. k - 1 \in 0..(n - 1)
    BY <1>1
  <2>2. \E a \in S : Cardinality(below[a]) = k - 1
    BY <1>8, <2>1
  <2> QED
    BY <1>9, <2>2
<1>11. ASSUME NEW a \in S PROVE \E k \in 1..n : moves[k] = a
  <2> DEFINE r == Cardinality(below[a])
  <2>1. below[a] \in SUBSET S /\ below[a] # S
    BY <1>4, <1>5
  <2>2. IsFiniteSet(below[a]) /\ r <= n /\ r # n
    BY <1>1, <2>1, FS_Subset DEF n
  <2>3. r \in Nat
    BY <2>2, FS_CardinalityType
  <2> HIDE DEF r
  <2>4. r + 1 \in 1..n /\ (r + 1) - 1 = r
    BY <1>1, <2>2, <2>3
  <2>5. moves[r + 1] \in S /\ Cardinality(below[moves[r + 1]]) = r
    BY <1>10, <2>4
  <2>6. moves[r + 1] = a
    <3>1. /\ ~(Cardinality(below[a]) < Cardinality(below[moves[r + 1]]))
          /\ ~(Cardinality(below[moves[r + 1]]) < Cardinality(below[a]))
      BY <2>3, <2>5 DEF r
    <3> QED
      BY <1>7, <1>8, <2>5, <3>1
  <2> QED
    BY <2>4, <2>6
<1>12. ASSUME NEW j \in 1..n, NEW k \in 1..n PROVE j < k <=> Before(moves[j], moves[k])
  <2>1. j < k <=> j - 1 < k - 1
    BY <1>1
  <2>2. /\ moves[j] \in S /\ Cardinality(below[moves[j]]) = j - 1
        /\ moves[k] \in S /\ Cardinality(below[moves[k]]) = k - 1
    BY <1>10
  <2> QED
    BY <1>4, <1>8, <2>1, <2>2
<1>13. moves \in [1..n -> S]
  <2> DEFINE nth(k) == CHOOSE a \in S : Cardinality({b \in S : Before(b, a)}) = k - 1
  <2>1. moves = [k \in 1..n |-> nth(k)]
    BY DEF moves, SortedLines, n, S
  <2> HIDE DEF nth
  <2>2. moves = [k \in 1..n |-> moves[k]]
    BY <2>1
  <2> QED
    BY <1>10, <2>2
<1> QED
  BY <1>9, <1>11, <1>12, <1>13 DEF InOrder, S, n, moves

-----------------------------------------------------------------------------
(* The gaps and their median.                                               *)

LEMMA NthFound ==
  ASSUME NEW H \in SUBSET Int, IsFiniteSet(H)
  PROVE  /\ \A k \in 0..(Cardinality(H) - 1) :
              Nth(H, k) \in H /\ Cardinality({y \in H : y < Nth(H, k)}) = k
         /\ \A k, l \in 0..(Cardinality(H) - 1) : k < l => Nth(H, k) < Nth(H, l)
<1> DEFINE n     == Cardinality(H)
           below == [x \in H |-> {y \in H : y < x}]
<1>1. below \in [H -> SUBSET H] /\ \A x, y \in H : y \in below[x] <=> y < x
  OBVIOUS
<1>2. \A x \in H : below[x] = {y \in H : y < x}
  OBVIOUS
<1> HIDE DEF below
<1>3. /\ \A a \in H : a \notin below[a]
      /\ \A a, b \in H : a \in below[b] => below[a] \subseteq below[b]
      /\ \A a, b \in H : a # b => a \in below[b] \/ b \in below[a]
  <2>1. \A a \in H : a \in Int
    OBVIOUS
  <2>2. \A a \in H : a \notin below[a]
    BY <1>1, <2>1
  <2>3. ASSUME NEW a \in H, NEW b \in H, a \in below[b] PROVE below[a] \subseteq below[b]
    <3> SUFFICES ASSUME NEW c \in below[a] PROVE c \in below[b]
      OBVIOUS
    <3>1. c \in H
      BY <1>1
    <3>2. c < a /\ a < b
      BY <1>1, <2>3, <3>1
    <3>3. c < b
      BY <2>1, <3>1, <3>2
    <3> QED
      BY <1>1, <3>1, <3>3
  <2>4. \A a, b \in H : a # b => a \in below[b] \/ b \in below[a]
    BY <1>1, <2>1
  <2> QED
    BY <2>2, <2>3, <2>4
<1>4. /\ \A k \in 0..(n - 1) : \E a \in H : Cardinality(below[a]) = k
      /\ \A a, b \in H : Cardinality(below[a]) < Cardinality(below[b]) <=> a \in below[b]
  BY <1>1, <1>3, RankExists
<1>5. ASSUME NEW k \in 0..(n - 1)
      PROVE  Nth(H, k) \in H /\ Cardinality(below[Nth(H, k)]) = k
  <2>1. \E x \in H : Cardinality({y \in H : y < x}) = k
    BY <1>2, <1>4
  <2> QED
    BY <1>2, <2>1 DEF Nth
<1>6. ASSUME NEW k \in 0..(n - 1), NEW l \in 0..(n - 1), k < l PROVE Nth(H, k) < Nth(H, l)
  BY <1>1, <1>4, <1>5, <1>6
<1> HIDE DEF n
<1> QED
  BY <1>2, <1>5, <1>6 DEF n

\* A sequence has a k-th least element: the one that k - 1 places come before when
\* equal elements are ordered by place.
LEMMA LeastFound ==
  ASSUME NEW gaps \in Seq(Int), NEW k \in 1..Len(gaps)
  PROVE  Least(gaps, k) \in Range(gaps)
<1> DEFINE S        == 1..Len(gaps)
           lower(j, i) == gaps[j] < gaps[i] \/ (gaps[j] = gaps[i] /\ j < i)
           below    == [i \in S |-> {j \in S : lower(j, i)}]
<1>1. Len(gaps) \in Nat /\ DOMAIN gaps = S /\ S \in SUBSET Nat /\ \A i \in S : gaps[i] \in Int
  OBVIOUS
<1>2. IsFiniteSet(S) /\ Cardinality(S) = Len(gaps)
  <2> DEFINE n == Len(gaps)
  <2> HIDE DEF n
  <2>1. n \in Nat /\ IsFiniteSet(1..n) /\ Cardinality(1..n) = IF 1 > n THEN 0 ELSE n - 1 + 1
    BY <1>1, FS_Interval DEF n
  <2> QED
    BY <2>1 DEF n
<1>3. below \in [S -> SUBSET S] /\ \A i, j \in S : j \in below[i] <=> lower(j, i)
  OBVIOUS
<1> HIDE DEF S, below
<1>4. /\ \A a \in S : a \notin below[a]
      /\ \A a, b \in S : a # b => a \in below[b] \/ b \in below[a]
  BY <1>1, <1>3
<1>5. \A a, b \in S : a \in below[b] => below[a] \subseteq below[b]
  <2> SUFFICES ASSUME NEW a \in S, NEW b \in S, a \in below[b], NEW c \in below[a]
               PROVE  c \in below[b]
    OBVIOUS
  <2>1. c \in S
    BY <1>3
  <2>2. lower(c, a) /\ lower(a, b)
    BY <1>3, <2>1
  <2>3. lower(c, b)
    BY <1>1, <2>1, <2>2
  <2> QED
    BY <1>3, <2>1, <2>3
<1>6. k - 1 \in 0..(Cardinality(S) - 1)
  BY <1>1, <1>2
<1>7. PICK i \in S : Cardinality(below[i]) = k - 1
  <2>1. \A r \in 0..(Cardinality(S) - 1) : \E a \in S : Cardinality(below[a]) = r
    BY <1>2, <1>3, <1>4, <1>5, RankExists
  <2> QED
    BY <1>6, <2>1
<1> DEFINE less == {j \in S : gaps[j] < gaps[i]}
           most == {j \in S : gaps[j] <= gaps[i]}
<1>8. IsFiniteSet(below[i]) /\ IsFiniteSet(most)
  <2>1. below[i] \in SUBSET S /\ most \in SUBSET S
    BY <1>3
  <2> QED
    BY <1>2, <2>1, FS_Subset
<1>9. Cardinality(less) < k
  <2>1. less \in SUBSET below[i]
    BY <1>3
  <2>2. IsFiniteSet(less) /\ Cardinality(less) <= k - 1
    BY <1>7, <1>8, <2>1, FS_Subset
  <2>3. Cardinality(less) \in Nat
    BY <2>2, FS_CardinalityType
  <2> HIDE DEF less
  <2> QED
    BY <1>1, <2>2, <2>3
<1>10. Cardinality(most) >= k
  <2>1. below[i] \cup {i} \in SUBSET most
    BY <1>1, <1>3
  <2>2. IsFiniteSet(below[i] \cup {i}) /\ Cardinality(below[i] \cup {i}) = (k - 1) + 1
    BY <1>4, <1>7, <1>8, FS_AddElement
  <2>3. Cardinality(below[i] \cup {i}) <= Cardinality(most) /\ Cardinality(most) \in Nat
    BY <1>8, <2>1, FS_Subset, FS_CardinalityType
  <2> HIDE DEF most
  <2> QED
    BY <1>1, <2>2, <2>3
<1>11. \E gap \in Range(gaps) :
         /\ Cardinality({j \in DOMAIN gaps : gaps[j] < gap}) < k
         /\ Cardinality({j \in DOMAIN gaps : gaps[j] <= gap}) >= k
  <2>1. gaps[i] \in Range(gaps)
    BY <1>1 DEF Range
  <2> QED
    BY <1>1, <1>9, <1>10, <2>1
<1> QED
  BY <1>11 DEF Least

\* What the slicer writes lies at least a spacing apart, doubled.
LEMMA SpacingsWide ==
  ASSUME NEW lines, WellWritten(lines)
  PROVE  /\ Spacings(lines) \in Seq(Int)
         /\ \A k \in DOMAIN Spacings(lines) : Spacings(lines)[k] >= 80
<1> DEFINE P == Printed(lines)
           H == Middles(P)
           n == Cardinality(H)
           f == [a \in P |-> Middle(a)]
<1>1. \A x \in H : \E m \in Nat : x = 80 * m
  <2> SUFFICES ASSUME NEW a \in P PROVE \E m \in Nat : Middle(a) = 80 * m
    BY DEF Middles
  <2>1. Middle(a) = 2 * a.y1 /\ a.y1 \in Heights
    BY PrintedMoves
  <2>2. PICK m \in Nat : a.y1 = 40 * m
    BY <2>1, HeightsAreNatural
  <2> QED
    BY <2>1, <2>2
<1>2. IsFiniteSet(H)
  <2>1. H = {f[a] : a \in P}
    BY DEF Middles
  <2>2. f \in [P -> {f[a] : a \in P}]
    OBVIOUS
  <2>3. IsFiniteSet(P)
    BY PrintedFinite DEF WellWritten
  <2> HIDE DEF f, P, H
  <2> QED
    BY <2>1, <2>2, <2>3, ImageFinite
<1>3. Spacings(lines) = [k \in 1..(n - 1) |-> Nth(H, k) - Nth(H, k - 1)]
  BY DEF Spacings, Gaps
<1> HIDE DEF H
<1>4. n \in Nat
  BY <1>2, FS_CardinalityType
<1> HIDE DEF n
<1>5. ASSUME NEW k \in 1..(n - 1)
      PROVE  Nth(H, k) - Nth(H, k - 1) \in Int /\ Nth(H, k) - Nth(H, k - 1) >= 80
  <2>1. k \in 0..(n - 1) /\ k - 1 \in 0..(n - 1) /\ k - 1 < k
    BY <1>4
  <2>2. H \in SUBSET Int
    BY <1>1
  <2>3. Nth(H, k) \in H /\ Nth(H, k - 1) \in H /\ Nth(H, k - 1) < Nth(H, k)
    BY <1>2, <2>1, <2>2, NthFound DEF n
  <2>4. PICK m \in Nat, l \in Nat : Nth(H, k) = 80 * m /\ Nth(H, k - 1) = 80 * l
    BY <1>1, <2>3
  <2> QED
    BY <2>3, <2>4
<1>6. Spacings(lines) \in [1..(n - 1) -> Int]
  BY <1>3, <1>5
<1>7. \E m \in Nat : Spacings(lines) \in [1..m -> Int]
  <2>1. CASE n = 0
    <3>1. 1..(n - 1) = 1..0 /\ 0 \in Nat
      BY <2>1
    <3> QED
      BY <1>6, <3>1
  <2>2. CASE n # 0
    <3>1. n - 1 \in Nat
      BY <1>4, <2>2
    <3> QED
      BY <1>6, <3>1
  <2> QED
    BY <2>1, <2>2
<1>8. \A k \in DOMAIN Spacings(lines) : Spacings(lines)[k] >= 80
  BY <1>3, <1>5
<1> HIDE DEF P
<1> QED
  BY <1>7, <1>8 DEF Seq

LEMMA MedianWide ==
  ASSUME NEW gaps \in Seq(Int), Len(gaps) >= 2, \A k \in DOMAIN gaps : gaps[k] >= 80
  PROVE  Median(gaps) \in Int /\ Median(gaps) >= 80
<1> DEFINE n    == Len(gaps)
           half == n \div 2
<1>1. n \in Nat /\ n >= 2
  OBVIOUS
<1>2. ASSUME NEW k \in 1..n PROVE Least(gaps, k) \in Int /\ Least(gaps, k) >= 80
  <2>1. Least(gaps, k) \in Range(gaps)
    BY LeastFound
  <2> QED
    BY <2>1 DEF Range
<1>3. Median(gaps) = IF n % 2 = 1 THEN Least(gaps, half + 1)
                     ELSE (Least(gaps, half) + Least(gaps, half + 1)) \div 2
  BY DEF Median
<1> HIDE DEF n
<1>4. half \in 1..n /\ half + 1 \in 1..n
  BY <1>1
<1> HIDE DEF half
<1>5. CASE n % 2 = 1
  BY <1>2, <1>3, <1>4, <1>5
<1>6. CASE n % 2 # 1
  <2>1. /\ Least(gaps, half) \in Int /\ Least(gaps, half) >= 80
        /\ Least(gaps, half + 1) \in Int /\ Least(gaps, half + 1) >= 80
    BY <1>2, <1>4
  <2>2. Median(gaps) = (Least(gaps, half) + Least(gaps, half + 1)) \div 2
    BY <1>3, <1>6
  <2> QED
    BY <2>1, <2>2
<1> QED
  BY <1>5, <1>6

LEMMA NominalWide ==
  ASSUME NEW lines, WellWritten(lines), Len(Spacings(lines)) >= 2
  PROVE  Nominal(lines) \in Nat /\ Nominal(lines) >= 40
<1>1. Median(Spacings(lines)) \in Int /\ Median(Spacings(lines)) >= 80
  BY SpacingsWide, MedianWide
<1> QED
  BY <1>1 DEF Nominal

-----------------------------------------------------------------------------
(* Where the lines go.                                                      *)

LEMMA SequenceValues ==
  ASSUME NEW bits, NEW width \in Nat, width >= 40
  PROVE  LET sequence == SpacingSequence(bits, width)
         IN  /\ sequence \in Seq(Int) /\ Len(sequence) = PayloadBits + 2
             /\ \A i \in 1..(PayloadBits + 2) : sequence[i] \in Nat \ {0}
             /\ sequence[1] = 2 * width /\ sequence[PayloadBits + 2] = 2 * width
             /\ \A b \in 1..PayloadBits : sequence[b + 1] >= width <=> b \in bits
<1> DEFINE sequence == SpacingSequence(bits, width)
           n == PayloadBits + 2
<1>1. PayloadBits \in Nat /\ PayloadBits >= 1 /\ n \in Nat
  BY ModifierConstants
<1>2. /\ DOMAIN sequence = 1..n
      /\ \A i \in 1..n : sequence[i] = IF i \in {1, n} THEN 2 * width
                                    ELSE IF i - 1 \in bits THEN (5 * width) \div 4
                                    ELSE (3 * width) \div 4
      /\ sequence = [i \in 1..n |-> sequence[i]]
  BY DEF SpacingSequence
<1>3. /\ (5 * width) \div 4 \in Nat \ {0} /\ (5 * width) \div 4 >= width
      /\ (3 * width) \div 4 \in Nat \ {0} /\ ~((3 * width) \div 4 >= width)
      /\ 2 * width \in Nat \ {0}
  OBVIOUS
<1> HIDE DEF sequence
<1>4. \A i \in 1..n : sequence[i] \in Nat \ {0}
  BY <1>2, <1>3
<1>5. sequence \in [1..n -> Int]
  BY <1>2, <1>4
<1>6. sequence \in Seq(Int) /\ Len(sequence) = n
  <2> HIDE DEF n
  <2>1. sequence \in Seq(Int)
    BY <1>1, <1>5 DEF Seq
  <2> QED
    BY <1>1, <1>2, <2>1, LenProperties
<1>7. sequence[1] = 2 * width /\ sequence[n] = 2 * width
  <2>1. 1 \in 1..n /\ n \in 1..n
    BY <1>1
  <2> QED
    BY <1>2, <2>1
<1>8. ASSUME NEW b \in 1..PayloadBits PROVE sequence[b + 1] >= width <=> b \in bits
  <2>1. b + 1 \in 1..n /\ b + 1 \notin {1, n} /\ (b + 1) - 1 = b
    BY <1>1
  <2>2. sequence[b + 1] = IF b \in bits THEN (5 * width) \div 4 ELSE (3 * width) \div 4
    BY <1>2, <2>1
  <2> QED
    BY <1>3, <2>2
<1> QED
  BY <1>4, <1>6, <1>7, <1>8 DEF sequence

\* The targets from a base are its partial sums.
Sums(targets, base, sequence) ==
  \A i \in DOMAIN targets :
    targets[i] = (IF i = 1 THEN base ELSE targets[i - 1]) + sequence[i]

LEMMA TargetsSum ==
  ASSUME NEW moves, NEW sequence \in Seq(Int), NEW base \in Int,
         Middle(moves[1]) \div 2 = base,
         NEW n \in Nat, n = NEncode(moves), n <= Len(sequence)
  PROVE  /\ Targets(moves, sequence) \in [1..n -> Int]
         /\ Sums(Targets(moves, sequence), base, sequence)
<1> DEFINE m == Len(sequence)
           Sum(f) == f = [i \in 0..m |-> IF i = 0 THEN Middle(moves[1]) \div 2
                                        ELSE f[i - 1] + sequence[i]]
           sum == CHOOSE f : Sum(f)
<1>1. m \in Nat /\ sequence \in [1..m -> Int]
  BY LenProperties
<1> HIDE DEF m
<1>2. PICK g \in [0..m -> Int] : g[0] = base /\ \A k \in 1..m : g[k] = g[k - 1] + sequence[k]
  <2>1. \E g \in [0..m -> Int] : g[0] = base /\ \A k \in 1..m : g[k] = g[k - 1] + sequence[k]
    BY <1>1, SumExists, ZenonT(30)
  <2> QED
    BY <2>1
<1>3. Sum(g)
  <2>1. g = [i \in 0..m |-> g[i]]
    OBVIOUS
  <2>2. ASSUME NEW i \in 0..m
        PROVE  g[i] = IF i = 0 THEN Middle(moves[1]) \div 2 ELSE g[i - 1] + sequence[i]
    <3>1. i = 0 \/ i \in 1..m
      OBVIOUS
    <3> QED
      BY <1>2, <3>1
  <2> QED
    BY <2>1, <2>2
<1>4. Sum(sum)
  <2> HIDE DEF Sum
  <2> QED
    BY <1>3
<1> HIDE DEF sum
<1>5. sum[0] = base /\ \A i \in 1..m : sum[i] = sum[i - 1] + sequence[i]
  <2>1. 0 \in 0..m
    BY <1>1
  <2>2. ASSUME NEW i \in 1..m PROVE sum[i] = sum[i - 1] + sequence[i]
    <3>1. i \in 0..m /\ i # 0
      OBVIOUS
    <3> QED
      BY <1>4, <3>1
  <2> QED
    BY <1>4, <2>1, <2>2
<1>6. \A i \in 0..m : sum[i] \in Int
  <2> DEFINE S == {i \in 0..m : sum[i] \in Int}
  <2>1. 0 \in S
    BY <1>1, <1>5
  <2>2. ASSUME NEW i \in 0..(m - 1), i \in S PROVE i + 1 \in S
    <3>1. i + 1 \in 1..m /\ i + 1 \in 0..m /\ (i + 1) - 1 = i
      BY <1>1
    <3>2. sum[i + 1] = sum[i] + sequence[i + 1]
      BY <1>5, <3>1
    <3>3. sum[i] \in Int /\ sequence[i + 1] \in Int
      BY <1>1, <2>2, <3>1
    <3> QED
      BY <3>1, <3>2, <3>3
  <2> HIDE DEF S
  <2>3. 0..m \subseteq S
    BY <1>1, <2>1, <2>2, IntervalInduction
  <2> QED
    BY <2>3 DEF S
<1>7. Targets(moves, sequence) = [i \in 1..n |-> sum[i]]
  BY DEF Targets, sum, m
<1>8. ASSUME NEW i \in 1..n
      PROVE  sum[i] \in Int /\ sum[i] = (IF i = 1 THEN base ELSE sum[i - 1]) + sequence[i]
  <2>1. i \in 0..m /\ i \in 1..m
    BY <1>1 DEF m
  <2> QED
    BY <1>5, <1>6, <2>1
<1> DEFINE targets == Targets(moves, sequence)
<1>9. targets \in [1..n -> Int] /\ \A i \in 1..n : targets[i] = sum[i]
  BY <1>7, <1>8
<1> HIDE DEF targets
<1>10. ASSUME NEW i \in 1..n
       PROVE  targets[i] = (IF i = 1 THEN base ELSE targets[i - 1]) + sequence[i]
  <2>1. i = 1 \/ i - 1 \in 1..n
    OBVIOUS
  <2> QED
    BY <1>8, <1>9, <2>1
<1>11. Sums(targets, base, sequence)
  BY <1>9, <1>10 DEF Sums
<1> QED
  BY <1>9, <1>11 DEF targets

-----------------------------------------------------------------------------
(* One patch.                                                               *)

Texts(n) == [1..n -> Commands]

Boxes == [lo : Int, hi : Int]

LEMMA MaxOfTwo == \A a, b \in Int : Max({a, b}) = IF a >= b THEN a ELSE b
<1> SUFFICES ASSUME NEW a \in Int, NEW b \in Int PROVE Max({a, b}) = IF a >= b THEN a ELSE b
  OBVIOUS
<1> DEFINE greatest(x) == x \in {a, b} /\ \A y \in {a, b} : x >= y
<1>1. \A x : greatest(x) => x = IF a >= b THEN a ELSE b
  OBVIOUS
<1>2. greatest(IF a >= b THEN a ELSE b)
  OBVIOUS
<1>3. Max({a, b}) = CHOOSE x : greatest(x)
  BY DEF Max
<1> QED
  BY <1>1, <1>2, <1>3

LEMMA MinOfTwo == \A a, b \in Int : Min({a, b}) = IF a <= b THEN a ELSE b
<1> SUFFICES ASSUME NEW a \in Int, NEW b \in Int PROVE Min({a, b}) = IF a <= b THEN a ELSE b
  OBVIOUS
<1> DEFINE least(x) == x \in {a, b} /\ \A y \in {a, b} : x <= y
<1>1. \A x : least(x) => x = IF a <= b THEN a ELSE b
  OBVIOUS
<1>2. least(IF a <= b THEN a ELSE b)
  OBVIOUS
<1>3. Min({a, b}) = CHOOSE x : least(x)
  BY DEF Min
<1> QED
  BY <1>1, <1>2, <1>3

LEMMA ClampValue ==
  ASSUME NEW box \in Boxes, NEW v \in Int
  PROVE  /\ Clamp(v, box) \in Int
         /\ box.lo <= v /\ v <= box.hi => Clamp(v, box) = v
         /\ v \in Nat /\ box.hi \in Nat => Clamp(v, box) \in Nat
<1>1. box.lo \in Int /\ box.hi \in Int
  BY DEF Boxes
<1>2. Min({box.hi, v}) = IF box.hi <= v THEN box.hi ELSE v
  BY <1>1, MinOfTwo
<1>3. Clamp(v, box) = Max({box.lo, Min({box.hi, v})})
  BY DEF Clamp
<1> DEFINE w == IF box.hi <= v THEN box.hi ELSE v
<1>4. w \in Int
  BY <1>1
<1>5. Clamp(v, box) = IF box.lo >= w THEN box.lo ELSE w
  BY <1>1, <1>2, <1>3, <1>4, MaxOfTwo
<1> QED
  BY <1>1, <1>5

\* The search for a travel looks at commands only.
LEMMA SameTravel ==
  ASSUME NEW n \in Nat, NEW lines, NEW others, \A p \in 1..n : others[p].cmd = lines[p].cmd,
         NEW at \in 1..n
  PROVE  FindPrecedingTravel(others, at) = FindPrecedingTravel(lines, at)
<1>1. \A i \in 1..(at - 1) : i \in 1..n
  OBVIOUS
<1>2. {i \in 1..(at - 1) : i >= at - MaxBack /\ LooksLikeTravel(others[i])}
      = {i \in 1..(at - 1) : i >= at - MaxBack /\ LooksLikeTravel(lines[i])}
  BY <1>1 DEF LooksLikeTravel
<1> QED
  BY <1>2 DEF FindPrecedingTravel

LEMMA TravelBefore ==
  ASSUME NEW lines, NEW at \in Nat \ {0}
  PROVE  /\ FindPrecedingTravel(lines, at) \in 0..(at - 1)
         /\ FindPrecedingTravel(lines, at) # 0 =>
              LooksLikeTravel(lines[FindPrecedingTravel(lines, at)])
         /\ \A i \in 1..(at - 1) :
              i >= at - MaxBack /\ LooksLikeTravel(lines[i]) => i <= FindPrecedingTravel(lines, at)
<1> DEFINE S == {i \in 1..(at - 1) : i >= at - MaxBack /\ LooksLikeTravel(lines[i])}
<1>1. {0} \cup S \in SUBSET (0..(at - 1)) /\ {0} \cup S # {} /\ at - 1 \in Nat
  OBVIOUS
<1>2. FindPrecedingTravel(lines, at) = Max({0} \cup S)
  BY DEF FindPrecedingTravel
<1> HIDE DEF S
<1>3. Max({0} \cup S) \in {0} \cup S /\ \A i \in {0} \cup S : i <= Max({0} \cup S)
  BY <1>1, MaxIsGreatest
<1> QED
  BY <1>1, <1>2, <1>3 DEF S

NewY(move, target, box) == Clamp(move.y1 + target - Middle(move) \div 2, box)

\* ReplaceCoord, of one command of a text.
Replaced(lines, k, y) == [lines EXCEPT ![k] = ReplaceCoord(@, y)]

LEMMA CoordReplaced ==
  ASSUME NEW n \in Nat, NEW lines \in Texts(n), NEW k, NEW y \in Int,
         NEW changed, changed = Replaced(lines, k, y)
  PROVE  /\ changed \in Texts(n)
         /\ \A p \in 1..n : p # k => changed[p] = lines[p]
         /\ \A p \in 1..n :
              p = k => /\ changed[p].cmd = lines[p].cmd /\ changed[p].y = y
                       /\ ~changed[p].ends => ~lines[p].ends \/ lines[p].y = NoY
<1>1. lines = [p \in 1..n |-> lines[p]] /\ \A p \in 1..n : lines[p] \in Commands
  BY DEF Texts
<1>2. ASSUME NEW c \in Commands
      PROVE  /\ ReplaceCoord(c, y) \in Commands
             /\ ReplaceCoord(c, y).cmd = c.cmd /\ ReplaceCoord(c, y).y = y
             /\ ~ReplaceCoord(c, y).ends => ~c.ends \/ c.y = NoY
  <2>1. CASE c.y = NoY
    <3>1. ReplaceCoord(c, y) = [c EXCEPT !.y = y, !.ends = FALSE]
      BY <2>1 DEF ReplaceCoord
    <3> QED
      BY <2>1, <3>1 DEF Commands
  <2>2. CASE c.y # NoY
    <3>1. ReplaceCoord(c, y) = [c EXCEPT !.y = y]
      BY <2>2 DEF ReplaceCoord
    <3> QED
      BY <2>2, <3>1 DEF Commands
  <2> QED
    BY <2>1, <2>2
<1>3. /\ changed = [p \in 1..n |-> changed[p]]
      /\ \A p \in 1..n : changed[p] = IF p = k THEN ReplaceCoord(lines[p], y) ELSE lines[p]
  BY <1>1 DEF Replaced
<1>4. \A p \in 1..n : changed[p] \in Commands
  BY <1>1, <1>2, <1>3
<1>5. changed \in Texts(n)
  BY <1>3, <1>4 DEF Texts
<1>6. \A p \in 1..n : p # k => changed[p] = lines[p]
  BY <1>3
<1>7. ASSUME NEW p \in 1..n, p = k
      PROVE  /\ changed[p].cmd = lines[p].cmd /\ changed[p].y = y
             /\ ~changed[p].ends => ~lines[p].ends \/ lines[p].y = NoY
  <2>1. changed[p] = ReplaceCoord(lines[p], y) /\ lines[p] \in Commands
    BY <1>1, <1>3, <1>7
  <2> QED
    BY <1>2, <2>1
<1> QED
  BY <1>5, <1>6, <1>7

LEMMA PatchLineEffect ==
  ASSUME NEW n \in Nat, NEW lines \in Texts(n), NEW move \in Moves, NEW target \in Int,
         NEW box \in Boxes
  PROVE  LET patched == PatchLine(lines, move, target, box)
             travel  == FindPrecedingTravel(lines, move.at)
         IN  /\ patched \in Texts(n)
             /\ \A p \in 1..n : patched[p].cmd = lines[p].cmd
             /\ \A p \in 1..n :
                  patched[p].y = IF p = travel THEN target
                                 ELSE IF p = move.at THEN NewY(move, target, box)
                                 ELSE lines[p].y
             /\ \A p \in 1..n : p # travel /\ p # move.at => patched[p] = lines[p]
             /\ \A p \in 1..n : ~patched[p].ends => ~lines[p].ends \/ lines[p].y = NoY
<1> DEFINE travel == FindPrecedingTravel(lines, move.at)
           y1     == NewY(move, target, box)
           one    == Replaced(lines, move.at, y1)
           two    == Replaced(one, travel, target)
<1>1. move.at \in Nat \ {0} /\ move.y0 \in Int /\ move.y1 \in Int
  BY DEF Moves
<1>2. y1 \in Int
  <2>1. move.y1 + target - Middle(move) \div 2 \in Int
    BY <1>1 DEF Middle
  <2> QED
    BY <2>1, ClampValue DEF NewY
<1>3. travel \in 0..(move.at - 1)
  BY <1>1, TravelBefore
<1>4. PatchLine(lines, move, target, box) = IF travel = 0 THEN one ELSE two
  BY DEF PatchLine, NewY, Replaced
<1> HIDE DEF travel, y1
<1>5. /\ one \in Texts(n)
      /\ \A p \in 1..n : p # move.at => one[p] = lines[p]
      /\ \A p \in 1..n :
           p = move.at => /\ one[p].cmd = lines[p].cmd /\ one[p].y = y1
                          /\ ~one[p].ends => ~lines[p].ends \/ lines[p].y = NoY
  BY <1>2, CoordReplaced
<1> HIDE DEF one
<1>6. /\ two \in Texts(n)
      /\ \A p \in 1..n : p # travel => two[p] = one[p]
      /\ \A p \in 1..n :
           p = travel => /\ two[p].cmd = one[p].cmd /\ two[p].y = target
                         /\ ~two[p].ends => ~one[p].ends \/ one[p].y = NoY
  BY <1>5, CoordReplaced
<1> HIDE DEF two
<1> DEFINE at == move.at
<1>7. at # travel
  BY <1>1, <1>3
<1>8. PatchLine(lines, move, target, box) \in {one, two}
      /\ (travel = 0 => PatchLine(lines, move, target, box) = one)
      /\ (travel # 0 => PatchLine(lines, move, target, box) = two)
  BY <1>4
<1> DEFINE patched == PatchLine(lines, move, target, box)
<1> HIDE DEF at
<1>9. ASSUME NEW p \in 1..n
      PROVE  /\ patched[p].cmd = lines[p].cmd
             /\ patched[p].y = IF p = travel THEN target ELSE IF p = at THEN y1 ELSE lines[p].y
             /\ p # travel /\ p # at => patched[p] = lines[p]
             /\ ~patched[p].ends => ~lines[p].ends \/ lines[p].y = NoY
  <2> HIDE DEF patched
  <2>1. /\ p # at => one[p] = lines[p]
        /\ p = at => /\ one[p].cmd = lines[p].cmd /\ one[p].y = y1
                     /\ ~one[p].ends => ~lines[p].ends \/ lines[p].y = NoY
    <3> USE DEF at
    <3>1. p # at => one[p] = lines[p]
      BY <1>5
    <3>2. p = at => /\ one[p].cmd = lines[p].cmd /\ one[p].y = y1
                    /\ ~one[p].ends => ~lines[p].ends \/ lines[p].y = NoY
      BY <1>5
    <3> QED
      BY <3>1, <3>2
  <2>2. /\ p # travel => two[p] = one[p]
        /\ p = travel => /\ two[p].cmd = one[p].cmd /\ two[p].y = target
                         /\ ~two[p].ends => ~one[p].ends \/ one[p].y = NoY
    <3>1. p # travel => two[p] = one[p]
      BY <1>6
    <3>2. p = travel => /\ two[p].cmd = one[p].cmd /\ two[p].y = target
                        /\ ~two[p].ends => ~one[p].ends \/ one[p].y = NoY
      BY <1>6
    <3> QED
      BY <3>1, <3>2
  <2>3. CASE travel = 0
    <3>1. patched = one /\ p # travel
      BY <1>8, <2>3 DEF patched
    <3> QED
      BY ONLY <2>1, <3>1
  <2>4. CASE travel # 0
    <3>1. patched = two
      BY <1>8, <2>4 DEF patched
    <3>2. CASE p = travel
      BY ONLY <1>7, <2>1, <2>2, <3>1, <3>2
    <3>3. CASE p # travel
      BY ONLY <2>1, <2>2, <3>1, <3>3
    <3> QED
      BY <3>2, <3>3
  <2> QED
    BY <2>3, <2>4
<1>10. patched \in Texts(n)
  BY <1>5, <1>6, <1>8
<1> HIDE DEF patched
<1> QED
  BY <1>9, <1>10 DEF patched, travel, y1, at

-----------------------------------------------------------------------------
(* The loop of modify_layer.                                                *)

\* The turns of the loop.
Turns(length, moves, targets, box) ==
  [k \in DOMAIN targets |->
     [lines \in Texts(length) |-> PatchLine(lines, moves[k + 1], targets[k], box)]]

LEMMA ModifyTrace ==
  ASSUME NEW length \in Nat, NEW lines \in Texts(length), NEW moves, NEW sequence,
         NEW n \in Nat, NEW targets \in [1..n -> Int], targets = Targets(moves, sequence),
         \A k \in 1..n : moves[k + 1] \in Moves,
         NEW box \in Boxes, box = Box(moves)
  PROVE  \E t : /\ IsTrace(t, n, Texts(length), lines, Turns(length, moves, targets, box))
               /\ ModifyLayer(lines, moves, sequence) = t[n]
<1> DEFINE V == Texts(length)
           H == Turns(length, moves, targets, box)
           Iter(it) == [s \in SUBSET (1..n) |->
                          IF s = {} THEN lines
                          ELSE PatchLine(it[s \ {Max(s)}], moves[Max(s) + 1], targets[Max(s)], box)]
           it == CHOOSE f : f = Iter(f)
<1>1. H \in [1..n -> [V -> V]] /\ \A k \in 1..n : \A v \in V :
        H[k][v] = PatchLine(v, moves[k + 1], targets[k], box)
  <2>1. \A k \in 1..n : \A v \in V : PatchLine(v, moves[k + 1], targets[k], box) \in V
    BY PatchLineEffect
  <2> QED
    BY <2>1 DEF Turns
<1>2. \A s \in SUBSET (1..n) : s # {} => Max(s) \in 1..n
  BY MaxIsGreatest, \A s \in SUBSET (1..n) : s \in SUBSET (0..n)
<1>3. PICK f : Iterates(f, n, V, lines, H)
  <2> HIDE DEF H, V
  <2>1. lines \in V
    BY DEF V
  <2> QED
    BY <1>1, <2>1, FoldExists
<1> HIDE DEF H
<1>4. f = Iter(f)
  <2>1. ASSUME NEW s \in SUBSET (1..n) PROVE f[s] = Iter(f)[s]
    <3>1. CASE s = {}
      BY <1>3, <3>1 DEF Iterates
    <3>2. CASE s # {}
      <4>1. Max(s) \in 1..n /\ s \ {Max(s)} \in SUBSET (1..n)
        BY <1>2, <3>2
      <4>2. f[s] = H[Max(s)][f[s \ {Max(s)}]] /\ f[s \ {Max(s)}] \in V
        BY <1>3, <3>2, <4>1 DEF Iterates
      <4>3. f[s] = PatchLine(f[s \ {Max(s)}], moves[Max(s) + 1], targets[Max(s)], box)
        BY <1>1, <4>1, <4>2
      <4> QED
        BY <3>2, <4>3
    <3> QED
      BY <3>1, <3>2
  <2>2. f \in [SUBSET (1..n) -> V] /\ Iter(f) = [s \in SUBSET (1..n) |-> Iter(f)[s]]
    BY <1>3 DEF Iterates
  <2> HIDE DEF Iter
  <2> QED
    BY <2>1, <2>2
<1>5. it = Iter(it)
  <2> HIDE DEF Iter
  <2> QED
    BY <1>4
<1>6. ModifyLayer(lines, moves, sequence) = it[1..n]
  <2> DEFINE Loop(g) == [s \in SUBSET (DOMAIN [i \in DOMAIN targets |-> i]) |->
               IF s = {} THEN lines
               ELSE PatchLine(g[s \ {Max(s)}], moves[[i \in DOMAIN targets |-> i][Max(s)] + 1],
                              targets[[i \in DOMAIN targets |-> i][Max(s)]], box)]
  <2>1. ModifyLayer(lines, moves, sequence)
        = (CHOOSE g : g = Loop(g))[DOMAIN [i \in DOMAIN targets |-> i]]
    BY DEF ModifyLayer, FoldLeft, MapThenFoldSet
  <2>2. DOMAIN [i \in DOMAIN targets |-> i] = 1..n
    OBVIOUS
  <2>3. \A s \in SUBSET (1..n) : s # {} => [i \in DOMAIN targets |-> i][Max(s)] = Max(s)
    BY <1>2
  <2>4. ASSUME NEW g PROVE Loop(g) = Iter(g)
    BY <2>2, <2>3
  <2> HIDE DEF Loop, Iter
  <2>5. (CHOOSE g : g = Loop(g)) = (CHOOSE g : g = Iter(g))
    BY <2>4
  <2> QED
    BY <2>1, <2>2, <2>5 DEF it
<1>7. Folds(it, n, V, lines, H)
  <2>1. it[{}] = lines
    BY <1>5
  <2>2. ASSUME NEW s \in SUBSET (1..n), s # {}, it[s \ {Max(s)}] \in V
        PROVE  it[s] = H[Max(s)][it[s \ {Max(s)}]]
    <3>1. it[s] = PatchLine(it[s \ {Max(s)}], moves[Max(s) + 1], targets[Max(s)], box)
      <4> HIDE DEF it
      <4> QED
        BY <1>5, <2>2
    <3> HIDE DEF it, V
    <3> QED
      BY <1>1, <1>2, <2>2, <3>1
  <2> HIDE DEF it, V
  <2> QED
    BY <2>1, <2>2 DEF Folds
<1> HIDE DEF it, V
<1>8. lines \in V
  BY DEF V
<1>9. \E t : IsTrace(t, n, V, lines, H) /\ it[1..n] = t[n]
  <2>1. H \in [1..n -> [V -> V]]
    BY <1>1
  <2> HIDE DEF H
  <2> QED
    BY <2>1, <1>7, <1>8, FoldTrace, SMTT(30)
<1> QED
  BY <1>6, <1>9 DEF H, V

\* What modify_layer is given: n lines to move and where to, which is never below 0.
Given(length, lines, moves, sequence) ==
  /\ length \in Nat /\ lines \in Texts(length)
  /\ NEncode(moves) \in Nat /\ Targets(moves, sequence) \in [1..NEncode(moves) -> Int]
  /\ \A k \in 1..NEncode(moves) : moves[k + 1] \in Moves /\ moves[k + 1].at \in 1..length
  /\ Box(moves) \in Boxes
  /\ \A k \in 1..NEncode(moves) :
       /\ Targets(moves, sequence)[k] # NoY
       /\ NewY(moves[k + 1], Targets(moves, sequence)[k], Box(moves)) # NoY

LEMMA TurnEffect ==
  ASSUME NEW length, NEW lines, NEW moves, NEW sequence,
         Given(length, lines, moves, sequence)
  PROVE  LET n       == NEncode(moves)
             targets == Targets(moves, sequence)
             box     == Box(moves)
         IN  \E t \in [0..n -> Texts(length)] :
               /\ t[0] = lines /\ ModifyLayer(lines, moves, sequence) = t[n]
               /\ \A k \in 1..n : t[k] = PatchLine(t[k - 1], moves[k + 1], targets[k], box)
<1> DEFINE n       == NEncode(moves)
           targets == Targets(moves, sequence)
           box     == Box(moves)
           H       == Turns(length, moves, targets, box)
<1>1. PICK t : IsTrace(t, n, Texts(length), lines, H) /\ ModifyLayer(lines, moves, sequence) = t[n]
  <2> USE DEF Given
  <2>1. \A k \in 1..n : moves[k + 1] \in Moves
    OBVIOUS
  <2>2. n \in Nat /\ targets \in [1..n -> Int] /\ box \in Boxes /\ length \in Nat
        /\ lines \in Texts(length)
    OBVIOUS
  <2>3. targets = Targets(moves, sequence) /\ box = Box(moves)
    OBVIOUS
  <2> HIDE DEF n, targets, box, Given
  <2> QED
    BY <2>1, <2>2, <2>3, ModifyTrace
<1>2. ASSUME NEW k \in 1..n PROVE t[k] = PatchLine(t[k - 1], moves[k + 1], targets[k], box)
  <2>1. k - 1 \in 0..n /\ k \in DOMAIN targets
    BY DEF Given
  <2>2. t[k] = H[k][t[k - 1]] /\ t[k - 1] \in Texts(length)
    <3> HIDE DEF H, n
    <3> QED
      BY <1>1, <2>1 DEF IsTrace
  <2> HIDE DEF targets, box
  <2> QED
    BY <2>1, <2>2 DEF Turns
<1> HIDE DEF H
<1> QED
  BY <1>1, <1>2 DEF IsTrace

\* Commands stay, and so does what no turn touches; only those without a Y lose their
\* line ends.
LEMMA ModifyKeeps ==
  ASSUME NEW length, NEW lines, NEW moves, NEW sequence,
         Given(length, lines, moves, sequence)
  PROVE  LET modified == ModifyLayer(lines, moves, sequence)
         IN  /\ modified \in Texts(length)
             /\ \A p \in 1..length : modified[p].cmd = lines[p].cmd
             /\ \A p \in 1..length :
                  (\A k \in 1..NEncode(moves) :
                      /\ p # moves[k + 1].at
                      /\ p # FindPrecedingTravel(lines, moves[k + 1].at))
                  => modified[p] = lines[p]
             /\ \A p \in 1..length : ~modified[p].ends => ~lines[p].ends \/ lines[p].y = NoY
<1> DEFINE n       == NEncode(moves)
           targets == Targets(moves, sequence)
           box     == Box(moves)
           travel(k) == FindPrecedingTravel(lines, moves[k + 1].at)
           same(v) == \A p \in 1..length : v[p].cmd = lines[p].cmd
           ended(v) == \A p \in 1..length :
                         /\ ~v[p].ends => ~lines[p].ends \/ lines[p].y = NoY
                         /\ v[p].y = NoY => lines[p].y = NoY
           kept(v) == \A p \in 1..length :
                        (\A k \in 1..n : p # moves[k + 1].at /\ p # travel(k)) => v[p] = lines[p]
<1>1. PICK t \in [0..n -> Texts(length)] :
        /\ t[0] = lines /\ ModifyLayer(lines, moves, sequence) = t[n]
        /\ \A k \in 1..n : t[k] = PatchLine(t[k - 1], moves[k + 1], targets[k], box)
  BY TurnEffect
<1>2. /\ n \in Nat /\ length \in Nat /\ box \in Boxes
      /\ \A k \in 1..n : moves[k + 1] \in Moves /\ moves[k + 1].at \in 1..length
      /\ \A k \in 1..n : targets[k] \in Int /\ targets[k] # NoY
      /\ \A k \in 1..n : NewY(moves[k + 1], targets[k], box) # NoY
  BY DEF Given
<1> HIDE DEF n, targets, box
<1> DEFINE S == {k \in 0..n : same(t[k]) /\ kept(t[k]) /\ ended(t[k])}
<1>3. 0 \in S
  BY <1>1, <1>2
<1>4. ASSUME NEW i \in 0..(n - 1), i \in S PROVE i + 1 \in S
  <2>1. i \in 0..n /\ i + 1 \in 0..n /\ i + 1 \in 1..n /\ (i + 1) - 1 = i
    BY <1>2
  <2> DEFINE k == i + 1
  <2>2. t[k] = PatchLine(t[i], moves[k + 1], targets[k], box) /\ t[i] \in Texts(length)
        /\ t[k] \in Texts(length)
    BY <1>1, <2>1
  <2>3. same(t[i]) /\ kept(t[i]) /\ ended(t[i])
    BY <1>4
  <2>4. moves[k + 1] \in Moves /\ moves[k + 1].at \in 1..length /\ targets[k] \in Int
    BY <1>2, <2>1
  <2>5. k \in 1..n
    BY <2>1
  <2> HIDE DEF k
  <2>6. FindPrecedingTravel(t[i], moves[k + 1].at) = travel(k)
    <3> DEFINE now   == t[i]
               place == moves[k + 1].at
    <3>1. /\ \A p \in 1..length : now[p].cmd = lines[p].cmd
          /\ place \in 1..length /\ length \in Nat
      BY <1>2, <2>3, <2>4
    <3> HIDE DEF now, place
    <3>2. FindPrecedingTravel(now, place) = FindPrecedingTravel(lines, place)
      BY <3>1, SameTravel
    <3> QED
      BY <3>2 DEF now, place
  <2>7. /\ \A p \in 1..length : t[k][p].cmd = t[i][p].cmd
        /\ \A p \in 1..length :
             t[k][p].y = IF p = travel(k) THEN targets[k]
                         ELSE IF p = moves[k + 1].at THEN NewY(moves[k + 1], targets[k], box)
                         ELSE t[i][p].y
        /\ \A p \in 1..length : p # travel(k) /\ p # moves[k + 1].at => t[k][p] = t[i][p]
        /\ \A p \in 1..length : ~t[k][p].ends => ~t[i][p].ends \/ t[i][p].y = NoY
    BY <1>2, <2>2, <2>4, <2>6, PatchLineEffect
  <2>8. same(t[k])
    BY <2>3, <2>7
  <2>9. kept(t[k])
    <3> SUFFICES ASSUME NEW p \in 1..length,
                        \A j \in 1..n : p # moves[j + 1].at /\ p # travel(j)
                 PROVE  t[k][p] = lines[p]
      OBVIOUS
    <3>1. t[k][p] = t[i][p]
      BY <2>5, <2>7
    <3> QED
      BY <2>3, <3>1
  <2>10. ended(t[k])
    <3> SUFFICES ASSUME NEW p \in 1..length
                 PROVE  /\ ~t[k][p].ends => ~lines[p].ends \/ lines[p].y = NoY
                        /\ t[k][p].y = NoY => lines[p].y = NoY
      OBVIOUS
    <3>1. t[k][p].y = NoY => t[i][p].y = NoY
      BY <1>2, <2>5, <2>7
    <3>2. ~t[k][p].ends => ~t[i][p].ends \/ t[i][p].y = NoY
      BY <2>7
    <3> QED
      BY <2>3, <3>1, <3>2
  <2> QED
    BY <2>1, <2>8, <2>9, <2>10 DEF k
<1>5. 0..n \subseteq S
  <2> HIDE DEF S
  <2> QED
    BY <1>2, <1>3, <1>4, IntervalInduction
<1>6. n \in S
  BY <1>2, <1>5
<1>7. same(t[n]) /\ kept(t[n]) /\ ended(t[n]) /\ t[n] \in Texts(length)
  BY <1>1, <1>6
<1> QED
  BY <1>1, <1>7 DEF n

\* A command is its name, its height and its end.
LEMMA SameCommand ==
  \A c, d \in Commands :
    c.cmd = d.cmd /\ c.y = d.y /\ c.ends /\ d.ends => c = d
  BY DEF Commands

\* Lines that have travels of their own do not share them.
Apart(lines, moves) ==
  \A j, k \in 1..NEncode(moves) :
    /\ FindPrecedingTravel(lines, moves[j + 1].at) # moves[k + 1].at
    /\ j # k => /\ moves[j + 1].at # moves[k + 1].at
               /\ FindPrecedingTravel(lines, moves[j + 1].at)
                  # FindPrecedingTravel(lines, moves[k + 1].at)

\* Then every line and its travel stay where its own turn puts them.
LEMMA ModifyPlaces ==
  ASSUME NEW length, NEW lines, NEW moves, NEW sequence,
         Given(length, lines, moves, sequence), Apart(lines, moves)
  PROVE  LET modified == ModifyLayer(lines, moves, sequence)
             targets  == Targets(moves, sequence)
         IN  \A k \in 1..NEncode(moves) :
               LET travel == FindPrecedingTravel(lines, moves[k + 1].at)
               IN  /\ modified[moves[k + 1].at].y = NewY(moves[k + 1], targets[k], Box(moves))
                   /\ travel \in 1..length => modified[travel].y = targets[k]
<1> DEFINE n       == NEncode(moves)
           targets == Targets(moves, sequence)
           box     == Box(moves)
           at(k)     == moves[k + 1].at
           travel(k) == FindPrecedingTravel(lines, at(k))
           same(v) == \A p \in 1..length : v[p].cmd = lines[p].cmd
           placed(v, k) == /\ v[at(k)].y = NewY(moves[k + 1], targets[k], box)
                           /\ travel(k) \in 1..length => v[travel(k)].y = targets[k]
<1>1. PICK t \in [0..n -> Texts(length)] :
        /\ t[0] = lines /\ ModifyLayer(lines, moves, sequence) = t[n]
        /\ \A k \in 1..n : t[k] = PatchLine(t[k - 1], moves[k + 1], targets[k], box)
  BY TurnEffect
<1>2. /\ n \in Nat /\ length \in Nat /\ box \in Boxes
      /\ \A k \in 1..n : moves[k + 1] \in Moves /\ at(k) \in 1..length
      /\ \A k \in 1..n : targets[k] \in Int
  BY DEF Given
<1>3. \A j, k \in 1..n : travel(j) # at(k) /\ (j # k => at(j) # at(k) /\ travel(j) # travel(k))
  BY DEF Apart
<1> HIDE DEF n, targets, box
<1> DEFINE S == {k \in 0..n : same(t[k]) /\ \A j \in 1..k : placed(t[k], j)}
<1>4. 0 \in S
  BY <1>1, <1>2
<1>5. ASSUME NEW i \in 0..(n - 1), i \in S PROVE i + 1 \in S
  <2>1. i \in 0..n /\ i + 1 \in 0..n /\ i + 1 \in 1..n /\ (i + 1) - 1 = i
    BY <1>2
  <2> DEFINE k == i + 1
  <2>2. t[k] = PatchLine(t[i], moves[k + 1], targets[k], box) /\ t[i] \in Texts(length)
    BY <1>1, <2>1
  <2>3. same(t[i]) /\ \A j \in 1..i : placed(t[i], j)
    BY <1>5
  <2>4. moves[k + 1] \in Moves /\ at(k) \in 1..length /\ targets[k] \in Int
    BY <1>2, <2>1
  <2>5. k \in 1..n /\ \A j \in 1..k : j \in 1..n /\ (j = k \/ (j # k /\ j \in 1..i))
    <3>1. k \in 1..n
      BY <2>1
    <3>2. ASSUME NEW j \in 1..k PROVE j \in 1..n /\ (j = k \/ (j # k /\ j \in 1..i))
      BY <1>2, <2>1
    <3> QED
      BY <3>1, <3>2
  <2> HIDE DEF k
  <2>6. FindPrecedingTravel(t[i], at(k)) = travel(k)
    <3> DEFINE now   == t[i]
               place == moves[k + 1].at
    <3>1. /\ \A p \in 1..length : now[p].cmd = lines[p].cmd
          /\ place \in 1..length /\ length \in Nat
      BY <1>2, <2>3, <2>4
    <3> HIDE DEF now, place
    <3>2. FindPrecedingTravel(now, place) = FindPrecedingTravel(lines, place)
      BY <3>1, SameTravel
    <3> QED
      BY <3>2 DEF now, place
  <2>7. /\ \A p \in 1..length : t[k][p].cmd = t[i][p].cmd
        /\ \A p \in 1..length :
             t[k][p].y = IF p = travel(k) THEN targets[k]
                         ELSE IF p = at(k) THEN NewY(moves[k + 1], targets[k], box)
                         ELSE t[i][p].y
    <3> DEFINE now    == t[i]
               move   == moves[k + 1]
               target == targets[k]
    <3>1. /\ length \in Nat /\ now \in Texts(length) /\ move \in Moves /\ target \in Int
          /\ box \in Boxes
      BY <1>2, <2>2, <2>4
    <3> HIDE DEF now, move, target
    <3>2. LET patched == PatchLine(now, move, target, box)
          IN  /\ \A p \in 1..length : patched[p].cmd = now[p].cmd
              /\ \A p \in 1..length :
                   patched[p].y = IF p = FindPrecedingTravel(now, move.at) THEN target
                                  ELSE IF p = move.at THEN NewY(move, target, box)
                                  ELSE now[p].y
      BY <3>1, PatchLineEffect
    <3> QED
      BY <2>2, <2>6, <3>2 DEF now, move, target
  <2>8. same(t[k])
    BY <2>3, <2>7
  <2> HIDE DEF travel
  <2>9. ASSUME NEW j \in 1..k PROVE placed(t[k], j)
    <3>1. j \in 1..n /\ at(j) \in 1..length
      BY <1>2, <2>5
    <3>2. CASE j = k
      <4>1. at(k) # travel(k)
        BY <1>3, <2>5
      <4> QED
        BY <2>4, <2>7, <3>2, <4>1
    <3>3. CASE j # k /\ j \in 1..i
      <4>1. /\ at(j) # at(k) /\ at(j) # travel(k)
            /\ travel(j) # at(k) /\ travel(j) # travel(k)
        BY <1>3, <2>5, <3>1, <3>3
      <4>2. placed(t[i], j)
        BY <2>3, <3>3
      <4>3. t[k][at(j)].y = t[i][at(j)].y
        BY <2>7, <3>1, <4>1
      <4>4. travel(j) \in 1..length => t[k][travel(j)].y = t[i][travel(j)].y
        BY <2>7, <4>1
      <4> QED
        BY <4>2, <4>3, <4>4
    <3> QED
      BY <2>5, <3>2, <3>3
  <2> HIDE DEF same, placed
  <2> QED
    BY <2>1, <2>8, <2>9 DEF k
<1>6. 0..n \subseteq S
  <2> HIDE DEF S
  <2> QED
    BY <1>2, <1>4, <1>5, IntervalInduction
<1>7. n \in S
  BY <1>2, <1>6
<1>8. \A j \in 1..n : placed(t[n], j)
  BY <1>7
<1> QED
  BY <1>1, <1>8 DEF n, targets, box

-----------------------------------------------------------------------------
(* What a layer with lines enough gives modify_layer.                       *)

LEMMA GroupShape ==
  ASSUME NEW lines, WellWritten(lines)
  PROVE  LET moves == SortedLines(lines)
             n     == Cardinality(Printed(lines))
         IN  /\ n \in Nat /\ DOMAIN moves = 1..n /\ moves \in Seq(Moves) /\ Len(moves) = n
             /\ \A k \in 1..n : moves[k] \in Printed(lines)
             /\ \A a \in Printed(lines) : \E k \in 1..n : moves[k] = a
             /\ \A j, k \in 1..n : moves[j].at = moves[k].at => j = k
             /\ \A j, k \in 1..n : j <= k => moves[j].y1 <= moves[k].y1
<1> DEFINE moves == SortedLines(lines)
           n     == Cardinality(Printed(lines))
<1>1. InOrder(moves, lines)
  BY SortedInOrder
<1>2. n \in Nat
  BY PrintedFinite, FS_CardinalityType DEF WellWritten
<1> HIDE DEF moves
<1>3. /\ moves \in [1..n -> Printed(lines)]
      /\ \A a \in Printed(lines) : \E k \in 1..n : moves[k] = a
      /\ \A j, k \in 1..n : j < k <=> Before(moves[j], moves[k])
  BY <1>1 DEF InOrder
<1> HIDE DEF n
<1>4. ASSUME NEW k \in 1..n
      PROVE  /\ moves[k] \in Printed(lines) /\ moves[k] \in Moves
             /\ moves[k].at \in Nat /\ moves[k].y1 \in Int
             /\ Middle(moves[k]) = 2 * moves[k].y1
  <2>1. moves[k] \in Printed(lines)
    BY <1>3
  <2>2. moves[k] \in Moves /\ Middle(moves[k]) = 2 * moves[k].y1
    BY <2>1, PrintedMoves
  <2> QED
    BY <2>1, <2>2 DEF Moves
<1>5. moves \in [1..n -> Moves]
  BY <1>3, <1>4
<1>6. moves \in Seq(Moves) /\ Len(moves) = n
  <2>1. moves \in Seq(Moves)
    BY <1>2, <1>5 DEF Seq
  <2>2. DOMAIN moves = 1..n
    BY <1>5
  <2> QED
    BY <1>2, <2>1, <2>2, LenProperties
<1>7. ASSUME NEW j \in 1..n, NEW k \in 1..n, moves[j].at = moves[k].at PROVE j = k
  <2>1. moves[j] = Drawn(lines, moves[j].at) /\ moves[k] = Drawn(lines, moves[k].at)
    BY <1>4, PrintedMoves
  <2>2. moves[j] = moves[k]
    BY <1>7, <2>1
  <2>3. ~Before(moves[j], moves[k]) /\ ~Before(moves[k], moves[j])
    BY <1>4, <2>2 DEF Before
  <2>4. ~(j < k) /\ ~(k < j)
    BY <1>3, <2>3
  <2> QED
    BY <1>2, <2>4
<1>8. ASSUME NEW j \in 1..n, NEW k \in 1..n, j <= k PROVE moves[j].y1 <= moves[k].y1
  <2>1. CASE j = k
    BY <1>4, <2>1
  <2>2. CASE j < k
    <3>1. Before(moves[j], moves[k])
      BY <1>3, <2>2
    <3>2. Middle(moves[j]) <= Middle(moves[k])
      BY <1>4, <3>1 DEF Before
    <3> QED
      BY <1>4, <3>2
  <2> QED
    BY <1>2, <1>8, <2>1, <2>2
<1> QED
  BY <1>2, <1>3, <1>4, <1>5, <1>6, <1>7, <1>8 DEF moves, n

LEMMA BoxShape ==
  ASSUME NEW lines, WellWritten(lines), Cardinality(Printed(lines)) >= 1
  PROVE  LET moves == SortedLines(lines)
         IN  Box(moves) \in Boxes /\ Box(moves).lo <= moves[1].y1 /\ Box(moves).hi \in Nat
<1> DEFINE moves  == SortedLines(lines)
           n      == Cardinality(Printed(lines))
           ends   == {moves[i].y0 : i \in DOMAIN moves} \cup {moves[i].y1 : i \in DOMAIN moves}
           margin == (Max(ends) - Min(ends)) \div 20
<1>1. /\ n \in Nat /\ n >= 1 /\ DOMAIN moves = 1..n
      /\ \A k \in 1..n : moves[k] \in Printed(lines)
      /\ \A j, k \in 1..n : j <= k => moves[j].y1 <= moves[k].y1
  BY GroupShape
<1>2. Box(moves) = [lo |-> Min(ends) - margin, hi |-> Max(ends) + margin]
  BY DEF Box
<1> HIDE DEF moves, n
<1>3. ASSUME NEW k \in 1..n PROVE moves[k].y0 = moves[k].y1 /\ moves[k].y1 \in Nat
  <2>1. moves[k].y0 = moves[k].y1 /\ moves[k].y1 \in Heights
    BY <1>1, PrintedMoves
  <2> QED
    BY <2>1, HeightsAreNatural
<1>4. 1 \in 1..n /\ n \in 1..n /\ \A k \in 1..n : k <= n
  BY <1>1
<1>5. /\ ends \in SUBSET (0..moves[n].y1) /\ moves[1].y1 \in ends /\ moves[n].y1 \in Nat
      /\ ends # {}
  <2>1. ASSUME NEW k \in 1..n PROVE moves[k].y1 \in 0..moves[n].y1
    <3>1. moves[k].y1 <= moves[n].y1
      BY <1>1, <1>4
    <3> QED
      BY <1>3, <1>4, <3>1
  <2>2. \A x \in ends : \E k \in 1..n : x = moves[k].y1
    BY <1>1, <1>3
  <2>3. moves[1].y1 \in ends
    BY <1>1, <1>4
  <2>4. moves[n].y1 \in Nat
    BY <1>3, <1>4
  <2> HIDE DEF ends
  <2> QED
    BY <2>1, <2>2, <2>3, <2>4
<1> HIDE DEF ends
<1>6. /\ Max(ends) \in ends /\ \A x \in ends : x <= Max(ends)
      /\ Min(ends) \in ends /\ \A x \in ends : Min(ends) <= x
  <2>1. ends \in SUBSET Nat
    BY <1>5
  <2> QED
    BY <1>5, <2>1, MaxIsGreatest, MinIsLeast
<1>7. Max(ends) \in Nat /\ Min(ends) \in Nat /\ Min(ends) <= moves[1].y1 /\ Min(ends) <= Max(ends)
  <2>1. Max(ends) \in 0..moves[n].y1 /\ Min(ends) \in 0..moves[n].y1
    BY <1>5, <1>6
  <2>2. Min(ends) <= moves[1].y1 /\ Min(ends) <= Max(ends)
    BY <1>5, <1>6
  <2>3. moves[n].y1 \in Nat
    BY <1>5
  <2> QED
    BY <2>1, <2>2, <2>3
<1>8. margin \in Nat
  BY <1>7
<1> HIDE DEF margin
<1>9. Min(ends) - margin \in Int /\ Max(ends) + margin \in Nat /\ Min(ends) - margin <= moves[1].y1
  <2>1. moves[1].y1 \in Nat
    BY <1>3, <1>4
  <2> QED
    BY <1>7, <1>8, <2>1
<1>10. Box(moves) \in Boxes /\ Box(moves).lo <= moves[1].y1 /\ Box(moves).hi \in Nat
  BY <1>2, <1>9 DEF Boxes
<1> QED
  BY <1>10 DEF moves

\* Sums of what is not negative are not negative.
LEMMA SumsNatural ==
  ASSUME NEW m \in Nat, NEW f \in [1..m -> Int], NEW base \in Nat, NEW g,
         \A i \in 1..m : g[i] \in Nat, Sums(f, base, g)
  PROVE  \A i \in 1..m : f[i] \in Nat
<1> DEFINE S == {i \in 0..m : i = 0 \/ f[i] \in Nat}
<1>1. 0 \in S
  OBVIOUS
<1>2. ASSUME NEW i \in 0..(m - 1), i \in S PROVE i + 1 \in S
  <2>1. i + 1 \in 1..m /\ i + 1 \in 0..m /\ (i + 1) - 1 = i
    OBVIOUS
  <2>2. f[i + 1] = (IF i = 0 THEN base ELSE f[i]) + g[i + 1] /\ g[i + 1] \in Nat
    BY <2>1 DEF Sums
  <2>3. f[i + 1] \in Nat
    BY <1>2, <2>2
  <2> QED
    BY <2>1, <2>3
<1>3. 0..m \subseteq S
  <2> HIDE DEF S
  <2> QED
    BY <1>1, <1>2, IntervalInduction
<1> QED
  BY <1>3

LEMMA EncodingGiven ==
  ASSUME NEW lines, WellWritten(lines), Cardinality(Printed(lines)) >= MinLines,
         Len(Spacings(lines)) >= 2, NEW bits
  PROVE  LET moves    == SortedLines(lines)
             sequence == SpacingSequence(bits, Nominal(lines))
         IN  /\ Given(Len(lines), lines, moves, sequence)
             /\ NEncode(moves) = PayloadBits + 2
             /\ Sums(Targets(moves, sequence), moves[1].y1, sequence)
<1> DEFINE moves    == SortedLines(lines)
           sequence == SpacingSequence(bits, Nominal(lines))
           n        == Cardinality(Printed(lines))
<1>1. PayloadBits \in Nat \ {0}
  BY ModifierConstants
<1>2. /\ n \in Nat /\ Len(moves) = n
      /\ \A k \in 1..n : moves[k] \in Printed(lines)
  BY GroupShape
<1>3. n >= PayloadBits + 3
  BY DEF MinLines
<1>4. Len(lines) \in Nat /\ lines \in Texts(Len(lines)) /\ DOMAIN lines = 1..Len(lines)
  BY LenProperties DEF Texts, WellWritten
<1>5. ASSUME NEW k \in 1..n
      PROVE  moves[k] \in Moves /\ moves[k].at \in 1..Len(lines)
  BY <1>2, <1>4, PrintedMoves
<1>6. /\ sequence \in Seq(Int) /\ Len(sequence) = PayloadBits + 2
      /\ \A i \in 1..(PayloadBits + 2) : sequence[i] \in Nat
  <2>1. Nominal(lines) \in Nat /\ Nominal(lines) >= 40
    BY NominalWide
  <2> QED
    BY <2>1, SequenceValues
<1>7. /\ \A k \in 1..n : moves[k].y1 \in Nat /\ Middle(moves[k]) = 2 * moves[k].y1
      /\ moves[1].y1 \in Nat /\ Middle(moves[1]) \div 2 = moves[1].y1
  <2>1. ASSUME NEW k \in 1..n PROVE moves[k].y1 \in Nat /\ Middle(moves[k]) = 2 * moves[k].y1
    <3>1. Middle(moves[k]) = 2 * moves[k].y1 /\ moves[k].y1 \in Heights
      BY <1>2, PrintedMoves
    <3> QED
      BY <3>1, HeightsAreNatural
  <2>2. 1 \in 1..n
    BY <1>1, <1>2, <1>3
  <2> HIDE DEF moves
  <2> QED
    BY <2>1, <2>2
<1>8. Box(moves) \in Boxes /\ Box(moves).hi \in Nat
  <2>1. n >= 1
    BY <1>1, <1>2, <1>3
  <2> QED
    BY <2>1, BoxShape
<1> HIDE DEF moves, sequence, n
<1>9. NEncode(moves) = PayloadBits + 2
  <2>1. n - 1 \in Int /\ PayloadBits + 2 \in Int /\ PayloadBits + 2 <= n - 1
    BY <1>1, <1>2, <1>3
  <2>2. NEncode(moves) = IF n - 1 <= PayloadBits + 2 THEN n - 1 ELSE PayloadBits + 2
    BY <1>2, <2>1, MinOfTwo DEF NEncode
  <2> QED
    BY <1>1, <1>2, <2>1, <2>2
<1>10. /\ Targets(moves, sequence) \in [1..NEncode(moves) -> Int]
       /\ Sums(Targets(moves, sequence), moves[1].y1, sequence)
  <2>1. NEncode(moves) \in Nat /\ NEncode(moves) <= Len(sequence)
    BY <1>1, <1>6, <1>9
  <2> QED
    BY <1>6, <1>7, <2>1, TargetsSum
<1>11. \A k \in 1..NEncode(moves) : moves[k + 1] \in Moves /\ moves[k + 1].at \in 1..Len(lines)
  <2>1. \A k \in 1..NEncode(moves) : k + 1 \in 1..n
    BY <1>1, <1>2, <1>3, <1>9
  <2> QED
    BY <1>5, <2>1
<1>12. NEncode(moves) \in Nat
  BY <1>1, <1>9
<1>13. ASSUME NEW k \in 1..NEncode(moves)
       PROVE  /\ Targets(moves, sequence)[k] # NoY
              /\ NewY(moves[k + 1], Targets(moves, sequence)[k], Box(moves)) # NoY
  <2> DEFINE targets == Targets(moves, sequence)
             m       == NEncode(moves)
             move    == moves[k + 1]
             box     == Box(moves)
  <2>1. \A i \in 1..m : targets[i] \in Nat
    <3>1. targets \in [1..m -> Int] /\ m \in Nat /\ Sums(targets, moves[1].y1, sequence)
      BY <1>10, <1>12
    <3>2. \A i \in 1..m : sequence[i] \in Nat
      BY <1>6, <1>9
    <3> HIDE DEF targets, m
    <3> QED
      BY <1>7, <3>1, <3>2, SumsNatural
  <2>2. k + 1 \in 1..n
    BY <1>1, <1>2, <1>3, <1>9
  <2>3. move.y1 \in Nat /\ Middle(move) = 2 * move.y1
    BY <1>7, <2>2
  <2>4. targets[k] \in Nat
    BY <2>1
  <2>box. box \in Boxes /\ box.hi \in Nat
    BY <1>8
  <2> HIDE DEF targets, move, box
  <2>5. move.y1 + targets[k] - Middle(move) \div 2 = targets[k]
    BY <2>3, <2>4
  <2>6. Clamp(targets[k], box) \in Nat
    <3>1. targets[k] \in Int
      BY <2>4
    <3> QED
      BY ONLY <2>4, <2>box, <3>1, ClampValue
  <2>7. NewY(move, targets[k], box) = Clamp(targets[k], box)
    BY <2>5 DEF NewY
  <2>8. targets[k] # NoY /\ NewY(move, targets[k], box) # NoY
    BY <2>4, <2>6, <2>7 DEF NoY
  <2> QED
    BY <2>8 DEF targets, move, box
<1> QED
  BY <1>4, <1>8, <1>9, <1>10, <1>11, <1>12, <1>13 DEF Given, moves, sequence

-----------------------------------------------------------------------------
(* The slicer's rows.                                                       *)

LEMMA LineAppended ==
  ASSUME NEW s \in Seq(Commands), NEW c \in Commands
  PROVE  LET t == s \o <<c>>
             n == Len(s)
         IN  /\ t \in Seq(Commands) /\ Len(t) = n + 1 /\ DOMAIN t = 1..(n + 1)
             /\ t[n + 1] = c /\ \A k \in 1..n : t[k] = s[k]
<1> DEFINE e == <<c>>
           t == s \o e
           n == Len(s)
<1>1. e \in Seq(Commands) /\ Len(e) = 1 /\ e[1] = c /\ 1 \in 1..1
  OBVIOUS
<1> HIDE DEF e
<1>2. t \in Seq(Commands) /\ Len(t) = n + 1
  BY <1>1, ConcatType, ConcatLen
<1>3. t[n + 1] = c
  <2>1. \A k \in 1..Len(e) : (s \o e)[Len(s) + k] = e[k]
    BY <1>1, ConcatRight
  <2> QED
    BY <1>1, <2>1
<1>4. \A k \in 1..n : t[k] = s[k]
  BY <1>1, ConcatLeft
<1> HIDE DEF t, n
<1>5. DOMAIN t = 1..(n + 1)
  BY <1>2, LenProperties
<1> QED
  BY <1>2, <1>3, <1>4, <1>5 DEF t, e, n

\* A row has one line, its last command, and what reaches it.
IsRow(row, y) ==
  /\ WellWritten(row) /\ Len(row) \in Nat \ {0}
  /\ row[Len(row)] = Command("line", y)
  /\ \A i \in 1..Len(row) : row[i].cmd = "line" <=> i = Len(row)

LEMMA RowShape ==
  ASSUME NEW lead \in Leads, NEW y \in Heights
  PROVE  IsRow(Row(lead, y), y)
<1>1. y \in Int /\ y # NoY
  BY HeightsAreNatural
<1>2. \A cmd \in {"travel", "retract", "unretract", "feed", "joint", "line"} :
        Command(cmd, y) \in Commands /\ Command(cmd, NoY) \in Commands
  BY <1>1 DEF Command, Commands, NoY
<1> DEFINE line == Command("line", y)
<1>3. ASSUME NEW move \in Commands, move = Command("travel", y) \/ move = Command("joint", y),
             LeadText(lead, y) = <<move>>
      PROVE  IsRow(Row(lead, y), y)
  <2> DEFINE s   == <<move>>
           row == s \o <<line>>
  <2>0. s \in Seq(Commands) /\ Len(s) = 1 /\ s[1] = move /\ 1 \in 1..1 /\ Row(lead, y) = row
    BY <1>3 DEF Row
  <2> HIDE DEF s
  <2>1. row \in Seq(Commands) /\ DOMAIN row = 1..2 /\ Len(row) = 2 /\ row[1] = move /\ row[2] = line
    <3>1. line \in Commands
      BY <1>2
    <3> HIDE DEF line
    <3>2. /\ row \in Seq(Commands) /\ DOMAIN row = 1..(Len(s) + 1) /\ Len(row) = Len(s) + 1
          /\ row[Len(s) + 1] = line /\ \A k \in 1..Len(s) : row[k] = s[k]
      BY <2>0, <3>1, LineAppended
    <3> QED
      BY <2>0, <3>2
  <2> HIDE DEF row
  <2>2. \A i \in 1..2 : row[i].cmd = "line" <=> i = 2
    BY <1>3, <2>1 DEF Command
  <2>3. ReachedBy(row, 2, 1) /\ row[2].y = y
    BY <1>3, <2>1 DEF ReachedBy, Command
  <2>4. WellWritten(row)
    BY <1>3, <2>1, <2>2, <2>3 DEF WellWritten, Command
  <2> QED
    BY <2>0, <2>1, <2>2, <2>4 DEF IsRow
<1>4. CASE lead = "travel"
  <2>1. LeadText(lead, y) = <<Command("travel", y)>>
    BY <1>4 DEF LeadText
  <2> QED
    BY <1>2, <1>3, <2>1
<1>5. CASE lead = "joint"
  <2>1. LeadText(lead, y) = <<Command("joint", y)>>
    BY <1>5 DEF LeadText
  <2> QED
    BY <1>2, <1>3, <2>1
<1>6. CASE lead = "fed"
  <2> DEFINE s   == <<Command("travel", y), Command("feed", NoY)>>
           row == s \o <<line>>
  <2>1. Row(lead, y) = row
    BY <1>6 DEF Row, LeadText
  <2>2. /\ row \in Seq(Commands) /\ DOMAIN row = 1..3 /\ Len(row) = 3
        /\ row[1] = Command("travel", y) /\ row[2] = Command("feed", NoY) /\ row[3] = line
    <3>1. /\ s \in Seq(Commands) /\ Len(s) = 2
          /\ s[1] = Command("travel", y) /\ s[2] = Command("feed", NoY)
          /\ line \in Commands /\ 1 \in 1..2 /\ 2 \in 1..2
      BY <1>2
    <3> HIDE DEF line, s
    <3>2. /\ row \in Seq(Commands) /\ DOMAIN row = 1..(Len(s) + 1) /\ Len(row) = Len(s) + 1
          /\ row[Len(s) + 1] = line /\ \A k \in 1..Len(s) : row[k] = s[k]
      BY <3>1, LineAppended
    <3> QED
      BY <3>1, <3>2
  <2> HIDE DEF row
  <2>3. \A i \in 1..3 : row[i].cmd = "line" <=> i = 3
    BY <2>2 DEF Command
  <2>4. ReachedBy(row, 3, 1) /\ row[3].y = y
    BY <2>2 DEF ReachedBy, Command
  <2>5. WellWritten(row)
    BY <2>2, <2>3, <2>4 DEF WellWritten, Command
  <2> QED
    BY <2>1, <2>2, <2>3, <2>5 DEF IsRow
<1>7. CASE lead = "unretracted"
  <2> DEFINE s   == <<Command("retract", NoY), Command("travel", y), Command("unretract", NoY)>>
           row == s \o <<line>>
  <2>1. Row(lead, y) = row
    BY <1>7 DEF Row, LeadText
  <2>2. /\ row \in Seq(Commands) /\ DOMAIN row = 1..4 /\ Len(row) = 4
        /\ row[1] = Command("retract", NoY) /\ row[2] = Command("travel", y)
        /\ row[3] = Command("unretract", NoY) /\ row[4] = line
    <3>1. /\ s \in Seq(Commands) /\ Len(s) = 3
          /\ s[1] = Command("retract", NoY) /\ s[2] = Command("travel", y)
          /\ s[3] = Command("unretract", NoY)
          /\ line \in Commands /\ 1 \in 1..3 /\ 2 \in 1..3 /\ 3 \in 1..3
      BY <1>2
    <3> HIDE DEF line, s
    <3>2. /\ row \in Seq(Commands) /\ DOMAIN row = 1..(Len(s) + 1) /\ Len(row) = Len(s) + 1
          /\ row[Len(s) + 1] = line /\ \A k \in 1..Len(s) : row[k] = s[k]
      BY <3>1, LineAppended
    <3> QED
      BY <3>1, <3>2
  <2> HIDE DEF row
  <2>3. \A i \in 1..4 : row[i].cmd = "line" <=> i = 4
    BY <2>2 DEF Command
  <2>4. ReachedBy(row, 4, 2) /\ row[4].y = y
    BY <2>2 DEF ReachedBy, Command
  <2>5. WellWritten(row)
    BY <2>2, <2>3, <2>4 DEF WellWritten, Command
  <2> QED
    BY <2>1, <2>2, <2>3, <2>5 DEF IsRow
<1> QED
  BY <1>4, <1>5, <1>6, <1>7 DEF Leads

LEMMA ReachedLater ==
  ASSUME NEW s, NEW r, NEW n \in Nat, NEW i \in Nat, NEW j, ReachedBy(r, i, j),
         \A k \in 1..i : s[n + k] = r[k]
  PROVE  ReachedBy(s, n + i, n + j)
<1>1. j \in 1..(i - 1) /\ j \in 1..i /\ i \in 1..i /\ i - 1 \in 1..i
  BY DEF ReachedBy
<1>2. s[n + j] = r[j] /\ s[n + i] = r[i] /\ s[n + (i - 1)] = r[i - 1]
  BY <1>1
<1>3. n + j \in 1..((n + i) - 1) /\ (n + i) - 1 = n + (i - 1)
      /\ (j = i - 1 => n + j = (n + i) - 1) /\ (j = i - 2 => n + j = (n + i) - 2)
  BY <1>1
<1> QED
  BY <1>2, <1>3 DEF ReachedBy

LEMMA WellWrittenConcat ==
  ASSUME NEW s, NEW r, WellWritten(s), WellWritten(r)
  PROVE  WellWritten(s \o r)
<1> DEFINE t == s \o r
           n == Len(s)
           m == Len(r)
<1>1. /\ s \in Seq(Commands) /\ r \in Seq(Commands) /\ n \in Nat /\ m \in Nat
      /\ DOMAIN s = 1..n /\ DOMAIN r = 1..m
  BY LenProperties DEF WellWritten
<1>2. t \in Seq(Commands) /\ Len(t) = n + m /\ DOMAIN t = 1..(n + m)
  <2>1. t \in Seq(Commands) /\ Len(t) = n + m
    BY <1>1, ConcatType, ConcatLen
  <2> HIDE DEF t
  <2> QED
    BY <2>1, LenProperties
<1>3. /\ \A k \in 1..n : t[k] = s[k]
      /\ \A k \in 1..m : t[n + k] = r[k]
  BY <1>1, ConcatLeft, ConcatRight
<1> HIDE DEF t, n, m
<1>4. ASSUME NEW i \in 1..(n + m), t[i].cmd = "line"
      PROVE  t[i].y \in Heights /\ \E j \in DOMAIN t : ReachedBy(t, i, j)
  <2>1. CASE i \in 1..n
    <3>1. s[i] = t[i]
      BY <1>3, <2>1
    <3>2. PICK j \in DOMAIN s : ReachedBy(s, i, j)
      BY <1>1, <1>4, <2>1, <3>1 DEF WellWritten
    <3>3. i \in Nat /\ 0 \in Nat /\ \A k \in 1..i : k \in 1..n /\ 0 + k = k
      BY <1>1, <2>1
    <3>4. \A k \in 1..i : t[0 + k] = s[k]
      BY <1>3, <3>3
    <3>5. ReachedBy(t, 0 + i, 0 + j)
      BY <3>2, <3>3, <3>4, ReachedLater
    <3>6. j \in 1..n /\ 0 + i = i /\ 0 + j = j /\ j \in DOMAIN t
      BY <1>1, <1>2, <3>2, <3>3
    <3>7. s[i].y \in Heights
      BY <1>1, <1>4, <2>1, <3>1 DEF WellWritten
    <3> QED
      BY <3>1, <3>5, <3>6, <3>7
  <2>2. CASE i \notin 1..n
    <3>1. PICK k \in 1..m : i = n + k
      <4>1. i - n \in 1..m /\ i = n + (i - n)
        BY <1>1, <2>2
      <4> QED
        BY <4>1
    <3>2. t[i] = r[k]
      BY <1>3, <3>1
    <3>3. r[k].y \in Heights
      BY <1>1, <1>4, <3>2 DEF WellWritten
    <3>4. PICK j \in DOMAIN r : ReachedBy(r, k, j)
      BY <1>1, <1>4, <3>2 DEF WellWritten
    <3>5. \A l \in 1..k : l \in 1..m
      BY <1>1
    <3>6. ReachedBy(t, n + k, n + j)
      <4>1. \A l \in 1..k : t[n + l] = r[l]
        BY <1>3, <3>5
      <4> QED
        BY <1>1, <3>4, <4>1, ReachedLater
    <3>7. n + j \in DOMAIN t
      BY <1>1, <1>2, <3>4
    <3> QED
      BY <3>1, <3>2, <3>3, <3>6, <3>7
  <2> QED
    BY <2>1, <2>2
<1>5. ASSUME NEW i \in 1..(n + m) PROVE t[i].ends
  <2>1. CASE i \in 1..n
    BY <1>1, <1>3, <2>1 DEF WellWritten
  <2>2. CASE i \notin 1..n
    <3>1. i - n \in 1..m /\ i = n + (i - n)
      BY <1>1, <2>2
    <3> QED
      BY <1>1, <1>3, <3>1 DEF WellWritten
  <2> QED
    BY <2>1, <2>2
<1>6. WellWritten(t)
  BY <1>2, <1>4, <1>5 DEF WellWritten
<1> QED
  BY <1>6 DEF t

\* The lines of a text by their places.
Places(lines) == {i \in DOMAIN lines : lines[i].cmd = "line"}

LEMMA RowAppended ==
  ASSUME NEW lines, WellWritten(lines), NEW lead \in Leads, NEW y \in Heights
  PROVE  LET longer == lines \o Row(lead, y)
         IN  /\ WellWritten(longer) /\ Len(longer) > 0 /\ Last(longer) = Command("line", y)
             /\ Cardinality(Places(longer)) = Cardinality(Places(lines)) + 1
             /\ Cardinality(Places(lines)) \in Nat
<1> DEFINE row == Row(lead, y)
           t   == lines \o row
           n   == Len(lines)
           m   == Len(row)
<1>1. /\ WellWritten(row) /\ m \in Nat \ {0} /\ row[m] = Command("line", y)
      /\ \A i \in 1..m : row[i].cmd = "line" <=> i = m
  BY RowShape DEF IsRow
<1>2. WellWritten(t)
  <2> HIDE DEF row
  <2> QED
    BY <1>1, WellWrittenConcat
<1> HIDE DEF row
<1>3. lines \in Seq(Commands) /\ row \in Seq(Commands) /\ n \in Nat /\ DOMAIN lines = 1..n
  BY <1>1, LenProperties DEF WellWritten
<1>4. Len(t) = n + m /\ DOMAIN t = 1..(n + m)
  <2>1. t \in Seq(Commands) /\ Len(t) = n + m
    BY <1>3, ConcatType, ConcatLen
  <2> HIDE DEF t
  <2> QED
    BY <2>1, LenProperties
<1>5. /\ \A k \in 1..n : t[k] = lines[k]
      /\ \A k \in 1..m : t[n + k] = row[k]
  BY <1>3, ConcatLeft, ConcatRight
<1> HIDE DEF t, n, m
<1>6. n + m \in 1..(n + m) /\ n + m > 0 /\ m \in 1..m /\ t[n + m] = Command("line", y)
  BY <1>1, <1>3, <1>5
<1>7. Last(t) = Command("line", y)
  BY <1>4, <1>6 DEF Last
<1>8. Places(t) = Places(lines) \cup {n + m}
  <2>1. ASSUME NEW i \in Places(t) PROVE i \in Places(lines) \cup {n + m}
    <3>1. i \in 1..(n + m) /\ t[i].cmd = "line"
      BY <1>4 DEF Places
    <3>2. CASE i \in 1..n
      BY <1>3, <1>5, <3>1, <3>2 DEF Places
    <3>3. CASE i \notin 1..n
      <4>1. i - n \in 1..m /\ i = n + (i - n)
        BY <1>1, <1>3, <3>1, <3>3
      <4>2. row[i - n].cmd = "line"
        BY <1>5, <3>1, <4>1
      <4>3. i - n = m
        BY <1>1, <4>1, <4>2
      <4> QED
        BY <4>1, <4>3
    <3> QED
      BY <3>2, <3>3
  <2>2. ASSUME NEW i \in Places(lines) PROVE i \in Places(t)
    <3>1. i \in 1..n /\ i \in 1..(n + m)
      BY <1>1, <1>3 DEF Places
    <3> QED
      BY <1>4, <1>5, <3>1 DEF Places
  <2>3. n + m \in Places(t)
    BY <1>4, <1>6 DEF Places, Command
  <2> QED
    BY <2>1, <2>2, <2>3
<1>9. IsFiniteSet(Places(lines)) /\ n + m \notin Places(lines)
  <2>1. IsFiniteSet(1..n) /\ Places(lines) \in SUBSET (1..n)
    <3>1. IsFiniteSet(1..n)
      BY <1>3, FS_Interval
    <3> QED
      BY <1>3, <3>1 DEF Places
  <2>2. n + m \notin 1..n
    BY <1>1, <1>3
  <2> QED
    BY <2>1, <2>2, FS_Subset
<1>10. /\ Cardinality(Places(t)) = Cardinality(Places(lines)) + 1
       /\ Cardinality(Places(lines)) \in Nat
  BY <1>8, <1>9, FS_AddElement, FS_CardinalityType
<1> QED
  BY <1>2, <1>4, <1>6, <1>7, <1>10 DEF t, row

-----------------------------------------------------------------------------
(* The invariant is inductive.                                              *)

LEMMA TextLength ==
  ASSUME NEW lines, WellWritten(lines)
  PROVE  Len(lines) \in Nat /\ lines \in Texts(Len(lines)) /\ DOMAIN lines = 1..Len(lines)
  BY LenProperties DEF Texts, WellWritten

LEMMA RowsArePlaces == Rows = Cardinality(Places(text))
  BY DEF Rows, Places

LEMMA InitIInv == Init => IInv
<1> SUFFICES ASSUME Init PROVE IInv
  OBVIOUS
<1> DEFINE y == IF up THEN 0 ELSE 2 * Spacing * MaxRows
<1>1. MaxRows \in Nat \ {0} /\ MaxOdd \in Nat
  BY ModifierConstants
<1>2. y \in Heights /\ (~up => y >= 2 * Spacing * (MaxRows - 1))
  <2>1. 0 = 40 * 0 /\ 2 * 40 * MaxRows = 40 * (2 * MaxRows) /\ 2 * MaxRows \in Nat /\ 0 \in Nat
    BY <1>1
  <2>2. y \in Heights
    BY <2>1 DEF Heights, Spacing
  <2>3. 2 * 40 * MaxRows >= 2 * 40 * (MaxRows - 1)
    BY <1>1
  <2> QED
    BY <2>2, <2>3 DEF Spacing
<1>3. text = Row("travel", y) /\ "travel" \in Leads
  BY DEF Init, Leads
<1> HIDE DEF y
<1>4. IsRow(text, y)
  BY <1>2, <1>3, RowShape
<1>5. WellWritten(text) /\ Len(text) > 0 /\ Last(text) = Command("line", y)
  BY <1>4 DEF IsRow, Last
<1>6. Rows = 1
  <2>1. Places(text) = {Len(text)}
    BY <1>4, TextLength DEF IsRow, Places
  <2> QED
    BY <2>1, RowsArePlaces, FS_Singleton
<1>7. TypeOK
  <2>1. /\ up \in BOOLEAN /\ style \in Leads /\ odd = 0 /\ outcome = "writing"
        /\ group = <<>> /\ nominal = 0 /\ payload = {} /\ output = <<>>
    BY DEF Init
  <2>2. 0 \in 0..MaxOdd /\ 1 \in 1..MaxRows
    BY <1>1
  <2>3. text \in Seq(Commands)
    BY <1>5 DEF WellWritten
  <2> QED
    BY <1>6, <2>1, <2>2, <2>3 DEF TypeOK, Outcomes
<1>8. Written
  <2>1. Last(text).cmd = "line" /\ Last(text).y = y
    BY <1>5 DEF Command
  <2> QED
    BY <1>2, <1>5, <1>6, <2>1 DEF Written
<1>9. outcome = "writing"
  BY DEF Init
<1> QED
  BY <1>7, <1>8, <1>9 DEF IInv, Detected, Modified

LEMMA WriteRowKeeps ==
  ASSUME IInv, NEW steps \in 0..2, NEW lead \in Leads, WriteRow(steps, lead)
  PROVE  IInv'
<1> DEFINE y == Last(text).y + (IF up THEN steps ELSE -steps) * Spacing
<1>1. /\ outcome = "writing" /\ Rows < MaxRows /\ odd' <= MaxOdd
      /\ odd' = odd + (IF steps = 1 /\ lead = style THEN 0 ELSE 1)
      /\ text' = text \o Row(lead, y)
      /\ UNCHANGED <<up, style, outcome, group, nominal, payload, output>>
  BY DEF WriteRow
<1>2. /\ WellWritten(text) /\ Len(text) > 0 /\ Last(text).cmd = "line"
      /\ ~up => Last(text).y >= 2 * Spacing * (MaxRows - Rows)
      /\ TypeOK
  BY DEF IInv, Written
<1>3. MaxRows \in Nat /\ MaxOdd \in Nat /\ Rows \in 1..MaxRows /\ odd \in 0..MaxOdd
      /\ up \in BOOLEAN
  BY <1>2, ModifierConstants DEF TypeOK
<1>4. PICK m \in Nat : Last(text).y = 40 * m
  <2>1. Len(text) \in DOMAIN text /\ Last(text) = text[Len(text)]
    BY <1>2, TextLength DEF Last
  <2>2. Last(text).y \in Heights
    BY <1>2, <2>1 DEF WellWritten
  <2> QED
    BY <2>2, HeightsAreNatural
<1>5. y \in Heights /\ (~up => y >= 2 * Spacing * (MaxRows - (Rows + 1)))
  <2>1. CASE up
    <3>1. y = 40 * (m + steps) /\ m + steps \in Nat
      BY <1>4, <2>1 DEF Spacing
    <3> QED
      BY <2>1, <3>1 DEF Heights, Spacing
  <2>2. CASE ~up
    <3>1. 40 * m >= 80 * (MaxRows - Rows)
      BY <1>2, <1>4, <2>2 DEF Spacing
    <3>2. m >= 2 * (MaxRows - Rows) /\ MaxRows - Rows >= 1
      BY <1>1, <1>3, <3>1
    <3>3. m - steps \in Nat /\ m - steps >= 2 * (MaxRows - (Rows + 1))
      BY <1>3, <3>2
    <3>4. y = 40 * (m - steps)
      BY <1>4, <2>2 DEF Spacing
    <3>5. y \in Heights
      BY <3>3, <3>4 DEF Heights, Spacing
    <3>6. y >= 80 * (MaxRows - (Rows + 1))
      BY <1>3, <3>3, <3>4
    <3> QED
      BY <3>5, <3>6 DEF Spacing
  <2> QED
    BY <2>1, <2>2
<1> HIDE DEF y
<1>6. /\ WellWritten(text') /\ Len(text') > 0 /\ Last(text') = Command("line", y)
      /\ Cardinality(Places(text')) = Cardinality(Places(text)) + 1
  BY <1>1, <1>2, <1>5, RowAppended
<1>7. Rows' = Rows + 1
  BY <1>6, RowsArePlaces DEF Rows, Places
<1>8. TypeOK'
  <2>1. odd' \in 0..MaxOdd
    BY <1>1, <1>3
  <2>2. Rows' \in 1..MaxRows
    BY <1>1, <1>3, <1>7
  <2>3. text' \in Seq(Commands)
    BY <1>6 DEF WellWritten
  <2> QED
    BY <1>1, <1>2, <2>1, <2>2, <2>3 DEF TypeOK
<1>9. Written'
  <2>1. Last(text').cmd = "line" /\ Last(text').y = y
    BY <1>6 DEF Command
  <2> QED
    BY <1>1, <1>5, <1>6, <1>7, <2>1 DEF Written
<1>10. Detected' /\ Modified'
  BY <1>1 DEF Detected, Modified
<1> QED
  BY <1>8, <1>9, <1>10 DEF IInv

LEMMA DetectInfillKeeps ==
  ASSUME IInv, DetectInfill
  PROVE  IInv'
<1>1. /\ outcome' = "detected" /\ Encodable
      /\ group' = SortedLines(text) /\ nominal' = Nominal(text)
      /\ UNCHANGED <<up, style, odd, text, payload, output>>
  BY DEF DetectInfill
<1>2. TypeOK /\ Written /\ WellWritten(text)
  BY DEF IInv, Written
<1>3. group' \in Seq(Moves)
  BY <1>1, <1>2, GroupShape
<1>4. nominal' \in Nat
  BY <1>1, <1>2, NominalWide DEF Encodable
<1>5. Rows' = Rows
  BY <1>1 DEF Rows
<1>6. TypeOK'
  BY <1>1, <1>2, <1>3, <1>4, <1>5 DEF TypeOK, Outcomes
<1>7. Written'
  BY <1>1, <1>2, <1>5 DEF Written
<1>8. Detected' /\ Modified'
  BY <1>1 DEF Detected, Modified, Encodable
<1> QED
  BY <1>6, <1>7, <1>8 DEF IInv

LEMMA SkipLayerKeeps ==
  ASSUME IInv, SkipLayer
  PROVE  IInv'
<1>1. outcome' = "skipped" /\ UNCHANGED <<up, style, odd, text, group, nominal, payload, output>>
  BY DEF SkipLayer
<1>2. Rows' = Rows
  BY <1>1 DEF Rows
<1>3. TypeOK'
  BY <1>1, <1>2 DEF IInv, TypeOK, Outcomes
<1>4. Written'
  BY <1>1, <1>2 DEF IInv, Written
<1>5. Detected' /\ Modified'
  BY <1>1 DEF Detected, Modified
<1> QED
  BY <1>3, <1>4, <1>5 DEF IInv

LEMMA EncodeLayerKeeps ==
  ASSUME IInv, NEW bits \in Payloads, EncodeLayer(bits)
  PROVE  IInv'
<1> DEFINE sequence == SpacingSequence(bits, nominal)
<1>1. /\ outcome = "detected" /\ outcome' = "encoded" /\ payload' = bits
      /\ output' = ModifyLayer(text, group, sequence)
      /\ UNCHANGED <<up, style, odd, text, group, nominal>>
  BY DEF EncodeLayer
<1>2. TypeOK /\ Written /\ WellWritten(text)
  BY DEF IInv, Written
<1>3. Encodable /\ group = SortedLines(text) /\ nominal = Nominal(text)
  BY <1>1 DEF IInv, Detected
<1>4. Given(Len(text), text, group, sequence)
  BY <1>2, <1>3, EncodingGiven DEF Encodable
<1>5. /\ output' \in Texts(Len(text))
      /\ \A p \in 1..Len(text) : output'[p].cmd = text[p].cmd
      /\ \A p \in 1..Len(text) : ~output'[p].ends => ~text[p].ends \/ text[p].y = NoY
  <2> HIDE DEF sequence
  <2> QED
    BY <1>1, <1>4, ModifyKeeps
<1>6. Len(text) \in Nat /\ DOMAIN text = 1..Len(text)
  BY <1>2, TextLength
<1>7. output' \in Seq(Commands) /\ Len(output') = Len(text)
  <2>1. output' \in Seq(Commands) /\ DOMAIN output' = 1..Len(text)
    BY <1>5, <1>6 DEF Texts, Seq
  <2> QED
    BY <1>6, <2>1, LenProperties
<1>8. Rows' = Rows
  BY <1>1 DEF Rows
<1>9. TypeOK'
  <2>1. payload' \in Payloads \cup {{}} /\ outcome' \in Outcomes
    BY <1>1 DEF Outcomes
  <2>2. \A i \in DOMAIN text' :
          output'[i].cmd = text'[i].cmd /\ (~output'[i].ends => text'[i].y = NoY)
    BY <1>1, <1>2, <1>5, <1>6 DEF WellWritten
  <2>3. Len(output') = Len(text')
    BY <1>1, <1>7
  <2> QED
    BY <1>1, <1>2, <1>7, <1>8, <2>1, <2>2, <2>3 DEF TypeOK
<1>10. Written'
  BY <1>1, <1>2, <1>8 DEF Written
<1>11. Detected'
  BY <1>1, <1>3 DEF Detected, Encodable
<1>12. Modified'
  BY <1>1 DEF Modified
<1> QED
  BY <1>9, <1>10, <1>11, <1>12 DEF IInv

LEMMA NextKeepsIInv == IInv /\ [Next]_vars => IInv'
<1> SUFFICES ASSUME IInv, [Next]_vars PROVE IInv'
  OBVIOUS
<1>1. CASE \E steps \in 0..2, lead \in Leads : WriteRow(steps, lead)
  BY <1>1, WriteRowKeeps
<1>2. CASE DetectInfill
  BY <1>2, DetectInfillKeeps
<1>3. CASE SkipLayer
  BY <1>3, SkipLayerKeeps
<1>4. CASE \E bits \in Payloads : EncodeLayer(bits)
  BY <1>4, EncodeLayerKeeps
<1>5. CASE UNCHANGED vars
  BY <1>5 DEF vars, IInv, TypeOK, Written, Detected, Modified, Rows, Encodable
<1> QED
  BY <1>1, <1>2, <1>3, <1>4, <1>5 DEF Next

\* The text is the slicer's and the detected group, the spacing and the output are
\* what detect_infill and modify_layer compute of it, in every reachable state.
THEOREM Invariance == Spec => []IInv
  BY InitIInv, NextKeepsIInv, PTL DEF Spec

\* The types hold in every reachable state; above all, an encoded layer has the
\* commands of the text it was made from, each in its place, and only one that had no
\* Y of its own may run on into the next (modify_layer and _replace_coord).
THEOREM ModifierTypeCorrect == Spec => []TypeOK
<1>1. IInv => TypeOK
  BY DEF IInv
<1> QED
  BY <1>1, Invariance, PTL

-----------------------------------------------------------------------------
(* Lines with travels of their own.                                         *)

NoJoints(lines) == \A i \in DOMAIN lines : lines[i].cmd # "joint"

\* The travel found is the line's own: it stands in the line's row.
LEMMA OwnTravelFound ==
  ASSUME NEW lines, WellWritten(lines), NoJoints(lines), NEW i \in Places(lines)
  PROVE  LET travel == FindPrecedingTravel(lines, i)
         IN  /\ travel \in 1..(i - 1) /\ travel \in DOMAIN lines
             /\ LooksLikeTravel(lines[travel]) /\ lines[travel].cmd # "line"
             /\ \/ travel = i - 1
                \/ travel = i - 2 /\ lines[i - 1] = Command("unretract", NoY)
             /\ \E t \in DOMAIN lines : ReachedBy(lines, i, t) /\ t <= travel
<1> DEFINE travel == FindPrecedingTravel(lines, i)
<1>1. /\ i \in DOMAIN lines /\ lines[i].cmd = "line"
      /\ Len(lines) \in Nat /\ DOMAIN lines = 1..Len(lines) /\ i \in Nat \ {0}
  BY TextLength DEF Places
<1>2. PICK t \in DOMAIN lines : ReachedBy(lines, i, t)
  BY <1>1 DEF WellWritten
<1>3. t \in 1..(i - 1) /\ lines[t].cmd = "travel" /\ LooksLikeTravel(lines[t]) /\ t >= i - MaxBack
  BY <1>1, <1>2 DEF ReachedBy, NoJoints, LooksLikeTravel, MaxBack
<1>4. travel \in 0..(i - 1) /\ (travel # 0 => LooksLikeTravel(lines[travel])) /\ t <= travel
  BY <1>1, <1>3, TravelBefore
<1>5. travel \in 1..(i - 1) /\ travel \in DOMAIN lines /\ LooksLikeTravel(lines[travel])
  BY <1>1, <1>3, <1>4
<1>6. travel = i - 1 \/ (travel = i - 2 /\ lines[i - 1] = Command("unretract", NoY))
  <2>1. CASE t = i - 1
    BY <1>1, <1>4, <2>1
  <2>2. CASE t = i - 2 /\ lines[i - 1] = Command("unretract", NoY)
    <3>1. travel = i - 2 \/ travel = i - 1
      BY <1>1, <1>4, <2>2
    <3> QED
      BY <2>2, <3>1
  <2>3. CASE t = i - 2 /\ lines[i - 1] = Command("feed", NoY)
    <3>1. i - 1 \in 1..(i - 1) /\ i - 1 >= i - MaxBack /\ LooksLikeTravel(lines[i - 1])
      BY <1>1, <1>3, <2>3 DEF LooksLikeTravel, MaxBack, Command
    <3>2. i - 1 <= travel
      BY <1>1, <3>1, TravelBefore
    <3> QED
      BY <1>1, <1>5, <3>2
  <2> QED
    BY <1>2, <2>1, <2>2, <2>3 DEF ReachedBy
<1>7. lines[travel].cmd # "line"
  BY <1>5 DEF LooksLikeTravel
<1> QED
  BY <1>2, <1>4, <1>5, <1>6, <1>7

\* Between a line and the move that reaches it stand no line and no travel found
\* for another line.
LEMMA OwnZone ==
  ASSUME NEW lines, WellWritten(lines), NoJoints(lines), NEW i \in Places(lines),
         NEW t, ReachedBy(lines, i, t), NEW p \in t..(i - 1)
  PROVE  /\ p \in DOMAIN lines /\ lines[p].cmd # "line"
         /\ \A j \in Places(lines) : j # i => FindPrecedingTravel(lines, j) # p
<1>1. /\ i \in DOMAIN lines /\ lines[i].cmd = "line"
      /\ Len(lines) \in Nat /\ DOMAIN lines = 1..Len(lines) /\ i \in Nat \ {0}
  BY TextLength DEF Places
<1>2. /\ t \in 1..(i - 1) /\ lines[t].cmd \in {"travel", "joint"}
      /\ \/ t = i - 1
         \/ t = i - 2 /\ lines[i - 1].cmd \in {"unretract", "feed"}
  BY DEF ReachedBy, Command
<1>3. /\ \A q \in t..(i - 1) : q \in DOMAIN lines /\ (q = t \/ (q = i - 1 /\ t = i - 2))
      /\ p \in Int
  BY <1>1, <1>2
<1>4. \A q \in t..(i - 1) : q \in DOMAIN lines /\ lines[q].cmd # "line"
  BY <1>2, <1>3
<1>5. ASSUME NEW j \in Places(lines), j # i, FindPrecedingTravel(lines, j) = p PROVE FALSE
  <2>1. /\ j \in DOMAIN lines /\ lines[j].cmd = "line" /\ j \in Nat /\ j \notin t..(i - 1)
    BY <1>1, <1>4 DEF Places
  <2>2. /\ p \in 1..(j - 1)
        /\ p = j - 1 \/ (p = j - 2 /\ lines[j - 1] = Command("unretract", NoY))
    BY <1>5, OwnTravelFound
  <2>3. j > i
    BY <1>1, <1>2, <1>5, <2>1, <2>2
  <2>4. p = i - 1 /\ j = i + 1 /\ p = j - 2
    <3>1. p <= i - 1 /\ p \in Int /\ i \in Int /\ j \in Int
      BY <1>1, <1>2, <2>1
    <3>2. p = j - 1 \/ p = j - 2
      BY <2>2
    <3> QED
      BY <2>3, <3>1, <3>2
  <2>5. lines[i] = Command("unretract", NoY)
    <3>1. j - 1 = i /\ p # j - 1
      BY <1>1, <2>4
    <3> QED
      BY <2>2, <3>1
  <2> QED
    BY <1>1, <2>5 DEF Command
<1> QED
  BY <1>4, <1>5

-----------------------------------------------------------------------------
(* What is printed of a modified text.                                      *)

\* A layer that is encoded, and what it is given.
Encoding(lines, moves, sequence) ==
  /\ WellWritten(lines) /\ NoJoints(lines)
  /\ moves = SortedLines(lines) /\ Cardinality(Printed(lines)) >= MinLines
  /\ Given(Len(lines), lines, moves, sequence) /\ NEncode(moves) = PayloadBits + 2

LEMMA MovePlaces ==
  ASSUME NEW lines, NEW moves, NEW sequence, Encoding(lines, moves, sequence)
  PROVE  /\ Len(moves) \in Nat /\ Len(moves) >= PayloadBits + 3 /\ DOMAIN moves = 1..Len(moves)
         /\ PayloadBits \in Nat \ {0}
         /\ \A k \in 1..Len(moves) :
              /\ moves[k].at \in Places(lines) /\ moves[k] = Drawn(lines, moves[k].at)
              /\ moves[k].y1 = lines[moves[k].at].y /\ moves[k].y1 \in Nat
              /\ Middle(moves[k]) = 2 * moves[k].y1
         /\ \A i \in Places(lines) : \E k \in 1..Len(moves) : moves[k].at = i
         /\ \A j, k \in 1..Len(moves) : moves[j].at = moves[k].at => j = k
         /\ \A j, k \in 1..Len(moves) : j <= k => moves[j].y1 <= moves[k].y1
         /\ \A k \in 1..NEncode(moves) : k + 1 \in 1..Len(moves)
<1> DEFINE n == Cardinality(Printed(lines))
<1>1. /\ WellWritten(lines) /\ moves = SortedLines(lines) /\ n >= PayloadBits + 3
      /\ PayloadBits \in Nat \ {0} /\ NEncode(moves) = PayloadBits + 2
  BY ModifierConstants DEF Encoding, MinLines
<1>2. /\ n \in Nat /\ DOMAIN moves = 1..n /\ Len(moves) = n
      /\ \A k \in 1..n : moves[k] \in Printed(lines)
      /\ \A a \in Printed(lines) : \E k \in 1..n : moves[k] = a
      /\ \A j, k \in 1..n : moves[j].at = moves[k].at => j = k
      /\ \A j, k \in 1..n : j <= k => moves[j].y1 <= moves[k].y1
  BY <1>1, GroupShape
<1> HIDE DEF n
<1>3. ASSUME NEW k \in 1..n
      PROVE  /\ moves[k].at \in Places(lines) /\ moves[k] = Drawn(lines, moves[k].at)
             /\ moves[k].y1 = lines[moves[k].at].y /\ moves[k].y1 \in Nat
             /\ Middle(moves[k]) = 2 * moves[k].y1
  <2>1. moves[k] \in Printed(lines)
    BY <1>2
  <2> QED
    BY <1>1, <2>1, PrintedMoves, HeightsAreNatural DEF Places
<1>4. ASSUME NEW i \in Places(lines) PROVE \E k \in 1..n : moves[k].at = i
  <2>1. Drawn(lines, i) \in Printed(lines)
    BY <1>1, PrintedLevel DEF Places
  <2>2. PICK k \in 1..n : moves[k] = Drawn(lines, i)
    BY <1>2, <2>1
  <2> QED
    BY <2>2 DEF Drawn
<1>5. \A k \in 1..NEncode(moves) : k + 1 \in 1..n
  BY <1>1, <1>2
<1> QED
  BY <1>1, <1>2, <1>3, <1>4, <1>5

LEMMA EncodingApart ==
  ASSUME NEW lines, NEW moves, NEW sequence, Encoding(lines, moves, sequence)
  PROVE  Apart(lines, moves)
<1>1. WellWritten(lines) /\ NoJoints(lines)
  BY DEF Encoding
<1>2. ASSUME NEW j \in 1..NEncode(moves)
      PROVE  j + 1 \in 1..Len(moves) /\ moves[j + 1].at \in Places(lines)
  BY MovePlaces
<1>3. ASSUME NEW j \in 1..NEncode(moves), NEW k \in 1..NEncode(moves)
      PROVE  FindPrecedingTravel(lines, moves[j + 1].at) # moves[k + 1].at
  <2>1. lines[FindPrecedingTravel(lines, moves[j + 1].at)].cmd # "line"
    BY <1>1, <1>2, OwnTravelFound
  <2>2. lines[moves[k + 1].at].cmd = "line"
    BY <1>2 DEF Places
  <2> QED
    BY <2>1, <2>2
<1>4. ASSUME NEW j \in 1..NEncode(moves), NEW k \in 1..NEncode(moves), j # k
      PROVE  /\ moves[j + 1].at # moves[k + 1].at
             /\ FindPrecedingTravel(lines, moves[j + 1].at)
                # FindPrecedingTravel(lines, moves[k + 1].at)
  <2> DEFINE a == moves[j + 1].at
             b == moves[k + 1].at
  <2>1. a # b
    <3>1. j + 1 # k + 1
      BY <1>4
    <3> QED
      BY <1>2, <3>1, MovePlaces
  <2>2. a \in Places(lines) /\ b \in Places(lines)
    BY <1>2
  <2> HIDE DEF a, b
  <2>3. PICK t \in DOMAIN lines : ReachedBy(lines, b, t) /\ t <= FindPrecedingTravel(lines, b)
    BY <1>1, <2>2, OwnTravelFound
  <2>4. FindPrecedingTravel(lines, b) \in t..(b - 1)
    <3>1. FindPrecedingTravel(lines, b) \in 1..(b - 1)
      BY <1>1, <2>2, OwnTravelFound
    <3>2. t \in Nat
      BY <1>1, TextLength
    <3> QED
      BY <2>3, <3>1, <3>2
  <2>5. FindPrecedingTravel(lines, a) # FindPrecedingTravel(lines, b)
    BY <1>1, <2>1, <2>2, <2>3, <2>4, OwnZone
  <2> QED
    BY <2>1, <2>5 DEF a, b
<1> QED
  BY <1>3, <1>4 DEF Apart

\* A line that is not to be moved is printed as it was.
LEMMA OtherLine ==
  ASSUME NEW lines, NEW moves, NEW sequence, Encoding(lines, moves, sequence),
         NEW i \in Places(lines), \A k \in 1..NEncode(moves) : moves[k + 1].at # i
  PROVE  LET modified == ModifyLayer(lines, moves, sequence)
         IN  modified[i] = lines[i] /\ NozzleAt(modified, i - 1) = lines[i].y
<1> DEFINE modified == ModifyLayer(lines, moves, sequence)
<1>1. /\ WellWritten(lines) /\ NoJoints(lines) /\ Given(Len(lines), lines, moves, sequence)
  BY DEF Encoding
<1>2. /\ i \in 1..Len(lines) /\ lines[i].cmd = "line" /\ DOMAIN lines = 1..Len(lines)
      /\ Len(lines) \in Nat
  BY <1>1, TextLength DEF Places
<1>3. \A p \in 1..Len(lines) :
        (\A k \in 1..NEncode(moves) :
            p # moves[k + 1].at /\ p # FindPrecedingTravel(lines, moves[k + 1].at))
        => modified[p] = lines[p]
  BY <1>1, ModifyKeeps
<1> HIDE DEF modified
<1>4. \A k \in 1..NEncode(moves) : moves[k + 1].at \in Places(lines)
  BY MovePlaces
<1>5. modified[i] = lines[i]
  <2>1. ASSUME NEW k \in 1..NEncode(moves)
        PROVE  i # moves[k + 1].at /\ i # FindPrecedingTravel(lines, moves[k + 1].at)
    <3>1. lines[FindPrecedingTravel(lines, moves[k + 1].at)].cmd # "line"
      BY <1>1, <1>4, OwnTravelFound
    <3> QED
      BY <1>2, <3>1
  <2> QED
    BY <1>2, <1>3, <2>1
<1>6. PICK t \in DOMAIN lines : ReachedBy(lines, i, t)
  BY <1>1, <1>2 DEF WellWritten
<1>7. ASSUME NEW p \in t..(i - 1) PROVE modified[p] = lines[p]
  <2>1. p \in 1..Len(lines) /\ lines[p].cmd # "line"
    BY <1>1, <1>2, <1>6, OwnZone
  <2>2. ASSUME NEW k \in 1..NEncode(moves)
        PROVE  p # moves[k + 1].at /\ p # FindPrecedingTravel(lines, moves[k + 1].at)
    <3>1. moves[k + 1].at \in Places(lines) /\ moves[k + 1].at # i
      BY <1>4
    <3>2. FindPrecedingTravel(lines, moves[k + 1].at) # p
      BY <1>1, <1>6, <3>1, OwnZone
    <3> QED
      BY <2>1, <3>1, <3>2 DEF Places
  <2> QED
    BY <1>3, <2>1, <2>2
<1>8. /\ t \in 1..(i - 1) /\ lines[t].y = lines[i].y /\ MovesNozzle(lines[t])
      /\ t = i - 1 \/ (t = i - 2 /\ ~MovesNozzle(lines[i - 1]))
  <2>1. lines[i].y # NoY
    BY <1>1, <1>2, HeightsAreNatural DEF WellWritten
  <2> QED
    BY <1>1, <1>6, <2>1 DEF ReachedBy, Command, MovesNozzle, WellWritten
<1>9. modified[t] = lines[t] /\ modified[i - 1] = lines[i - 1]
  <2>1. t \in t..(i - 1) /\ i - 1 \in t..(i - 1)
    BY <1>2, <1>8
  <2> QED
    BY <1>7, <2>1
<1>10. NozzleAt(modified, i - 1) = modified[t].y
  <2>1. /\ i \in Nat /\ t \in 1..(i - 1) /\ MovesNozzle(modified[t])
        /\ t = i - 1 \/ (t = i - 2 /\ ~MovesNozzle(modified[i - 1]))
    BY <1>2, <1>8, <1>9
  <2> QED
    BY <2>1, ReachedFrom
<1> QED
  BY <1>5, <1>8, <1>9, <1>10 DEF modified

\* A line of the pattern is drawn from where the travel found was sent, if that is
\* still a command of its own.
LEMMA MovedLine ==
  ASSUME NEW lines, NEW moves, NEW sequence, Encoding(lines, moves, sequence),
         NEW k \in 1..NEncode(moves),
         \A p \in 1..Len(lines) : ModifyLayer(lines, moves, sequence)[p].ends
  PROVE  LET modified == ModifyLayer(lines, moves, sequence)
             target   == Targets(moves, sequence)[k]
             i        == moves[k + 1].at
         IN  /\ modified[i].y = NewY(moves[k + 1], target, Box(moves))
             /\ NozzleAt(modified, i - 1) = target
<1> DEFINE modified == ModifyLayer(lines, moves, sequence)
           target   == Targets(moves, sequence)[k]
           i        == moves[k + 1].at
           travel   == FindPrecedingTravel(lines, i)
<1>1. /\ WellWritten(lines) /\ NoJoints(lines) /\ Given(Len(lines), lines, moves, sequence)
      /\ Apart(lines, moves)
  BY EncodingApart DEF Encoding
<1>2. \A j \in 1..NEncode(moves) : moves[j + 1].at \in Places(lines)
  BY MovePlaces
<1>3. /\ i \in Places(lines) /\ i \in 1..Len(lines) /\ DOMAIN lines = 1..Len(lines)
      /\ Len(lines) \in Nat
  BY <1>1, <1>2, TextLength DEF Places
<1>4. /\ travel \in 1..(i - 1) /\ travel \in DOMAIN lines
      /\ travel = i - 1 \/ (travel = i - 2 /\ lines[i - 1] = Command("unretract", NoY))
  BY <1>1, <1>3, OwnTravelFound
<1>5. /\ modified[i].y = NewY(moves[k + 1], target, Box(moves))
      /\ travel \in 1..Len(lines) => modified[travel].y = target
  BY <1>1, ModifyPlaces
<1>6. modified[travel].y = target /\ MovesNozzle(modified[travel])
  <2>1. modified[travel].y = target /\ modified[travel].ends
    BY <1>3, <1>4, <1>5
  <2>2. target # NoY
    BY <1>1 DEF Given
  <2> HIDE DEF modified, target, travel
  <2> QED
    BY <2>1, <2>2 DEF MovesNozzle
<1>7. travel = i - 2 /\ lines[i - 1] = Command("unretract", NoY) => ~MovesNozzle(modified[i - 1])
  <2> SUFFICES ASSUME travel = i - 2, lines[i - 1] = Command("unretract", NoY)
               PROVE  modified[i - 1] = lines[i - 1]
    BY DEF Command, MovesNozzle
  <2>1. i - 1 \in 1..Len(lines)
    BY <1>3, <1>4
  <2>2. ASSUME NEW j \in 1..NEncode(moves)
        PROVE  i - 1 # moves[j + 1].at /\ i - 1 # FindPrecedingTravel(lines, moves[j + 1].at)
    <3>1. LooksLikeTravel(lines[FindPrecedingTravel(lines, moves[j + 1].at)])
      BY <1>1, <1>2, OwnTravelFound
    <3>2. ~LooksLikeTravel(lines[i - 1]) /\ lines[i - 1].cmd # "line"
      BY DEF LooksLikeTravel, Command
    <3>3. lines[moves[j + 1].at].cmd = "line"
      BY <1>2 DEF Places
    <3> QED
      BY <3>1, <3>2, <3>3
  <2>3. \A p \in 1..Len(lines) :
          (\A j \in 1..NEncode(moves) :
              p # moves[j + 1].at /\ p # FindPrecedingTravel(lines, moves[j + 1].at))
          => modified[p] = lines[p]
    BY <1>1, ModifyKeeps
  <2> HIDE DEF modified
  <2> QED
    BY <2>1, <2>2, <2>3
<1> HIDE DEF modified, target, travel, i
<1>8. NozzleAt(modified, i - 1) = modified[travel].y
  <2>1. /\ i \in Nat /\ travel \in 1..(i - 1) /\ MovesNozzle(modified[travel])
        /\ travel = i - 1 \/ (travel = i - 2 /\ ~MovesNozzle(modified[i - 1]))
    BY <1>3, <1>4, <1>6, <1>7
  <2> QED
    BY <2>1, ReachedFrom
<1> QED
  BY <1>5, <1>6, <1>8 DEF modified, target, i

-----------------------------------------------------------------------------
(* OthersUnmoved.                                                           *)

LEMMA EncodedLayer ==
  ASSUME IInv, outcome = "encoded", OwnTravels
  PROVE  LET sequence == SpacingSequence(payload, nominal)
         IN  /\ Encoding(text, group, sequence) /\ output = ModifyLayer(text, group, sequence)
             /\ nominal \in Nat /\ nominal >= 40 /\ payload \in SUBSET (1..PayloadBits)
             /\ group[1].y1 \in Nat
             /\ Sums(Targets(group, sequence), group[1].y1, sequence)
             /\ Box(group) \in Boxes /\ Box(group).lo <= group[1].y1
<1> DEFINE sequence == SpacingSequence(payload, nominal)
<1>1. /\ WellWritten(text) /\ Encodable /\ group = SortedLines(text) /\ nominal = Nominal(text)
      /\ payload \in Payloads /\ output = ModifyLayer(text, group, sequence)
  BY DEF IInv, Written, Detected, Modified
<1>2. Cardinality(Printed(text)) >= MinLines /\ Len(Spacings(text)) >= 2
  BY <1>1 DEF Encodable
<1>3. /\ Given(Len(text), text, group, sequence) /\ NEncode(group) = PayloadBits + 2
      /\ Sums(Targets(group, sequence), group[1].y1, sequence)
  BY <1>1, <1>2, EncodingGiven
<1>4. nominal \in Nat /\ nominal >= 40
  BY <1>1, <1>2, NominalWide
<1>5. payload \in SUBSET (1..PayloadBits)
  BY <1>1, ModifierConstants
<1> HIDE DEF sequence
<1>6. Encoding(text, group, sequence)
  BY <1>1, <1>2, <1>3 DEF Encoding, OwnTravels, NoJoints
<1>7. Box(group) \in Boxes /\ Box(group).lo <= group[1].y1
  <2>1. Cardinality(Printed(text)) >= 1
    <3>1. Cardinality(Printed(text)) \in Nat
      BY <1>1, GroupShape
    <3> QED
      BY <1>2, <3>1, ModifierConstants DEF MinLines
  <2> QED
    BY <1>1, <2>1, BoxShape
<1>8. group[1].y1 \in Nat
  <2>1. 1 \in 1..Len(group)
    BY <1>6, MovePlaces
  <2> QED
    BY <1>6, <2>1, MovePlaces
<1> QED
  BY <1>1, <1>3, <1>4, <1>5, <1>6, <1>7, <1>8 DEF sequence

LEMMA OthersStay == IInv => OthersUnmoved
<1> SUFFICES ASSUME IInv, outcome = "encoded", OwnTravels,
                    NEW k \in DOMAIN group, k = 1 \/ k > PayloadBits + 3
             PROVE  group[k] \in Printed(output)
  BY DEF OthersUnmoved
<1> DEFINE sequence == SpacingSequence(payload, nominal)
           i        == group[k].at
<1>1. /\ Encoding(text, group, sequence) /\ output = ModifyLayer(text, group, sequence)
      /\ TypeOK
  BY EncodedLayer DEF IInv
<1> HIDE DEF sequence
<1>2. /\ Len(group) \in Nat /\ DOMAIN group = 1..Len(group) /\ PayloadBits \in Nat
      /\ NEncode(group) = PayloadBits + 2
  BY <1>1, MovePlaces DEF Encoding
<1>3. /\ i \in Places(text) /\ group[k] = Drawn(text, i)
  BY <1>1, <1>2, MovePlaces
<1>4. ASSUME NEW j \in 1..NEncode(group) PROVE group[j + 1].at # i
  <2>1. j + 1 \in 1..Len(group) /\ j + 1 # k
    <3>1. j + 1 \in 1..Len(group)
      BY <1>1, MovePlaces
    <3>2. j + 1 # k
      BY <1>2
    <3> QED
      BY <3>1, <3>2
  <2> QED
    BY <1>1, <1>2, <2>1, MovePlaces
<1> HIDE DEF i
<1>5. output[i] = text[i] /\ NozzleAt(output, i - 1) = text[i].y
  BY <1>1, <1>3, <1>4, OtherLine
<1>6. i \in DOMAIN output /\ output[i].cmd = "line"
  <2>1. Len(output) = Len(text) /\ output \in Seq(Commands) /\ text \in Seq(Commands)
    BY <1>1 DEF TypeOK
  <2>2. DOMAIN output = DOMAIN text
    BY <2>1, LenProperties
  <2> QED
    BY <1>3, <1>5, <2>2 DEF Places
<1> QED
  BY <1>3, <1>5, <1>6 DEF Printed, Drawn

\* With travels of their own, the reference line and the lines beyond the pattern are
\* printed where the slicer put them, whatever the payload and the order of the rows
\* (modify_layer, _replace_coord and _find_preceding_travel): no line's patch, not even
\* one that joins two commands, moves another line.
THEOREM SpecOthersUnmoved == Spec => []OthersUnmoved
  BY Invariance, OthersStay, PTL

-----------------------------------------------------------------------------
(* SpellsPayload.                                                           *)

\* The heights at which the lines of a modified layer are printed, from below.
NewHeights(moves, targets) ==
  [k \in 1..Len(moves) |->
     IF k > 1 /\ k <= NEncode(moves) + 1 THEN targets[k - 1] ELSE moves[k].y1]

LEMMA NewHeightsValues ==
  ASSUME NEW moves, NEW targets, NEW n \in Nat, NEW m \in Nat, Len(moves) = n, NEncode(moves) = m,
         n >= m + 1
  PROVE  LET heights == NewHeights(moves, targets)
         IN  /\ heights = [k \in 1..n |-> heights[k]]
             /\ heights[1] = moves[1].y1
             /\ \A j \in 1..m : j + 1 \in 1..n /\ heights[j + 1] = targets[j]
             /\ \A k \in 1..n : k > m + 1 => heights[k] = moves[k].y1
             /\ \A k \in 1..n : k = 1 \/ k > m + 1 \/ \E j \in 1..m : k = j + 1
<1> DEFINE heights == NewHeights(moves, targets)
<1>1. /\ heights = [k \in 1..n |-> heights[k]]
      /\ \A k \in 1..n : heights[k] = IF k > 1 /\ k <= m + 1 THEN targets[k - 1] ELSE moves[k].y1
  BY DEF NewHeights
<1> HIDE DEF heights
<1>2. heights[1] = moves[1].y1
  BY <1>1, 1 \in 1..n
<1>3. ASSUME NEW j \in 1..m PROVE j + 1 \in 1..n /\ heights[j + 1] = targets[j]
  <2>1. j + 1 \in 1..n /\ j + 1 > 1 /\ j + 1 <= m + 1 /\ (j + 1) - 1 = j
    OBVIOUS
  <2> QED
    BY <1>1, <2>1
<1>4. \A k \in 1..n : k > m + 1 => heights[k] = moves[k].y1
  BY <1>1
<1>5. ASSUME NEW k \in 1..n PROVE k = 1 \/ k > m + 1 \/ \E j \in 1..m : k = j + 1
  <2>1. k = 1 \/ k > m + 1 \/ (k - 1 \in 1..m /\ k = (k - 1) + 1)
    OBVIOUS
  <2> QED
    BY <2>1
<1> QED
  BY <1>1, <1>2, <1>3, <1>4, <1>5 DEF heights

\* What HasRoom and SeparateRows say of the numbers: the new heights increase.
LEMMA NewHeightsIncrease ==
  ASSUME IInv, outcome = "encoded", OwnTravels, SeparateRows, HasRoom
  PROVE  LET targets == Targets(group, SpacingSequence(payload, nominal))
             heights == NewHeights(group, targets)
         IN  /\ heights \in [1..Len(group) -> Int]
             /\ \A i, j \in 1..Len(group) : i < j => heights[i] < heights[j]
<1> DEFINE sequence == SpacingSequence(payload, nominal)
           targets  == Targets(group, sequence)
           heights  == NewHeights(group, targets)
           n        == Len(group)
           m        == PayloadBits + 2
<1>1. /\ Encoding(text, group, sequence) /\ nominal \in Nat /\ nominal >= 40
      /\ Sums(targets, group[1].y1, sequence)
  BY EncodedLayer
<1>2. /\ n \in Nat /\ n >= PayloadBits + 3 /\ PayloadBits \in Nat \ {0} /\ NEncode(group) = m
      /\ targets \in [1..m -> Int]
  <2>1. NEncode(group) = m /\ targets \in [1..NEncode(group) -> Int]
    BY <1>1 DEF Encoding, Given
  <2> QED
    BY <1>1, <2>1, MovePlaces
<1>3. \A i \in 1..m : sequence[i] \in Nat \ {0}
  BY <1>1, SequenceValues
<1>4. \A k \in 1..n : /\ group[k].at \in Places(text) /\ group[k].y1 = text[group[k].at].y
                     /\ group[k].y1 \in Nat /\ Middle(group[k]) = 2 * group[k].y1
  BY <1>1, MovePlaces
<1>5. \A i \in 1..m : targets[i] = (IF i = 1 THEN group[1].y1 ELSE targets[i - 1]) + sequence[i]
  BY <1>1, <1>2 DEF Sums
<1>6. targets[m] \in Int /\ (m + 2 <= n => targets[m] < group[m + 2].y1)
  <2>1. Len(targets) = m /\ Last(targets) = targets[m] /\ targets[m] \in Int
    <3>1. targets \in Seq(Int) /\ DOMAIN targets = 1..m
      BY <1>2 DEF Seq
    <3>2. Len(targets) = m
      <4> HIDE DEF targets, m
      <4>1. m \in Nat
        BY <1>2 DEF m
      <4> QED
        BY <3>1, <4>1, LenProperties
    <3>3. m \in 1..m
      BY <1>2
    <3> HIDE DEF targets, m
    <3> QED
      BY <1>2, <3>2, <3>3 DEF Last
  <2>2. m + 2 <= n => 2 * Last(targets) < Middle(group[m + 2])
    BY <2>1 DEF HasRoom
  <2>3. m + 2 <= n => m + 2 \in 1..n
    BY <1>2
  <2> HIDE DEF targets, n, m
  <2> QED
    BY <1>4, <2>1, <2>2, <2>3
<1>7. \A k \in 1..(n - 1) : group[k].y1 < group[k + 1].y1
  <2> SUFFICES ASSUME NEW k \in 1..(n - 1) PROVE group[k].y1 < group[k + 1].y1
    OBVIOUS
  <2>1. k \in 1..n /\ k + 1 \in 1..n /\ k <= k + 1 /\ k # k + 1
    BY <1>2
  <2>2. group[k].y1 <= group[k + 1].y1 /\ group[k].at # group[k + 1].at
    BY <1>1, <2>1, MovePlaces
  <2>3. text[group[k].at] # text[group[k + 1].at]
    BY <1>4, <2>1, <2>2 DEF SeparateRows, Places
  <2>4. text[group[k].at] \in Commands /\ text[group[k + 1].at] \in Commands
    <3>1. WellWritten(text)
      BY <1>1 DEF Encoding
    <3> QED
      BY <1>4, <2>1, <3>1, TextLength DEF Places, Texts
  <2>5. text[group[k].at].y # text[group[k + 1].at].y
    <3>1. text[group[k].at].ends /\ text[group[k + 1].at].ends
      BY <1>1, <1>4, <2>1 DEF Encoding, WellWritten, Places
    <3> QED
      BY <1>4, <2>1, <2>3, <2>4, <3>1, SameCommand DEF Places
  <2> HIDE DEF n
  <2> QED
    BY <1>4, <2>1, <2>2, <2>5
<1>sizes. n = Len(group) /\ n \in Nat /\ m \in Nat /\ n >= m + 1 /\ NEncode(group) = m
  BY <1>2
<1> HIDE DEF sequence, targets, n
<1>8. /\ heights = [k \in 1..n |-> heights[k]]
      /\ heights[1] = group[1].y1
      /\ \A j \in 1..m : j + 1 \in 1..n /\ heights[j + 1] = targets[j]
      /\ \A k \in 1..n : k > m + 1 => heights[k] = group[k].y1
      /\ \A k \in 1..n : k = 1 \/ k > m + 1 \/ \E j \in 1..m : k = j + 1
  <2> HIDE DEF m
  <2> QED
    BY <1>sizes, NewHeightsValues
<1> HIDE DEF heights
<1>9. heights \in [1..n -> Int]
  <2>1. ASSUME NEW k \in 1..n PROVE heights[k] \in Int
    <3>1. group[k].y1 \in Nat
      BY <1>4
    <3>2. CASE k = 1 \/ k > m + 1
      <4>1. heights[k] = group[k].y1
        BY <1>8, <3>2
      <4> QED
        BY <3>1, <4>1
    <3>3. CASE \E j \in 1..m : k = j + 1
      <4>1. PICK j \in 1..m : k = j + 1
        BY <3>3
      <4>2. targets[j] \in Int /\ heights[j + 1] = targets[j]
        BY <1>2, <1>8
      <4> QED
        BY <4>1, <4>2
    <3> QED
      BY <1>8, <3>2, <3>3
  <2> QED
    BY <1>8, <2>1
<1>10. ASSUME NEW k \in 1..(n - 1) PROVE heights[k] < heights[k + 1]
  <2>1. k \in 1..n /\ k + 1 \in 1..n /\ k \in Nat /\ 1 \in 1..m /\ m \in 1..m /\ m \in Nat
    BY <1>2
  <2> HIDE DEF m
  <2>2. CASE k = 1
    <3>1. heights[1] = group[1].y1 /\ heights[1 + 1] = targets[1]
      BY <1>8, <2>1
    <3>2. targets[1] = group[1].y1 + sequence[1] /\ group[1].y1 \in Nat /\ sequence[1] \in Nat \ {0}
      BY <1>3, <1>4, <1>5, <2>1, <2>2
    <3> QED
      BY <2>2, <3>1, <3>2
  <2>3. CASE \E j \in 1..m : k = j + 1 /\ j # m
    <3>1. PICK j \in 1..m : k = j + 1 /\ j # m
      BY <2>3
    <3>2. k \in 1..m /\ k # 1 /\ k - 1 = j
      BY <2>1, <3>1
    <3>3. heights[k] = targets[j] /\ heights[k + 1] = targets[k]
      BY <1>8, <3>1, <3>2
    <3>4. targets[k] = targets[j] + sequence[k] /\ targets[j] \in Int /\ sequence[k] \in Nat \ {0}
      BY <1>2, <1>3, <1>5, <3>1, <3>2
    <3> QED
      BY <3>3, <3>4
  <2>4. CASE k = m + 1
    <3>1. heights[k] = targets[m]
      BY <1>8, <2>1, <2>4
    <3>2. k + 1 = m + 2 /\ k + 1 > m + 1 /\ m + 2 <= n
      BY <1>2, <2>1, <2>4
    <3>3. heights[k + 1] = group[m + 2].y1
      BY <1>8, <2>1, <3>2
    <3> QED
      BY <1>6, <3>1, <3>2, <3>3
  <2>5. CASE k > m + 1
    <3>1. k + 1 > m + 1
      BY <2>1, <2>5
    <3>2. heights[k] = group[k].y1 /\ heights[k + 1] = group[k + 1].y1
      BY <1>8, <2>1, <2>5, <3>1
    <3> QED
      BY <1>7, <3>2
  <2> QED
    BY <1>8, <2>1, <2>2, <2>3, <2>4, <2>5
<1>11. \A i, j \in 1..n : i < j => heights[i] < heights[j]
  BY <1>2, <1>9, <1>10, StepsIncrease
<1> QED
  BY <1>9, <1>11 DEF heights, targets, sequence, n

\* Every line is printed level, at its new height.
LEMMA PrintedAtNewHeights ==
  ASSUME IInv, outcome = "encoded", OwnTravels, OwnLines, SeparateRows, HasRoom
  PROVE  LET heights == NewHeights(group, Targets(group, SpacingSequence(payload, nominal)))
         IN  \A k \in 1..Len(group) :
               /\ output[group[k].at].y = heights[k]
               /\ NozzleAt(output, group[k].at - 1) = heights[k]
<1> DEFINE sequence == SpacingSequence(payload, nominal)
           targets  == Targets(group, sequence)
           heights  == NewHeights(group, targets)
           box      == Box(group)
           n        == Len(group)
           m        == PayloadBits + 2
<1>1. /\ Encoding(text, group, sequence) /\ output = ModifyLayer(text, group, sequence)
      /\ box \in Boxes /\ box.lo <= group[1].y1
  BY EncodedLayer
<1>2. /\ n \in Nat /\ n >= PayloadBits + 3 /\ PayloadBits \in Nat \ {0} /\ NEncode(group) = m
      /\ targets \in [1..m -> Int]
  <2>1. NEncode(group) = m /\ targets \in [1..NEncode(group) -> Int]
    BY <1>1 DEF Encoding, Given
  <2> QED
    BY <1>1, <2>1, MovePlaces
<1>3. /\ heights \in [1..n -> Int]
      /\ \A i, j \in 1..n : i < j => heights[i] < heights[j]
  BY NewHeightsIncrease
<1>4. \A k \in 1..n : /\ group[k].at \in Places(text) /\ group[k].y1 = text[group[k].at].y
                     /\ group[k].y1 \in Nat /\ Middle(group[k]) = 2 * group[k].y1
  BY <1>1, MovePlaces
<1>5. targets[m] <= box.hi
  <2>1. Last(targets) = targets[m]
    <3>1. targets \in Seq(Int) /\ DOMAIN targets = 1..m
      BY <1>2 DEF Seq
    <3>2. Len(targets) = m
      <4> HIDE DEF targets, m
      <4>1. m \in Nat
        BY <1>2 DEF m
      <4> QED
        BY <3>1, <4>1, LenProperties
    <3> HIDE DEF targets, m
    <3> QED
      BY <3>2 DEF Last
  <2>2. Last(targets) <= box.hi
    BY DEF HasRoom
  <2> QED
    BY <2>1, <2>2
<1>sizes. n = Len(group) /\ n \in Nat /\ m \in Nat /\ n >= m + 1 /\ NEncode(group) = m
  BY <1>2
<1> HIDE DEF sequence, targets, n, box
<1>6. /\ heights[1] = group[1].y1
      /\ \A j \in 1..m : j + 1 \in 1..n /\ heights[j + 1] = targets[j]
      /\ \A k \in 1..n : k > m + 1 => heights[k] = group[k].y1
      /\ \A k \in 1..n : k = 1 \/ k > m + 1 \/ \E j \in 1..m : k = j + 1
  <2> HIDE DEF m
  <2> QED
    BY <1>sizes, NewHeightsValues
<1> HIDE DEF heights
<1>7. ASSUME NEW j \in 1..m
      PROVE  targets[j] \in Nat /\ box.lo <= targets[j] /\ targets[j] <= box.hi
  <2>1. /\ 1 \in 1..n /\ j + 1 \in 1..n /\ m + 1 \in 1..n /\ 1 < j + 1 /\ m \in 1..m
        /\ j = m \/ j + 1 < m + 1
    BY <1>2
  <2> HIDE DEF m
  <2>2. heights[1] = group[1].y1 /\ heights[j + 1] = targets[j] /\ heights[m + 1] = targets[m]
    BY <1>6, <2>1
  <2>3. heights[1] < heights[j + 1] /\ (j = m \/ heights[j + 1] < heights[m + 1])
    BY <1>3, <2>1
  <2>4. group[1].y1 \in Nat /\ targets[j] \in Int /\ targets[m] \in Int
        /\ box.lo \in Int /\ box.hi \in Int
    BY <1>1, <1>2, <1>4, <2>1 DEF Boxes
  <2> QED
    BY <1>1, <1>5, <2>2, <2>3, <2>4
<1>8. ASSUME NEW k \in 1..n
      PROVE  /\ output[group[k].at].y = heights[k]
             /\ NozzleAt(output, group[k].at - 1) = heights[k]
  <2>1. CASE \E j \in 1..m : k = j + 1
    <3>1. PICK j \in 1..m : k = j + 1
      BY <2>1
    <3>2. targets[j] \in Nat /\ box.lo <= targets[j] /\ targets[j] <= box.hi
      BY <1>7
    <3>3. j \in 1..NEncode(group) /\ \A p \in 1..Len(text) : output[p].ends
      <4>1. DOMAIN output = 1..Len(text)
        BY <1>1, ModifyKeeps DEF Encoding, Texts
      <4> QED
        BY <1>2, <4>1 DEF OwnLines
    <3>4. /\ output[group[j + 1].at].y = NewY(group[j + 1], targets[j], box)
          /\ NozzleAt(output, group[j + 1].at - 1) = targets[j]
      BY <1>1, <3>3, MovedLine DEF targets, box
    <3>5. NewY(group[k], targets[j], box) = targets[j]
      <4>1. group[k].y1 + targets[j] - Middle(group[k]) \div 2 = targets[j]
        <5>1. group[k].y1 \in Nat /\ Middle(group[k]) = 2 * group[k].y1
          BY <1>4
        <5> QED
          BY <3>2, <5>1
      <4>2. Clamp(targets[j], box) = targets[j]
        BY <1>1, <3>2, ClampValue
      <4> QED
        BY <4>1, <4>2 DEF NewY
    <3>6. heights[k] = targets[j]
      BY <1>6, <3>1
    <3> QED
      BY <3>1, <3>4, <3>5, <3>6
  <2>2. CASE k = 1 \/ k > m + 1
    <3>1. heights[k] = group[k].y1
      BY <1>6, <2>2
    <3>2. ASSUME NEW j \in 1..NEncode(group) PROVE group[j + 1].at # group[k].at
      <4>1. j + 1 \in 1..n /\ j + 1 # k
        BY <1>2, <2>2
      <4> QED
        BY <1>1, <4>1, MovePlaces DEF n
    <3>3. output[group[k].at] = text[group[k].at]
          /\ NozzleAt(output, group[k].at - 1) = text[group[k].at].y
      BY <1>1, <1>4, <3>2, OtherLine
    <3> QED
      BY <1>4, <3>1, <3>3
  <2> QED
    BY <1>6, <2>1, <2>2
<1> QED
  BY <1>8 DEF heights, targets, sequence, n

\* Numbers that increase, as a set: so many, and each is the one with so many below.
LEMMA IncreasingNth ==
  ASSUME NEW n \in Nat, NEW f \in [1..n -> Int],
         \A i, j \in 1..n : i < j => f[i] < f[j]
  PROVE  LET H == {f[k] : k \in 1..n}
         IN  Cardinality(H) = n /\ \A k \in 1..n : Nth(H, k - 1) = f[k]
<1> DEFINE H == {f[k] : k \in 1..n}
<1>1. \A i, j \in 1..n : (f[i] < f[j] <=> i < j) /\ (f[i] = f[j] => i = j)
  <2> SUFFICES ASSUME NEW i \in 1..n, NEW j \in 1..n
               PROVE  (f[i] < f[j] <=> i < j) /\ (f[i] = f[j] => i = j)
    OBVIOUS
  <2>1. i < j \/ i = j \/ j < i
    OBVIOUS
  <2>2. f[i] \in Int /\ f[j] \in Int
    OBVIOUS
  <2> QED
    BY <2>1, <2>2
<1>2. ASSUME NEW m \in 0..n PROVE Cardinality({f[k] : k \in 1..m}) = m
  <2> DEFINE S == {f[k] : k \in 1..m}
             g == [k \in 1..m |-> f[k]]
  <2>1. /\ g \in [1..m -> S] /\ \A i, j \in 1..m : g[i] = g[j] => i = j
        /\ \A s \in S : \E i \in 1..m : g[i] = s
    <3>1. \A i \in 1..m : i \in 1..n
      OBVIOUS
    <3>2. g \in [1..m -> S] /\ \A i \in 1..m : g[i] = f[i]
      OBVIOUS
    <3>3. \A s \in S : \E i \in 1..m : g[i] = s
      OBVIOUS
    <3> HIDE DEF g, S
    <3> QED
      BY <1>1, <3>1, <3>2, <3>3
  <2> HIDE DEF g, S
  <2>2. g \in Bijection(1..m, S)
    BY <2>1 DEF Bijection, Injection, Surjection, IsInjective
  <2>3. ExistsBijection(1..m, S) /\ m \in Nat
    BY <2>2 DEF ExistsBijection
  <2>4. Cardinality(S) = m
    BY <2>3, FS_CountingElements
  <2> QED
    BY <2>4 DEF S
<1>3. ASSUME NEW k \in 1..n PROVE Cardinality({y \in H : y < f[k]}) = k - 1
  <2>1. {y \in H : y < f[k]} = {f[i] : i \in 1..(k - 1)}
    <3>1. \A i \in 1..n : f[i] < f[k] <=> i \in 1..(k - 1)
      BY <1>1
    <3>2. \A i \in 1..(k - 1) : i \in 1..n
      OBVIOUS
    <3> QED
      BY <3>1, <3>2
  <2>2. k - 1 \in 0..n
    OBVIOUS
  <2> HIDE DEF H
  <2> QED
    BY <1>2, <2>1, <2>2
<1>4. ASSUME NEW k \in 1..n PROVE Nth(H, k - 1) = f[k]
  <2>1. f[k] \in H /\ Cardinality({y \in H : y < f[k]}) = k - 1
    BY <1>3
  <2>2. ASSUME NEW x \in H, Cardinality({y \in H : y < x}) = k - 1 PROVE x = f[k]
    <3>1. PICK j \in 1..n : x = f[j]
      OBVIOUS
    <3>2. j - 1 = k - 1
      <4> HIDE DEF H
      <4> QED
        BY <1>3, <2>2, <3>1
    <3>3. j = k
      BY <3>2
    <3> QED
      BY <3>1, <3>3
  <2> HIDE DEF H
  <2> QED
    BY <2>1, <2>2 DEF Nth
<1>5. Cardinality(H) = n
  <2>1. n \in 0..n
    OBVIOUS
  <2> QED
    BY <1>2, <2>1
<1> QED
  BY <1>4, <1>5

\* What a camera sees of the print: the lines, and nothing else, at their new heights.
LEMMA PrintedHeights ==
  ASSUME IInv, outcome = "encoded", OwnTravels, OwnLines, SeparateRows, HasRoom
  PROVE  LET heights == NewHeights(group, Targets(group, SpacingSequence(payload, nominal)))
         IN  Middles(Printed(output)) = {2 * heights[k] : k \in 1..Len(group)}
<1> DEFINE sequence == SpacingSequence(payload, nominal)
           targets  == Targets(group, sequence)
           heights  == NewHeights(group, targets)
           n        == Len(group)
           line(i)  == [y0 |-> NozzleAt(output, i - 1), y1 |-> output[i].y, at |-> i]
<1>1. Encoding(text, group, sequence)
  BY EncodedLayer
<1>2. /\ \A k \in 1..n : group[k].at \in Places(text)
      /\ \A i \in Places(text) : \E k \in 1..n : group[k].at = i
  BY <1>1, MovePlaces
<1>3. \A k \in 1..n : output[group[k].at].y = heights[k] /\ NozzleAt(output, group[k].at - 1) = heights[k]
  BY PrintedAtNewHeights
<1>4. heights \in [1..n -> Int]
  BY NewHeightsIncrease
<1>5. {j \in DOMAIN output : output[j].cmd = "line"} = Places(text)
  <2>1. /\ text \in Seq(Commands) /\ output \in Seq(Commands) /\ Len(output) = Len(text)
        /\ \A i \in DOMAIN text : output[i].cmd = text[i].cmd
    BY DEF IInv, TypeOK
  <2>2. DOMAIN output = DOMAIN text
    BY <2>1, LenProperties
  <2> QED
    BY <2>1, <2>2 DEF Places
<1>6. Printed(output) = {line(i) : i \in Places(text)}
  BY <1>5 DEF Printed
<1> HIDE DEF heights
<1>7. \A k \in 1..n : Middle(line(group[k].at)) = 2 * heights[k]
  <2> SUFFICES ASSUME NEW k \in 1..n PROVE Middle(line(group[k].at)) = 2 * heights[k]
    OBVIOUS
  <2>1. Middle(line(group[k].at)) = heights[k] + heights[k]
    BY <1>3 DEF Middle
  <2>2. heights[k] \in Int
    BY <1>4
  <2> QED
    BY <2>1, <2>2
<1> HIDE DEF line, n
<1>8. Middles(Printed(output)) = {2 * heights[k] : k \in 1..n}
  <2>1. ASSUME NEW i \in Places(text)
        PROVE  \E k \in 1..n : Middle(line(i)) = 2 * heights[k]
    BY <1>2, <1>7
  <2>2. ASSUME NEW k \in 1..n
        PROVE  \E i \in Places(text) : Middle(line(i)) = 2 * heights[k]
    BY <1>2, <1>7
  <2>3. Middles(Printed(output)) = {Middle(line(i)) : i \in Places(text)}
    BY <1>6 DEF Middles
  <2> QED
    BY <2>1, <2>2, <2>3
<1> QED
  BY <1>8 DEF heights, targets, sequence, n

\* The gaps seen: twice what each line was moved away from the one below.
LEMMA PrintedGaps ==
  ASSUME IInv, outcome = "encoded", OwnTravels, OwnLines, SeparateRows, HasRoom
  PROVE  LET sequence == SpacingSequence(payload, nominal)
             gaps     == Spacings(output)
         IN  /\ Len(gaps) \in Nat /\ Len(gaps) >= PayloadBits + 2
             /\ \A i \in 1..(PayloadBits + 2) : gaps[i] = 2 * sequence[i]
<1> DEFINE sequence == SpacingSequence(payload, nominal)
           targets  == Targets(group, sequence)
           heights  == NewHeights(group, targets)
           gaps     == Spacings(output)
           n        == Len(group)
           m        == PayloadBits + 2
           f        == [k \in 1..n |-> 2 * heights[k]]
<1>1. /\ Encoding(text, group, sequence) /\ nominal \in Nat /\ nominal >= 40
      /\ Sums(targets, group[1].y1, sequence)
  BY EncodedLayer
<1>2. /\ n \in Nat /\ n >= m + 1 /\ m \in Nat /\ NEncode(group) = m /\ n = Len(group)
      /\ targets \in [1..m -> Int] /\ group[1].y1 \in Nat
  <2>1. NEncode(group) = m /\ targets \in [1..NEncode(group) -> Int]
    BY <1>1 DEF Encoding, Given
  <2>2. n \in Nat /\ n >= PayloadBits + 3 /\ PayloadBits \in Nat \ {0}
    BY <1>1, MovePlaces
  <2>3. group[1].y1 \in Nat
    BY EncodedLayer
  <2> QED
    BY <2>1, <2>2, <2>3
<1>3. \A i \in 1..m : sequence[i] \in Nat \ {0}
  BY <1>1, SequenceValues
<1>4. \A i \in 1..m : targets[i] = (IF i = 1 THEN group[1].y1 ELSE targets[i - 1]) + sequence[i]
  BY <1>1, <1>2 DEF Sums
<1>5. heights \in [1..n -> Int] /\ \A i, j \in 1..n : i < j => heights[i] < heights[j]
  BY NewHeightsIncrease
<1>6. Middles(Printed(output)) = {2 * heights[k] : k \in 1..n}
  BY PrintedHeights
<1> HIDE DEF sequence, targets, n
<1>7. heights[1] = group[1].y1 /\ \A j \in 1..m : heights[j + 1] = targets[j]
  <2> HIDE DEF m
  <2> QED
    BY <1>2, NewHeightsValues
<1> HIDE DEF heights, m
<1>8. f \in [1..n -> Int] /\ \A i, j \in 1..n : i < j => f[i] < f[j]
  <2>1. \A k \in 1..n : heights[k] \in Int /\ 2 * heights[k] \in Int /\ f[k] = 2 * heights[k]
    BY <1>5
  <2>2. ASSUME NEW i \in 1..n, NEW j \in 1..n, i < j PROVE f[i] < f[j]
    <3>1. heights[i] < heights[j] /\ heights[i] \in Int /\ heights[j] \in Int
      BY <1>5, <2>1, <2>2
    <3> QED
      BY <2>1, <3>1
  <2> QED
    BY <2>1, <2>2
<1>9. Middles(Printed(output)) = {f[k] : k \in 1..n} /\ \A k \in 1..n : f[k] = 2 * heights[k]
  BY <1>6
<1> HIDE DEF f
<1>10. /\ Cardinality(Middles(Printed(output))) = n
       /\ \A k \in 1..n : Nth(Middles(Printed(output)), k - 1) = f[k]
  <2>1. LET H == {f[k] : k \in 1..n}
        IN  Cardinality(H) = n /\ \A k \in 1..n : Nth(H, k - 1) = f[k]
    BY <1>2, <1>8, IncreasingNth
  <2> QED
    BY <1>9, <2>1
<1>11. gaps = [k \in 1..(n - 1) |->
                 Nth(Middles(Printed(output)), k) - Nth(Middles(Printed(output)), k - 1)]
  BY <1>10 DEF Spacings, Gaps
<1>12. Len(gaps) \in Nat /\ Len(gaps) = n - 1
  <2>1. n - 1 \in Nat
    BY <1>2
  <2>2. ASSUME NEW k \in 1..(n - 1)
        PROVE  Nth(Middles(Printed(output)), k) - Nth(Middles(Printed(output)), k - 1) \in Int
    <3>1. k \in 1..n /\ k + 1 \in 1..n /\ (k + 1) - 1 = k
      BY <1>2
    <3>2. /\ Nth(Middles(Printed(output)), k) = f[k + 1]
          /\ Nth(Middles(Printed(output)), k - 1) = f[k]
      BY <1>10, <3>1
    <3>3. f[k] \in Int /\ f[k + 1] \in Int
      BY <1>8, <3>1
    <3> QED
      BY <3>2, <3>3
  <2>3. gaps \in [1..(n - 1) -> Int]
    BY <1>11, <2>2
  <2>4. gaps \in Seq(Int) /\ DOMAIN gaps = 1..(n - 1)
    BY <2>1, <2>3 DEF Seq
  <2> HIDE DEF gaps
  <2> QED
    BY <2>1, <2>4, LenProperties
<1>13. ASSUME NEW i \in 1..m PROVE gaps[i] = 2 * sequence[i]
  <2>1. i \in 1..n /\ i + 1 \in 1..n /\ i \in 1..(n - 1) /\ (i + 1) - 1 = i
    BY <1>2
  <2>2. gaps[i] = Nth(Middles(Printed(output)), i) - Nth(Middles(Printed(output)), i - 1)
    BY <1>11, <2>1
  <2>3. Nth(Middles(Printed(output)), i) = f[i + 1] /\ Nth(Middles(Printed(output)), i - 1) = f[i]
    BY <1>10, <2>1
  <2>4. gaps[i] = 2 * heights[i + 1] - 2 * heights[i]
    BY <1>9, <2>1, <2>2, <2>3
  <2>5. heights[i] \in Int /\ heights[i + 1] \in Int /\ sequence[i] \in Int
    BY <1>3, <1>5, <2>1
  <2>6. heights[i + 1] = heights[i] + sequence[i]
    <3>1. heights[i + 1] = targets[i]
      BY <1>7
    <3>2. CASE i = 1
      BY <1>4, <1>7, <3>1, <3>2
    <3>3. CASE i # 1
      <4>1. i - 1 \in 1..m /\ (i - 1) + 1 = i
        BY <1>2, <3>3
      <4>2. heights[i] = targets[i - 1]
        BY <1>7, <4>1
      <4> QED
        BY <1>4, <3>1, <3>3, <4>2
    <3> QED
      BY <3>2, <3>3
  <2> QED
    BY <2>4, <2>5, <2>6
<1> QED
  BY <1>2, <1>12, <1>13 DEF gaps, sequence, m

\* Those gaps are a SYNC, the payload's bits and a SYNC, from the first line on.
LEMMA PayloadSpelled == IInv => SpellsPayload
<1> SUFFICES ASSUME IInv, outcome = "encoded", OwnTravels, OwnLines, SeparateRows, HasRoom
             PROVE  Spells(Spacings(output), payload, nominal)
  BY DEF SpellsPayload, Readable
<1> DEFINE sequence == SpacingSequence(payload, nominal)
           gaps     == Spacings(output)
           m        == PayloadBits + 2
<1>1. Len(gaps) \in Nat /\ Len(gaps) >= m /\ \A i \in 1..m : gaps[i] = 2 * sequence[i]
  BY PrintedGaps
<1>2. nominal \in Nat /\ nominal >= 40 /\ payload \in SUBSET (1..PayloadBits)
  BY EncodedLayer
<1>3. /\ \A i \in 1..m : sequence[i] \in Nat \ {0}
      /\ sequence[1] = 2 * nominal /\ sequence[m] = 2 * nominal
      /\ \A b \in 1..PayloadBits : sequence[b + 1] >= nominal <=> b \in payload
  BY <1>2, SequenceValues
<1>4. PayloadBits \in Nat \ {0}
  BY ModifierConstants
<1> HIDE DEF sequence, gaps
<1>5. 1 \in 1..(Len(gaps) - PayloadBits - 1) /\ 1 + PayloadBits + 1 = m
  BY <1>1, <1>4
<1>6. 5 * gaps[1] >= 16 * nominal /\ 5 * gaps[m] >= 16 * nominal
  <2>1. gaps[1] = 4 * nominal /\ gaps[m] = 4 * nominal
    <3>1. 1 \in 1..m /\ m \in 1..m
      BY <1>4
    <3> HIDE DEF m
    <3>2. gaps[1] = 2 * (2 * nominal) /\ gaps[m] = 2 * (2 * nominal)
      BY <1>1, <1>3, <3>1
    <3> QED
      BY <1>2, <3>2
  <2> HIDE DEF m
  <2> QED
    BY <1>2, <2>1
<1>7. ASSUME NEW b \in 1..PayloadBits PROVE gaps[1 + b] >= 2 * nominal <=> b \in payload
  <2>1. 1 + b \in 1..m /\ 1 + b = b + 1
    BY <1>4
  <2>2. gaps[1 + b] = 2 * sequence[b + 1] /\ sequence[b + 1] \in Nat
    BY <1>1, <1>3, <2>1
  <2>3. sequence[b + 1] >= nominal <=> b \in payload
    BY <1>3
  <2> QED
    BY <1>2, <2>2, <2>3
<1>8. payload = {b \in 1..PayloadBits : gaps[1 + b] >= 2 * nominal}
  BY <1>2, <1>7
<1> QED
  BY <1>5, <1>6, <1>8 DEF Spells, gaps

\* With travels of their own, heights of their own, no two commands joined and room
\* for the pattern, the patched lines print the payload between two SYNCs, for every
\* number of bits, payload and layer that the slicer writes (core/gcode_modifier.py:69).
THEOREM SpecSpellsPayload == Spec => []SpellsPayload
  BY Invariance, PayloadSpelled, PTL

=============================================================================
