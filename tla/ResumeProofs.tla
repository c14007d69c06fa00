----------------------------- MODULE ResumeProofs -----------------------------
(***************************************************************************)
(* Proofs about Resume, for any number of layers and of lifts and hops.    *)
(***************************************************************************)
EXTENDS Resume, DataLemmas

-----------------------------------------------------------------------------
(* Lines, one by one.                                                       *)

Lines == {line \in [cmd : Commands, arg : Int] :
            /\ line.cmd \in {"layer", "height"} => line.arg \in Nat
            /\ line.cmd \in PositionModes \cup ExtruderModes => line.arg = 0}
Texts == Seq(Lines)

Machine == [z : Int, relative : BOOLEAN, relativeE : BOOLEAN, e : Int,
            printed : Seq([z : Int, amount : Int])]

\* The firmware after the first i lines, when it was b before them, or new.
AtFrom(b, T, i) == RunFrom(b, SubSeq(T, 1, i))
At(T, i)        == Run(SubSeq(T, 1, i))

LEMMA ExecutedType ==
  \A m \in Machine : \A line \in Lines : Executed(m, line) \in Machine
<1> SUFFICES ASSUME NEW m \in Machine, NEW line \in Lines
             PROVE  Executed(m, line) \in Machine
  OBVIOUS
<1> DEFINE amount == IF m.relativeE THEN line.arg ELSE line.arg - m.e
<1>1. amount \in Int
  BY DEF Machine, Lines
<1>2. Append(m.printed, [z |-> m.z, amount |-> amount]) \in Seq([z : Int, amount : Int])
  BY <1>1 DEF Machine
<1>3. CASE line.cmd = "extrude"
  <2>1. Executed(m, line) =
          [m EXCEPT !.e = m.e + amount,
                    !.printed = Append(m.printed, [z |-> m.z, amount |-> amount])]
    BY <1>3 DEF Executed, PositionModes, ExtruderModes, ZMoves, Machine
  <2> HIDE DEF amount
  <2>2. /\ m.z \in Int /\ m.relative \in BOOLEAN /\ m.relativeE \in BOOLEAN /\ m.e \in Int
        /\ m.e + amount \in Int
    BY <1>1 DEF Machine
  <2>3. Executed(m, line) =
          [z |-> m.z, relative |-> m.relative, relativeE |-> m.relativeE, e |-> m.e + amount,
           printed |-> Append(m.printed, [z |-> m.z, amount |-> amount])]
    BY <2>1 DEF Machine
  <2> QED
    BY <1>2, <2>2, <2>3 DEF Machine
<1>4. CASE line.cmd \in PositionModes \cup ExtruderModes
  BY <1>4 DEF Executed, PositionModes, ExtruderModes, ZMoves, Machine
<1>5. CASE line.cmd = "G92"
  <2>1. line.arg \in Int
    BY DEF Lines
  <2> QED
    BY <1>5, <2>1 DEF Executed, PositionModes, ExtruderModes, ZMoves, Machine
<1>6. CASE line.cmd \in ZMoves
  <2> DEFINE z == IF m.relative THEN m.z + line.arg ELSE line.arg
  <2>1. z \in Int
    BY DEF Lines, Machine
  <2>2. Executed(m, line) = [m EXCEPT !.z = z]
    BY <1>6 DEF Executed, PositionModes, ExtruderModes, ZMoves, Machine
  <2> HIDE DEF z
  <2> QED
    BY <2>1, <2>2 DEF Machine
<1>7. CASE line.cmd \in {"layer", "height"}
  BY <1>7 DEF Executed, PositionModes, ExtruderModes, ZMoves
<1> QED
  BY <1>3, <1>4, <1>5, <1>6, <1>7 DEF Lines, Commands, ZMoves

LEMMA PowerOnType == PowerOn \in Machine
  BY DEF PowerOn, Machine

Execution(T) == [k \in 1..Len(T) |-> [m \in Machine |-> Executed(m, T[k])]]

\* RunFrom goes through the states of the machine, line by line.
LEMMA RunTrace ==
  ASSUME NEW b \in Machine, NEW T \in Texts
  PROVE  \E t : IsTrace(t, Len(T), Machine, b, Execution(T)) /\ RunFrom(b, T) = t[Len(T)]
<1> DEFINE n == Len(T)
           Iter(it) == [s \in SUBSET (1..n) |->
                          IF s = {} THEN b
                          ELSE Executed(it[s \ {Max(s)}], T[Max(s)])]
           it == CHOOSE f : f = Iter(f)
<1>1. n \in Nat /\ DOMAIN T = 1..n /\ \A k \in 1..n : T[k] \in Lines
  BY DEF Texts
<1>2. Execution(T) \in [1..n -> [Machine -> Machine]]
  BY <1>1, ExecutedType DEF Execution
<1>3. \A s \in SUBSET (1..n) : s # {} => Max(s) \in 1..n
  BY <1>1, MaxIsGreatest, \A s \in SUBSET (1..n) : s \in SUBSET (0..n)
<1>4. PICK f : Iterates(f, n, Machine, b, Execution(T))
  BY <1>1, <1>2, FoldExists
<1>5. f = Iter(f)
  <2>1. \A s \in SUBSET (1..n) : f[s] = Iter(f)[s]
    BY <1>3, <1>4 DEF Iterates, Execution
  <2>2. f \in [SUBSET (1..n) -> Machine] /\ Iter(f) = [s \in SUBSET (1..n) |-> Iter(f)[s]]
    BY <1>4 DEF Iterates
  <2> HIDE DEF Iter
  <2> QED
    BY <2>1, <2>2
<1>6. it = Iter(it)
  <2> HIDE DEF Iter
  <2> QED
    BY <1>5
<1>7. RunFrom(b, T) = it[1..n]
  BY <1>1 DEF RunFrom, FoldLeft, MapThenFoldSet
<1>8. Folds(it, n, Machine, b, Execution(T))
  <2>1. \A s \in SUBSET (1..n) :
          it[s] = IF s = {} THEN b ELSE Executed(it[s \ {Max(s)}], T[Max(s)])
    BY <1>6
  <2> HIDE DEF it
  <2>2. {} \in SUBSET (1..n)
    OBVIOUS
  <2>3. it[{}] = b
    BY <2>1, <2>2
  <2>4. ASSUME NEW s \in SUBSET (1..n), s # {}, it[s \ {Max(s)}] \in Machine
        PROVE  it[s] = Execution(T)[Max(s)][it[s \ {Max(s)}]]
    <3>1. it[s] = Executed(it[s \ {Max(s)}], T[Max(s)])
      BY <2>1, <2>4
    <3>2. Max(s) \in 1..n
      BY <1>3, <2>4
    <3> QED
      BY <2>4, <3>1, <3>2 DEF Execution
  <2> QED
    BY <2>3, <2>4 DEF Folds
<1> HIDE DEF it, n
<1>9. \E t : IsTrace(t, n, Machine, b, Execution(T)) /\ it[1..n] = t[n]
  <2>1. n \in Nat
    BY <1>1
  <2> QED
    BY <1>2, <1>8, <2>1, FoldTrace
<1> QED
  BY <1>7, <1>9 DEF n

\* So its states are told by the line and the state before it.
LEMMA RunStepsFrom ==
  ASSUME NEW b \in Machine, NEW T \in Texts
  PROVE  /\ AtFrom(b, T, 0) = b /\ AtFrom(b, T, Len(T)) = RunFrom(b, T)
         /\ \A i \in 0..Len(T) : AtFrom(b, T, i) \in Machine
         /\ \A i \in 1..Len(T) : AtFrom(b, T, i) = Executed(AtFrom(b, T, i - 1), T[i])
<1> DEFINE n == Len(T)
<1>1. n \in Nat
  BY DEF Texts
<1>2. PICK t : IsTrace(t, n, Machine, b, Execution(T)) /\ RunFrom(b, T) = t[n]
  BY RunTrace
<1>3. ASSUME NEW i \in 0..n PROVE AtFrom(b, T, i) = t[i]
  <2> DEFINE U == SubSeq(T, 1, i)
  <2>1. U \in Texts /\ Len(U) = i /\ \A k \in 1..i : U[k] = T[k]
    BY <1>1 DEF Texts
  <2>2. PICK u : IsTrace(u, i, Machine, b, Execution(U)) /\ RunFrom(b, U) = u[i]
    BY <2>1, RunTrace
  <2>3. \A k \in 1..i : \A m \in Machine : Execution(U)[k][m] = Execution(T)[k][m]
    <3> HIDE DEF U
    <3> QED
      BY <1>1, <2>1 DEF Execution
  <2>4. u[i] = t[i]
    <3> HIDE DEF U, n
    <3>1. i \in Nat /\ i <= n /\ i <= i
      BY <1>1
    <3> QED
      BY <1>1, <1>2, <2>2, <2>3, <3>1, TracesAgree
  <2> QED
    BY <2>2, <2>4 DEF AtFrom
<1>4. \A i \in 1..n : i - 1 \in 0..n /\ i \in 0..n
  BY <1>1
<1>5. /\ t[0] = b /\ \A i \in 0..n : t[i] \in Machine
      /\ \A i \in 1..n : t[i] = Executed(t[i - 1], T[i])
  BY <1>2, <1>4 DEF IsTrace, Execution
<1>6. 0 \in 0..n /\ n \in 0..n
  BY <1>1
<1> QED
  BY <1>2, <1>3, <1>4, <1>5, <1>6

LEMMA RunSteps ==
  ASSUME NEW T \in Texts
  PROVE  /\ At(T, 0) = PowerOn /\ At(T, Len(T)) = Run(T)
         /\ \A i \in 0..Len(T) : At(T, i) \in Machine
         /\ \A i \in 1..Len(T) : At(T, i) = Executed(At(T, i - 1), T[i])
<1>1. Run(T) = RunFrom(PowerOn, T) /\ \A i : At(T, i) = AtFrom(PowerOn, T, i)
  BY DEF Run, At, AtFrom
<1> QED
  BY <1>1, PowerOnType, RunStepsFrom

\* Texts that are alike up to a line have the same prefix there.
LEMMA PrefixEqual ==
  ASSUME NEW T \in Texts, NEW U \in Texts, NEW i \in Nat, i <= Len(T), i <= Len(U),
         \A k \in 1..i : T[k] = U[k]
  PROVE  SubSeq(T, 1, i) = SubSeq(U, 1, i)
<1> DEFINE s == SubSeq(T, 1, i)
           t == SubSeq(U, 1, i)
<1>1. s \in Seq(Lines) /\ t \in Seq(Lines) /\ Len(s) = i /\ Len(t) = i
      /\ \A k \in 1..i : s[k] = T[k] /\ t[k] = U[k]
  BY DEF Texts
<1> HIDE DEF s, t
<1>2. s = t
  BY <1>1, SeqEqual
<1> QED
  BY <1>2 DEF s, t

\* A text with one line more.
LEMMA TextAppended ==
  ASSUME NEW T \in Texts, NEW line \in Lines
  PROVE  /\ Append(T, line) \in Texts /\ Len(Append(T, line)) = Len(T) + 1
         /\ Append(T, line)[Len(T) + 1] = line
         /\ \A i \in 1..Len(T) : Append(T, line)[i] = T[i]
  BY AppendProperties DEF Texts

\* Texts that begin alike run alike.
LEMMA RunPrefix ==
  ASSUME NEW T \in Texts, NEW U \in Texts, NEW n \in Nat, n <= Len(T), n <= Len(U),
         \A i \in 1..n : T[i] = U[i]
  PROVE  \A i \in 0..n : At(T, i) = At(U, i)
<1> SUFFICES ASSUME NEW i \in 0..n PROVE SubSeq(T, 1, i) = SubSeq(U, 1, i)
  BY DEF At
<1> QED
  BY PrefixEqual

-----------------------------------------------------------------------------
(* The parser, line by line.                                                *)

LayerRow == [idx : Nat, z : Nat, at : Nat, extrudes : BOOLEAN]
Parser   == [layers : Seq(LayerRow), next : Nat, z : Nat, relative : BOOLEAN]

ParsedLines(T, c) ==
  FoldLeft(LAMBDA p, i : ParsedLine(p, c, i, T[i]), ParserStart, [i \in DOMAIN T |-> i])

\* The parser after the first i lines of a text with or without comments.
ParsedAt(T, c, i) == ParsedLines(SubSeq(T, 1, i), c)

LEMMA RaisedType ==
  \A p \in Parser : \A c \in BOOLEAN : \A i \in Nat : \A z \in Int :
    Raised(p, c, i, z) \in Parser
<1> SUFFICES ASSUME NEW p \in Parser, NEW c \in BOOLEAN, NEW i \in Nat, NEW z \in Int, ~(z <= p.z)
             PROVE  Raised(p, c, i, z) \in Parser
  BY DEF Raised
<1>1. z \in Nat /\ Record(p.next, z, i) \in LayerRow
  BY DEF Parser, Record, LayerRow
<1>2. CASE ~c
  <2>1. Raised(p, c, i, z) =
          [p EXCEPT !.layers = Append(p.layers, Record(p.next, z, i)),
                    !.next = p.next + 1, !.z = z]
    BY <1>2 DEF Raised, Parser
  <2>2. p.next + 1 \in Nat /\ Append(p.layers, Record(p.next, z, i)) \in Seq(LayerRow)
    BY <1>1 DEF Parser
  <2> QED
    BY <1>1, <2>1, <2>2 DEF Parser
<1>3. CASE c /\ p.layers # <<>> /\ ~Last(p.layers).extrudes
  <2> DEFINE layers == [p.layers EXCEPT ![Len(p.layers)].z = z]
  <2>1. layers \in Seq(LayerRow)
    <3>1. Len(p.layers) \in DOMAIN p.layers /\ p.layers \in Seq(LayerRow)
      BY <1>3 DEF Parser
    <3>2. [p.layers[Len(p.layers)] EXCEPT !.z = z] \in LayerRow
      <4>1. p.layers[Len(p.layers)] \in LayerRow
        BY <3>1
      <4> QED
        BY <1>1, <4>1 DEF LayerRow
    <3>3. layers = [p.layers EXCEPT ![Len(p.layers)] = [p.layers[Len(p.layers)] EXCEPT !.z = z]]
      OBVIOUS
    <3> QED
      BY <3>1, <3>2, <3>3
  <2>2. Raised(p, c, i, z) = [p EXCEPT !.layers = layers, !.z = z]
    BY <1>3 DEF Raised, Parser
  <2> HIDE DEF layers
  <2> QED
    BY <1>1, <2>1, <2>2 DEF Parser
<1>4. CASE c /\ ~(p.layers # <<>> /\ ~Last(p.layers).extrudes)
  BY <1>1, <1>4 DEF Raised, Parser
<1> QED
  BY <1>2, <1>3, <1>4

LEMMA ParsedLineType ==
  \A p \in Parser : \A c \in BOOLEAN : \A i \in Nat : \A line \in Lines :
    ParsedLine(p, c, i, line) \in Parser
<1> SUFFICES ASSUME NEW p \in Parser, NEW c \in BOOLEAN, NEW i \in Nat, NEW line \in Lines
             PROVE  ParsedLine(p, c, i, line) \in Parser
  OBVIOUS
<1>1. CASE line.cmd \in {"layer", "height"}
  <2>1. line.arg \in Nat
    BY <1>1 DEF Lines
  <2>2. Record(line.arg, p.z, i) \in LayerRow /\ Record(p.next, line.arg, i) \in LayerRow
    BY <2>1 DEF Record, LayerRow, Parser
  <2>3. \A row \in LayerRow : Append(p.layers, row) \in Seq(LayerRow)
    BY DEF Parser
  <2>4. CASE line.cmd = "layer"
    <3>1. ParsedLine(p, c, i, line) =
            [layers |-> Append(p.layers, Record(line.arg, p.z, i)), next |-> line.arg + 1,
             z |-> p.z, relative |-> p.relative]
      BY <2>4 DEF ParsedLine, Parser, PositionModes
    <3>2. p.z \in Nat /\ p.relative \in BOOLEAN /\ line.arg + 1 \in Nat
      BY <2>1 DEF Parser
    <3> QED
      BY <2>1, <2>2, <2>3, <3>1, <3>2 DEF Parser
  <2>5. CASE line.cmd = "height"
    <3>1. ParsedLine(p, c, i, line) =
            [layers |-> Append(p.layers, Record(p.next, line.arg, i)), next |-> p.next + 1,
             z |-> line.arg, relative |-> p.relative]
      BY <2>5 DEF ParsedLine, Parser, PositionModes
    <3>2. p.next + 1 \in Nat /\ p.relative \in BOOLEAN
      BY DEF Parser
    <3> QED
      BY <2>1, <2>2, <2>3, <3>1, <3>2 DEF Parser
  <2> QED
    BY <1>1, <2>4, <2>5
<1>2. CASE line.cmd \in PositionModes
  BY <1>2 DEF ParsedLine, Parser, PositionModes
<1>3. CASE line.cmd = "z"
  <2> DEFINE z == IF p.relative THEN p.z + line.arg ELSE line.arg
  <2>1. z \in Int
    <3>1. line.arg \in Int /\ p.z \in Int
      BY DEF Lines, Parser
    <3> QED
      BY <3>1
  <2>2. ParsedLine(p, c, i, line) = Raised(p, c, i, z)
    BY <1>3 DEF ParsedLine, PositionModes
  <2> HIDE DEF z
  <2>3. Raised(p, c, i, z) \in Parser
    BY <2>1, RaisedType
  <2> QED
    BY <2>2, <2>3
<1>4. CASE line.cmd = "extrude" /\ p.layers # <<>>
  <2> DEFINE layers == [p.layers EXCEPT ![Len(p.layers)].extrudes = TRUE]
  <2>1. layers \in Seq(LayerRow)
    <3>1. Len(p.layers) \in DOMAIN p.layers /\ p.layers \in Seq(LayerRow)
      BY <1>4 DEF Parser
    <3>2. [p.layers[Len(p.layers)] EXCEPT !.extrudes = TRUE] \in LayerRow
      <4>1. p.layers[Len(p.layers)] \in LayerRow
        BY <3>1
      <4> QED
        BY <4>1 DEF LayerRow
    <3>3. layers = [p.layers EXCEPT ![Len(p.layers)] =
                      [p.layers[Len(p.layers)] EXCEPT !.extrudes = TRUE]]
      OBVIOUS
    <3> QED
      BY <3>1, <3>2, <3>3
  <2>2. ParsedLine(p, c, i, line) = [p EXCEPT !.layers = layers]
    BY <1>4 DEF ParsedLine, PositionModes, Parser
  <2> HIDE DEF layers
  <2> QED
    BY <2>1, <2>2 DEF Parser
<1>5. CASE /\ line.cmd \notin {"layer", "height", "z"} \cup PositionModes
           /\ ~(line.cmd = "extrude" /\ p.layers # <<>>)
  BY <1>5 DEF ParsedLine
<1> QED
  BY <1>1, <1>2, <1>3, <1>4, <1>5

LEMMA ParserStartType == ParserStart \in Parser
  BY DEF ParserStart, Parser

Parsing(T, c) == [k \in 1..Len(T) |-> [p \in Parser |-> ParsedLine(p, c, k, T[k])]]

LEMMA ParseTrace ==
  ASSUME NEW T \in Texts, NEW c \in BOOLEAN
  PROVE  \E t : IsTrace(t, Len(T), Parser, ParserStart, Parsing(T, c))
                /\ ParsedLines(T, c) = t[Len(T)]
<1> DEFINE n == Len(T)
           Iter(it) == [s \in SUBSET (1..n) |->
                          IF s = {} THEN ParserStart
                          ELSE ParsedLine(it[s \ {Max(s)}], c, [i \in 1..n |-> i][Max(s)],
                                          T[[i \in 1..n |-> i][Max(s)]])]
           it == CHOOSE f : f = Iter(f)
<1>1. n \in Nat /\ DOMAIN T = 1..n /\ \A k \in 1..n : T[k] \in Lines /\ k \in Nat
  BY DEF Texts
<1>2. Parsing(T, c) \in [1..n -> [Parser -> Parser]]
  BY <1>1, ParsedLineType DEF Parsing
<1>3. \A s \in SUBSET (1..n) : s # {} => Max(s) \in 1..n
  BY <1>1, MaxIsGreatest, \A s \in SUBSET (1..n) : s \in SUBSET (0..n)
<1>4. PICK f : Iterates(f, n, Parser, ParserStart, Parsing(T, c))
  BY <1>1, <1>2, ParserStartType, FoldExists
<1>5. f = Iter(f)
  <2>1. \A s \in SUBSET (1..n) : f[s] = Iter(f)[s]
    BY <1>3, <1>4 DEF Iterates, Parsing
  <2>2. f \in [SUBSET (1..n) -> Parser] /\ Iter(f) = [s \in SUBSET (1..n) |-> Iter(f)[s]]
    BY <1>4 DEF Iterates
  <2> HIDE DEF Iter
  <2> QED
    BY <2>1, <2>2
<1>6. it = Iter(it)
  <2> HIDE DEF Iter
  <2> QED
    BY <1>5
<1>7. ParsedLines(T, c) = it[1..n]
  BY <1>1 DEF ParsedLines, FoldLeft, MapThenFoldSet
<1>8. Folds(it, n, Parser, ParserStart, Parsing(T, c))
  <2> HIDE DEF it
  <2> QED
    BY <1>3, <1>6 DEF Folds, Parsing
<1> HIDE DEF it, n
<1>9. \E t : IsTrace(t, n, Parser, ParserStart, Parsing(T, c)) /\ it[1..n] = t[n]
  BY <1>1, <1>2, <1>8, ParserStartType, FoldTrace
<1> QED
  BY <1>7, <1>9 DEF n

\* The parser's states are told by the line and the state before it.
LEMMA ParseSteps ==
  ASSUME NEW T \in Texts, NEW c \in BOOLEAN
  PROVE  /\ ParsedAt(T, c, 0) = ParserStart
         /\ c = HasLayerComments(T) => ParseGcode(T) = ParsedAt(T, c, Len(T)).layers
         /\ \A i \in 0..Len(T) : ParsedAt(T, c, i) \in Parser
         /\ \A i \in 1..Len(T) :
              ParsedAt(T, c, i) = ParsedLine(ParsedAt(T, c, i - 1), c, i, T[i])
<1> DEFINE n == Len(T)
<1>1. n \in Nat
  BY DEF Texts
<1>2. PICK t : IsTrace(t, n, Parser, ParserStart, Parsing(T, c)) /\ ParsedLines(T, c) = t[n]
  BY ParseTrace
<1>3. ASSUME NEW i \in 0..n PROVE ParsedAt(T, c, i) = t[i]
  <2> DEFINE U == SubSeq(T, 1, i)
  <2>1. U \in Texts /\ Len(U) = i /\ \A k \in 1..i : U[k] = T[k]
    BY <1>1 DEF Texts
  <2>2. PICK u : IsTrace(u, i, Parser, ParserStart, Parsing(U, c)) /\ ParsedLines(U, c) = u[i]
    BY <2>1, ParseTrace
  <2>3. \A k \in 1..i : \A p \in Parser : Parsing(U, c)[k][p] = Parsing(T, c)[k][p]
    <3> HIDE DEF U
    <3> QED
      BY <1>1, <2>1 DEF Parsing
  <2>4. u[i] = t[i]
    <3> HIDE DEF U, n
    <3>1. i \in Nat /\ i <= n /\ i <= i
      BY <1>1
    <3> QED
      BY <1>1, <1>2, <2>2, <2>3, <3>1, TracesAgree
  <2> QED
    BY <2>2, <2>4 DEF ParsedAt
<1>4. \A i \in 1..n : i - 1 \in 0..n /\ i \in 0..n
  BY <1>1
<1>5. /\ t[0] = ParserStart /\ \A i \in 0..n : t[i] \in Parser
      /\ \A i \in 1..n : t[i] = ParsedLine(t[i - 1], c, i, T[i])
  BY <1>2, <1>4 DEF IsTrace, Parsing
<1>6. 0 \in 0..n /\ n \in 0..n
  BY <1>1
<1>7. c = HasLayerComments(T) => ParseGcode(T) = ParsedLines(T, c).layers
  BY DEF ParseGcode, ParsedLines
<1> QED
  BY <1>2, <1>3, <1>4, <1>5, <1>6, <1>7

\* Texts that begin alike are parsed alike.
LEMMA ParsePrefix ==
  ASSUME NEW T \in Texts, NEW U \in Texts, NEW n \in Nat, n <= Len(T), n <= Len(U),
         \A i \in 1..n : T[i] = U[i]
  PROVE  \A i \in 0..n : \A c : ParsedAt(T, c, i) = ParsedAt(U, c, i)
<1> SUFFICES ASSUME NEW i \in 0..n PROVE SubSeq(T, 1, i) = SubSeq(U, 1, i)
  BY DEF ParsedAt
<1> QED
  BY PrefixEqual

-----------------------------------------------------------------------------
(* What the slicer appends.                                                 *)

LEMMA LineInLines ==
  /\ \A m \in PositionModes \cup ExtruderModes : Mode(m) \in Lines
  /\ \A cmd \in ZMoves \cup {"extrude", "G92"} : \A arg \in Int : Line(cmd, arg) \in Lines
  /\ \A cmd \in {"layer", "height"} : \A arg \in Nat : Line(cmd, arg) \in Lines
  BY DEF Mode, Line, Lines, Commands, PositionModes, ExtruderModes, ZMoves

LEMMA HeightIsNat == \A n \in Nat : Height(n) \in Nat /\ Height(n) > 0
  BY DEF Height

\* The new text T: the old one, then the block.
Extends(T, old, block) ==
  /\ T \in Texts /\ Len(T) = Len(old) + Len(block)
  /\ \A i \in 1..Len(old) : T[i] = old[i]
  /\ \A i \in 1..Len(block) : T[Len(old) + i] = block[i]

LEMMA ConcatExtends ==
  \A old, block \in Texts : Extends(old \o block, old, block)
  BY ConcatType, ConcatLen, ConcatLeft, ConcatRight DEF Extends, Texts

\* An extrude command ends what WriteLayer and WriteHop write.
LEMMA ExtrudeAppends ==
  ASSUME NEW T \in Texts
  PROVE  \E line \in Lines : line.cmd = "extrude" /\ Extrude(T) = Append(T, line)
<1>1. Run(T) \in Machine
  <2>1. Len(T) \in 0..Len(T)
    BY DEF Texts
  <2> QED
    BY <2>1, RunSteps
<1> DEFINE line == Line("extrude", IF Run(T).relativeE THEN 1 ELSE Run(T).e + 1)
<1>2. line \in Lines /\ line.cmd = "extrude"
  <2>1. (IF Run(T).relativeE THEN 1 ELSE Run(T).e + 1) \in Int
    BY <1>1 DEF Machine
  <2> QED
    BY <2>1, LineInLines DEF Line
<1> QED
  BY <1>2 DEF Extrude

LEMMA CommentType ==
  ASSUME style \in Styles, layer \in Nat
  PROVE  /\ Comment(layer) \in Texts
         /\ Len(Comment(layer)) = IF style = "plain" THEN 0 ELSE IF style = "both" THEN 2 ELSE 1
         /\ style \in {"numbers", "both"} => Comment(layer)[1] = Line("layer", layer)
         /\ style = "heights" => Comment(layer)[1] = Line("height", Height(layer))
         /\ style = "both" => Comment(layer)[2] = Line("height", Height(layer))
<1>1. Line("layer", layer) \in Lines /\ Line("height", Height(layer)) \in Lines
  BY LineInLines, HeightIsNat
<1>2. /\ style = "numbers" => Comment(layer) = <<Line("layer", layer)>>
      /\ style = "heights" => Comment(layer) = <<Line("height", Height(layer))>>
      /\ style = "both" => Comment(layer) = <<Line("layer", layer), Line("height", Height(layer))>>
      /\ style = "plain" => Comment(layer) = <<>>
  BY DEF Comment
<1> DEFINE a == Line("layer", layer)
           b == Line("height", Height(layer))
<1> HIDE DEF a, b
<1>3. a \in Lines /\ b \in Lines
  BY <1>1 DEF a, b
<1>4. CASE style = "numbers"
  <2>1. Comment(layer) = <<a>>
    BY <1>2, <1>4 DEF a
  <2> QED
    BY <1>3, <1>4, <2>1 DEF Texts, a
<1>5. CASE style = "heights"
  <2>1. Comment(layer) = <<b>>
    BY <1>2, <1>5 DEF b
  <2> QED
    BY <1>3, <1>5, <2>1 DEF Texts, b
<1>6. CASE style = "both"
  <2>1. Comment(layer) = <<a, b>>
    BY <1>2, <1>6 DEF a, b
  <2> QED
    BY <1>3, <1>6, <2>1 DEF Texts, a, b
<1>7. CASE style = "plain"
  BY <1>2, <1>7 DEF Texts
<1> QED
  BY <1>4, <1>5, <1>6, <1>7 DEF Styles

LEMMA DetourType ==
  ASSUME NEW hop \in Hops, NEW z \in Nat
  PROVE  LET D == Detour(hop, z)
         IN  /\ D \in Texts
             /\ Len(D) = IF hop = "none" THEN 0 ELSE IF hop = "absolute" THEN 1 ELSE 3
             /\ hop = "absolute" => D[1] = Line("z", z + 3)
             /\ hop = "relative" => D[1] = Mode("G91") /\ D[2] = Line("z", 3) /\ D[3] = Mode("G90")
<1> DEFINE a == Line("z", z + 3)
           g == Mode("G91")
           u == Line("z", 3)
           k == Mode("G90")
<1>1. a \in Lines /\ g \in Lines /\ u \in Lines /\ k \in Lines
  BY LineInLines DEF PositionModes, ZMoves
<1>2. /\ hop = "absolute" => Detour(hop, z) = <<a>>
      /\ hop = "relative" => Detour(hop, z) = <<g, u, k>>
      /\ hop = "none" => Detour(hop, z) = <<>>
  BY DEF Detour
<1> HIDE DEF a, g, u, k
<1>3. CASE hop = "absolute"
  <2>1. <<a>> \in Seq(Lines) /\ Len(<<a>>) = 1 /\ <<a>>[1] = a
    BY <1>1
  <2> QED
    BY <1>2, <1>3, <2>1 DEF Texts, a
<1>4. CASE hop = "relative"
  <2>1. /\ <<g, u, k>> \in Seq(Lines) /\ Len(<<g, u, k>>) = 3
        /\ <<g, u, k>>[1] = g /\ <<g, u, k>>[2] = u /\ <<g, u, k>>[3] = k
    BY <1>1
  <2> QED
    BY <1>2, <1>4, <2>1 DEF Texts, g, u, k
<1>5. CASE hop = "none"
  <2>1. Detour(hop, z) = <<>>
    BY <1>2, <1>5
  <2>2. <<>> \in Texts /\ Len(<<>>) = 0
    BY DEF Texts
  <2>3. Detour(hop, z) \in Texts /\ Len(Detour(hop, z)) = 0
    BY <2>1, <2>2
  <2> QED
    BY <1>5, <2>3
<1> QED
  BY <1>3, <1>4, <1>5 DEF Hops

\* The lines of a new layer.
LEMMA LayerText ==
  ASSUME text \in Texts, layer \in Nat, style \in Styles, resets \in BOOLEAN,
         NEW hop \in Hops, NEW move \in ZMoves, WriteLayer(hop, move)
  PROVE  LET n == Len(text)
             c == Len(Comment(layer))
             r == IF resets THEN 1 ELSE 0
             d == IF hop = "none" THEN 0 ELSE IF hop = "absolute" THEN 1 ELSE 3
         IN  /\ text' \in Texts /\ Len(text') = n + c + r + d + 2
             /\ \A i \in 1..n : text'[i] = text[i]
             /\ \A i \in 1..c : text'[n + i] = Comment(layer)[i]
             /\ resets => text'[n + c + 1] = Line("G92", 0)
             /\ hop = "absolute" => text'[n + c + r + 1] = Line("z", Height(layer) + 3)
             /\ hop = "relative" => /\ text'[n + c + r + 1] = Mode("G91")
                                    /\ text'[n + c + r + 2] = Line("z", 3)
                                    /\ text'[n + c + r + 3] = Mode("G90")
             /\ text'[n + c + r + d + 1] = Line(move, Height(layer))
             /\ text'[n + c + r + d + 2].cmd = "extrude"
<1> DEFINE n == Len(text)
           c == Len(Comment(layer))
           r == IF resets THEN 1 ELSE 0
           d == IF hop = "none" THEN 0 ELSE IF hop = "absolute" THEN 1 ELSE 3
           R == IF resets THEN <<Line("G92", 0)>> ELSE <<>>
           P == Detour(hop, Height(layer))
           Z == <<Line(move, Height(layer))>>
           T1 == text \o Comment(layer)
           T2 == T1 \o R
           T3 == T2 \o P
           T4 == T3 \o Z
<1>1. Comment(layer) \in Texts /\ c \in Nat
  BY CommentType DEF Texts
<1>2. R \in Texts /\ Len(R) = r /\ (resets => R[1] = Line("G92", 0))
  <2>1. Line("G92", 0) \in Lines
    BY LineInLines
  <2> QED
    BY <2>1 DEF Texts
<1>3. /\ P \in Texts /\ Len(P) = d
      /\ hop = "absolute" => P[1] = Line("z", Height(layer) + 3)
      /\ hop = "relative" => P[1] = Mode("G91") /\ P[2] = Line("z", 3) /\ P[3] = Mode("G90")
  BY DetourType, HeightIsNat
<1>4. Z \in Texts /\ Len(Z) = 1 /\ Z[1] = Line(move, Height(layer))
  <2>1. Line(move, Height(layer)) \in Lines
    BY LineInLines, HeightIsNat
  <2> QED
    BY <2>1 DEF Texts
<1>5. Extends(T1, text, Comment(layer)) /\ Extends(T2, T1, R) /\ Extends(T3, T2, P)
      /\ Extends(T4, T3, Z)
  <2> HIDE DEF R, P, Z
  <2>1. \A old, block \in Texts : old \o block \in Texts
    BY ConcatType DEF Texts
  <2>2. T1 \in Texts /\ T2 \in Texts /\ T3 \in Texts
    BY <1>1, <1>2, <1>3, <2>1
  <2> HIDE DEF T1, T2, T3
  <2>3. Extends(text \o Comment(layer), text, Comment(layer)) /\ Extends(T1 \o R, T1, R)
        /\ Extends(T2 \o P, T2, P) /\ Extends(T3 \o Z, T3, Z)
    BY <1>1, <1>2, <1>3, <1>4, <2>2, ConcatExtends
  <2> QED
    BY <2>3 DEF T1, T2, T3
<1>6. PICK line \in Lines : line.cmd = "extrude" /\ Extrude(T4) = Append(T4, line)
  BY <1>5, ExtrudeAppends DEF Extends
<1>7. text' = Append(T4, line)
  BY <1>6 DEF WriteLayer
<1> HIDE DEF T1, T2, T3, T4, R, P, Z
<1>8. text' \in Texts /\ Len(text') = Len(T4) + 1 /\ text'[Len(T4) + 1] = line
      /\ \A i \in 1..Len(T4) : text'[i] = T4[i]
  <2>1. T4 \in Texts
    BY <1>5 DEF Extends
  <2> QED
    BY <1>6, <1>7, <2>1, TextAppended
<1>9. /\ n \in Nat /\ r \in 0..1 /\ d \in 0..3
      /\ Len(T1) = n + c /\ Len(T2) = n + c + r /\ Len(T3) = n + c + r + d
      /\ Len(T4) = n + c + r + d + 1
  BY <1>2, <1>3, <1>4, <1>5 DEF Extends, Texts
<1>d. (hop = "absolute" => d = 1) /\ (hop = "relative" => d = 3)
  OBVIOUS
<1> HIDE DEF n, c, r, d
<1>10. ASSUME NEW i \in 1..n PROVE text'[i] = text[i]
  <2>1. i \in 1..Len(text) /\ i \in 1..Len(T1) /\ i \in 1..Len(T2) /\ i \in 1..Len(T3)
        /\ i \in 1..Len(T4)
    BY <1>1, <1>9 DEF n
  <2>2. T1[i] = text[i] /\ T2[i] = T1[i] /\ T3[i] = T2[i] /\ T4[i] = T3[i]
    BY <2>1, <1>5 DEF Extends
  <2> QED
    BY <2>1, <2>2, <1>8
<1>11. ASSUME NEW i \in 1..c PROVE text'[n + i] = Comment(layer)[i]
  <2>1. n + i \in 1..Len(T1) /\ n + i \in 1..Len(T2) /\ n + i \in 1..Len(T3)
        /\ n + i \in 1..Len(T4)
    BY <1>1, <1>9
  <2> QED
    BY <2>1, <1>5, <1>8 DEF Extends, n, c
<1>12. resets => text'[n + c + 1] = Line("G92", 0)
  <2> SUFFICES ASSUME resets PROVE text'[n + c + 1] = Line("G92", 0)
    OBVIOUS
  <2>1. r = 1 /\ 1 \in 1..Len(R)
    BY <1>2 DEF r
  <2>2. n + c + 1 \in 1..Len(T2) /\ n + c + 1 \in 1..Len(T3) /\ n + c + 1 \in 1..Len(T4)
    BY <1>1, <1>9, <2>1
  <2>3. text'[n + c + 1] = T4[n + c + 1] /\ T4[n + c + 1] = T3[n + c + 1]
        /\ T3[n + c + 1] = T2[n + c + 1] /\ n + c + 1 = Len(T1) + 1
    BY <2>2, <1>5, <1>8, <1>9 DEF Extends
  <2>4. T2[Len(T1) + 1] = R[1]
    BY <2>1, <1>5 DEF Extends
  <2> QED
    BY <1>2, <2>3, <2>4
<1>13. ASSUME NEW i \in 1..d PROVE text'[n + c + r + i] = P[i]
  <2>1. /\ n + c + r + i \in 1..Len(T3) /\ n + c + r + i \in 1..Len(T4)
        /\ i \in 1..Len(P) /\ n + c + r + i = Len(T2) + i
    BY <1>1, <1>3, <1>9 DEF d
  <2>2. text'[Len(T2) + i] = T4[Len(T2) + i] /\ T4[Len(T2) + i] = T3[Len(T2) + i]
    BY <2>1, <1>5, <1>8 DEF Extends
  <2>3. T3[Len(T2) + i] = P[i]
    BY <2>1, <1>5 DEF Extends
  <2> QED
    BY <2>1, <2>2, <2>3
<1>14. text'[n + c + r + d + 1] = Line(move, Height(layer))
  <2>1. n + c + r + d + 1 \in 1..Len(T4) /\ 1 \in 1..Len(Z)
    BY <1>1, <1>4, <1>9
  <2>2. text'[Len(T3) + 1] = T4[Len(T3) + 1] /\ n + c + r + d + 1 = Len(T3) + 1
    BY <2>1, <1>8, <1>9
  <2>3. T4[Len(T3) + 1] = Z[1]
    BY <2>1, <1>5 DEF Extends
  <2> QED
    BY <1>4, <2>2, <2>3
<1>15. text'[n + c + r + d + 2].cmd = "extrude" /\ Len(text') = n + c + r + d + 2
  BY <1>1, <1>6, <1>8, <1>9
<1>16. /\ hop = "absolute" => text'[n + c + r + 1] = Line("z", Height(layer) + 3)
       /\ hop = "relative" => /\ text'[n + c + r + 1] = Mode("G91")
                              /\ text'[n + c + r + 2] = Line("z", 3)
                              /\ text'[n + c + r + 3] = Mode("G90")
  BY <1>3, <1>d, <1>13
<1> QED
  BY <1>8, <1>10, <1>11, <1>12, <1>14, <1>15, <1>16 DEF n, c, r, d

\* The lines of a hop.
LEMMA HopText ==
  ASSUME text \in Texts, layer \in Nat, NEW relative \in BOOLEAN, WriteHop(relative)
  PROVE  LET n == Len(text)
             z == Height(layer - 1)
             d == IF relative THEN 4 ELSE 2
         IN  /\ text' \in Texts /\ Len(text') = n + d + 1 /\ z \in Nat /\ z > 0
             /\ \A i \in 1..n : text'[i] = text[i]
             /\ relative => /\ text'[n + 1] = Mode("G91") /\ text'[n + 2] = Line("z", 3)
                            /\ text'[n + 3] = Line("z", -3) /\ text'[n + 4] = Mode("G90")
             /\ ~relative => /\ text'[n + 1] = Line("z", z + 3)
                             /\ text'[n + 2] = Line("z", z)
             /\ text'[n + d + 1].cmd = "extrude"
<1> DEFINE n == Len(text)
           z == Height(layer - 1)
           d == IF relative THEN 4 ELSE 2
           hop == IF relative
                  THEN <<Mode("G91"), Line("z", 3), Line("z", -3), Mode("G90")>>
                  ELSE <<Line("z", z + 3), Line("z", z)>>
           T == text \o hop
<1>1. z \in Nat /\ z > 0
  <2>1. layer - 1 \in Nat
    BY DEF WriteHop
  <2> QED
    BY <2>1, HeightIsNat
<1> HIDE DEF z
<1>2. /\ hop \in Texts /\ Len(hop) = d
      /\ relative => /\ hop[1] = Mode("G91") /\ hop[2] = Line("z", 3)
                     /\ hop[3] = Line("z", -3) /\ hop[4] = Mode("G90")
      /\ ~relative => hop[1] = Line("z", z + 3) /\ hop[2] = Line("z", z)
  <2>1. Mode("G91") \in Lines /\ Mode("G90") \in Lines
    BY LineInLines DEF PositionModes
  <2>2. Line("z", 3) \in Lines /\ Line("z", -3) \in Lines /\ Line("z", z) \in Lines
        /\ Line("z", z + 3) \in Lines
    BY <1>1, LineInLines DEF ZMoves
  <2>3. CASE relative
    <3>1. hop = <<Mode("G91"), Line("z", 3), Line("z", -3), Mode("G90")>>
      BY <2>3
    <3> HIDE DEF hop
    <3> QED
      BY <2>1, <2>2, <2>3, <3>1 DEF Texts
  <2>4. CASE ~relative
    <3>1. hop = <<Line("z", z + 3), Line("z", z)>>
      BY <2>4
    <3> HIDE DEF hop
    <3> QED
      BY <2>2, <2>4, <3>1 DEF Texts
  <2> QED
    BY <2>3, <2>4
<1>3. Extends(T, text, hop)
  <2> HIDE DEF hop
  <2> QED
    BY <1>2, ConcatExtends
<1>4. PICK line \in Lines : line.cmd = "extrude" /\ Extrude(T) = Append(T, line)
  BY <1>3, ExtrudeAppends DEF Extends
<1>5. text' = Append(T, line)
  BY <1>4 DEF WriteHop, z
<1> HIDE DEF T, hop
<1>6. text' \in Texts /\ Len(text') = Len(T) + 1 /\ text'[Len(T) + 1] = line
      /\ \A i \in 1..Len(T) : text'[i] = T[i]
  <2>1. T \in Seq(Lines)
    BY <1>3 DEF Extends, Texts
  <2> QED
    BY <2>1, <1>5 DEF Texts
<1>7. n \in Nat /\ Len(T) = n + d
  BY <1>2, <1>3 DEF Extends, Texts
<1>8. ASSUME NEW i \in 1..n PROVE text'[i] = text[i]
  <2>1. i \in 1..Len(T) /\ T[i] = text[i]
    BY <1>3, <1>7 DEF Extends
  <2> QED
    BY <2>1, <1>6
<1>9. ASSUME NEW i \in 1..d PROVE text'[n + i] = hop[i]
  <2>1. n + i \in 1..Len(T)
    BY <1>7
  <2> QED
    BY <2>1, <1>2, <1>3, <1>6 DEF Extends
<1>10. /\ relative => /\ text'[n + 1] = hop[1] /\ text'[n + 2] = hop[2]
                      /\ text'[n + 3] = hop[3] /\ text'[n + 4] = hop[4]
       /\ ~relative => text'[n + 1] = hop[1] /\ text'[n + 2] = hop[2]
  BY <1>9
<1> QED
  BY <1>1, <1>2, <1>4, <1>6, <1>7, <1>8, <1>10 DEF z

-----------------------------------------------------------------------------
(* What some lines leave alone.                                             *)

LEMMA LineKeeps ==
  \A m \in Machine : \A line \in Lines :
    /\ line.cmd \notin PositionModes => Executed(m, line).relative = m.relative
    /\ line.cmd \notin ExtruderModes => Executed(m, line).relativeE = m.relativeE
    /\ line.cmd \notin ZMoves => Executed(m, line).z = m.z
    /\ line.cmd # "extrude" => Executed(m, line).printed = m.printed
    /\ line.cmd \notin {"extrude", "G92"} => Executed(m, line).e = m.e
  BY DEF Executed, PositionModes, ExtruderModes, ZMoves, Machine, Lines, Commands

LEMMA LineSets ==
  \A m \in Machine : \A line \in Lines :
    /\ line.cmd = "G91" => Executed(m, line).relative
    /\ line.cmd = "G90" => ~Executed(m, line).relative
    /\ line.cmd = "M83" => Executed(m, line).relativeE
    /\ line.cmd = "M82" => ~Executed(m, line).relativeE
    /\ line.cmd = "G92" => Executed(m, line).e = line.arg
    /\ line.cmd \in ZMoves =>
         Executed(m, line).z = IF m.relative THEN m.z + line.arg ELSE line.arg
<1> SUFFICES ASSUME NEW m \in Machine, NEW line \in Lines
             PROVE  /\ line.cmd = "G91" => Executed(m, line).relative
                    /\ line.cmd = "G90" => ~Executed(m, line).relative
                    /\ line.cmd = "M83" => Executed(m, line).relativeE
                    /\ line.cmd = "M82" => ~Executed(m, line).relativeE
                    /\ line.cmd = "G92" => Executed(m, line).e = line.arg
                    /\ line.cmd \in ZMoves =>
                         Executed(m, line).z = IF m.relative THEN m.z + line.arg ELSE line.arg
  OBVIOUS
<1>1. /\ line.cmd \in PositionModes => Executed(m, line) = [m EXCEPT !.relative = (line.cmd = "G91")]
      /\ line.cmd \in ExtruderModes => Executed(m, line) = [m EXCEPT !.relativeE = (line.cmd = "M83")]
      /\ line.cmd = "G92" => Executed(m, line) = [m EXCEPT !.e = line.arg]
      /\ line.cmd \in ZMoves =>
           Executed(m, line) = [m EXCEPT !.z = IF m.relative THEN m.z + line.arg ELSE line.arg]
  BY DEF Executed, PositionModes, ExtruderModes, ZMoves, Machine
<1>2. CASE line.cmd \in PositionModes
  BY <1>1, <1>2 DEF PositionModes, Machine
<1>3. CASE line.cmd \in ExtruderModes
  BY <1>1, <1>3 DEF ExtruderModes, Machine
<1>4. CASE line.cmd \in {"G92"} \cup ZMoves
  BY <1>1, <1>4 DEF Machine, ZMoves
<1> QED
  BY <1>2, <1>3, <1>4 DEF PositionModes, ExtruderModes

\* What an extrude command prints.
Amount(m, line) == IF m.relativeE THEN line.arg ELSE line.arg - m.e

LEMMA ExtrudeSets ==
  ASSUME NEW m \in Machine, NEW line \in Lines, line.cmd = "extrude"
  PROVE  LET q == Executed(m, line)
         IN  /\ q.printed = Append(m.printed, [z |-> m.z, amount |-> Amount(m, line)])
             /\ [z |-> m.z, amount |-> Amount(m, line)] \in [z : Int, amount : Int]
             /\ m.printed \in Seq([z : Int, amount : Int])
             /\ q.e = m.e + Amount(m, line)
<1>1. /\ Executed(m, line) =
           [m EXCEPT !.e = m.e + Amount(m, line),
                     !.printed = Append(m.printed, [z |-> m.z, amount |-> Amount(m, line)])]
  BY DEF Executed, PositionModes, ExtruderModes, ZMoves, Amount, Machine
<1>2. Amount(m, line) \in Int /\ m.z \in Int /\ m.printed \in Seq([z : Int, amount : Int])
  <2>1. line.arg \in Int /\ m.e \in Int /\ m.z \in Int
        /\ m.printed \in Seq([z : Int, amount : Int])
    BY DEF Lines, Machine
  <2> QED
    BY <2>1 DEF Amount
<1> QED
  BY <1>1, <1>2 DEF Machine

LEMMA LinesKeepFrom ==
  ASSUME NEW m \in Machine, NEW T \in Texts, NEW a \in 0..Len(T), NEW b \in a..Len(T)
  PROVE  /\ (\A i \in (a + 1)..b : T[i].cmd \notin PositionModes) =>
              AtFrom(m, T, b).relative = AtFrom(m, T, a).relative
         /\ (\A i \in (a + 1)..b : T[i].cmd \notin ExtruderModes) =>
              AtFrom(m, T, b).relativeE = AtFrom(m, T, a).relativeE
         /\ (\A i \in (a + 1)..b : T[i].cmd \notin ZMoves) => AtFrom(m, T, b).z = AtFrom(m, T, a).z
         /\ (\A i \in (a + 1)..b : T[i].cmd # "extrude") =>
              AtFrom(m, T, b).printed = AtFrom(m, T, a).printed
<1> DEFINE S == {k \in a..b :
                   /\ (\A i \in (a + 1)..k : T[i].cmd \notin PositionModes) =>
                        AtFrom(m, T, k).relative = AtFrom(m, T, a).relative
                   /\ (\A i \in (a + 1)..k : T[i].cmd \notin ExtruderModes) =>
                        AtFrom(m, T, k).relativeE = AtFrom(m, T, a).relativeE
                   /\ (\A i \in (a + 1)..k : T[i].cmd \notin ZMoves) => AtFrom(m, T, k).z = AtFrom(m, T, a).z
                   /\ (\A i \in (a + 1)..k : T[i].cmd # "extrude") =>
                        AtFrom(m, T, k).printed = AtFrom(m, T, a).printed}
<1>1. a \in S /\ a \in Nat /\ b \in Nat
  BY DEF Texts
<1>2. ASSUME NEW k \in a..(b - 1), k \in S PROVE k + 1 \in S
  <2>1. /\ k + 1 \in 1..Len(T) /\ (k + 1) - 1 = k /\ k \in 0..Len(T)
        /\ k + 1 \in (a + 1)..(k + 1) /\ k + 1 \in a..b
        /\ \A i \in (a + 1)..k : i \in (a + 1)..(k + 1)
    BY DEF Texts
  <2>2. T[k + 1] \in Lines /\ AtFrom(m, T, k) \in Machine
        /\ AtFrom(m, T, k + 1) = Executed(AtFrom(m, T, k), T[k + 1])
    BY <2>1, RunStepsFrom DEF Texts
  <2> QED
    BY <1>2, <2>1, <2>2, LineKeeps
<1> HIDE DEF S
<1>3. a..b \subseteq S
  BY <1>1, <1>2, IntervalInduction
<1>4. b \in S
  BY <1>1, <1>3
<1> QED
  BY <1>4 DEF S

LEMMA LinesKeep ==
  ASSUME NEW T \in Texts, NEW a \in 0..Len(T), NEW b \in a..Len(T)
  PROVE  /\ (\A i \in (a + 1)..b : T[i].cmd \notin PositionModes) =>
              At(T, b).relative = At(T, a).relative
         /\ (\A i \in (a + 1)..b : T[i].cmd \notin ExtruderModes) =>
              At(T, b).relativeE = At(T, a).relativeE
         /\ (\A i \in (a + 1)..b : T[i].cmd \notin ZMoves) => At(T, b).z = At(T, a).z
         /\ (\A i \in (a + 1)..b : T[i].cmd # "extrude") =>
              At(T, b).printed = At(T, a).printed
<1>1. \A i : At(T, i) = AtFrom(PowerOn, T, i)
  BY DEF At, AtFrom, Run
<1> QED
  BY <1>1, PowerOnType, LinesKeepFrom

-----------------------------------------------------------------------------
(* The invariant: what is known of a text T in style st with ly layers.     *)

\* Comments are the style's, and a layer with a height is above the plate.
LinesOk(st, T) ==
  /\ T \in Texts
  /\ \A i \in DOMAIN T :
       /\ T[i].cmd = "layer" => st \in {"numbers", "both"}
       /\ T[i].cmd = "height" => st \in {"heights", "both"} /\ T[i].arg > 0

\* The extruder's mode is set before anything is printed.
ModesFirst(T) ==
  \A i, j \in DOMAIN T : T[i].cmd \in ExtruderModes /\ T[j].cmd = "extrude" => i < j

\* The preamble has modes and lifts only.
PreambleOk(T, ly) ==
  ly = 0 =>
    \A i \in DOMAIN T :
      /\ T[i].cmd \notin {"layer", "height", "G92", "extrude"}
      /\ T[i].cmd \in ZMoves => T[i].cmd = "z" /\ T[i].arg \in {0, 5}

\* Layers and hops end with a printed line, in absolute positioning.
LayersOk(st, T, ly) ==
  ly > 0 =>
    /\ T # <<>> /\ T[Len(T)].cmd = "extrude" /\ ~Run(T).relative
    /\ st # "plain" => HasLayerComments(T)

ZAgree(st, T) ==
  st = "plain" =>
    \A i \in DOMAIN T : T[i].cmd \in ZMoves =>
      T[i].cmd = "z" /\ T[i].arg > 0 /\ ~At(T, i - 1).relative

\* Where a layer may begin.
Begins(st, T, i) ==
  \/ st = "numbers" /\ T[i].cmd = "layer"
  \/ st = "heights" /\ T[i].cmd = "height"
  \/ st = "plain" /\ T[i].cmd \in ZMoves

\* A Z move tells a height, at most a comment, a reset and a mode later; and what is
\* printed next is no higher than that move, if it is absolute, or than the height in
\* the comment.
Tells(st, T, i, k) ==
  /\ k \in i..(i + 3) /\ k \in DOMAIN T /\ T[k].cmd \in ZMoves /\ T[k].arg > 0
  /\ \A j \in i..(k - 1) : T[j].cmd \in {"layer", "height", "G92", "G91"}
  /\ st = "heights" \/ ~At(T, k - 1).relative =>
       \A m \in DOMAIN T :
         m > k /\ T[m].cmd = "extrude" /\ (\A j \in k..(m - 1) : T[j].cmd # "extrude") =>
           At(T, m - 1).z <= IF st = "heights" THEN T[i].arg ELSE T[k].arg

\* An absolute Z move follows before anything is printed.
Settles(T, i, l) ==
  /\ l \in DOMAIN T /\ i <= l /\ T[l].cmd \in ZMoves /\ ~At(T, l - 1).relative
  /\ \A j \in i..(l - 1) : T[j].cmd # "extrude"

Begun(st, T, i) ==
  /\ ~At(T, i - 1).relative
  /\ \E k \in Nat : Tells(st, T, i, k)
  /\ \E l \in Nat : Settles(T, i, l)

BeginsOk(st, T) ==
  ZAgree(st, T) => \A i \in DOMAIN T : Begins(st, T, i) => Begun(st, T, i)

\* Layer comments count the layers.
Numbered(st, T, ly) ==
  st = "numbers" =>
    /\ ParsedAt(T, TRUE, Len(T)).next = ly
    /\ \A i \in DOMAIN T : T[i].cmd = "layer" => T[i].arg = ParsedAt(T, TRUE, i - 1).next

\* With both comments the second row of the first layer is numbered as the second
\* layer is.
Doubled(st, T, ly) ==
  st = "both" =>
    LET L == ParsedAt(T, TRUE, Len(T)).layers
    IN  /\ ly >= 1 => Len(L) >= 2 /\ L[2].idx = 1
        /\ ly = 1 => Len(L) = 2 /\ ~L[1].extrudes
        /\ ly >= 2 => Len(L) >= 3 /\ L[3].idx = 1

Written(st, T, ly) ==
  /\ LinesOk(st, T) /\ ModesFirst(T) /\ PreambleOk(T, ly) /\ LayersOk(st, T, ly)
  /\ BeginsOk(st, T) /\ Numbered(st, T, ly) /\ Doubled(st, T, ly)

\* The table is the parser's, and what was resumed is the layer after a printed one.
TablesOk ==
  /\ rows # <<>> => rows = ParseGcode(text)
  /\ lastGood # NoLayer =>
       \E n \in DOMAIN rows :
         /\ rows[n].extrudes /\ lastGood = rows[n].idx
         /\ result = BuildResumeGcode(text, lastGood)

IInv == TypeOK /\ Written(style, text, layer) /\ TablesOk

-----------------------------------------------------------------------------
(* What the slicer appends, in one form: comments, a reset, moves that end  *)
(* at height h, and a printed line.                                         *)

\* Absolute moves no lower than h, or a relative one between modes.
Climbs(U, q, h) ==
  \A i \in q..(Len(U) - 1) : U[i].cmd \in ZMoves /\ U[i].arg >= h

Swings(U, q) ==
  /\ Len(U) = q + 4
  /\ U[q].cmd = "G91" /\ U[q + 1].cmd = "z" /\ U[q + 1].arg = 3 /\ U[q + 2].cmd = "G90"

Block(T, U, c, q, h) ==
  LET n == Len(T)
      e == Len(U)
  IN  /\ T \in Texts /\ U \in Texts /\ c \in 0..2 /\ q \in Nat /\ h \in Nat /\ h > 0
      /\ n + c < q /\ q <= n + c + 2 /\ q < e
      /\ \A i \in 1..n : U[i] = T[i]
      /\ \A i \in (n + c + 1)..(q - 1) : U[i].cmd = "G92"
      /\ Climbs(U, q, h) \/ Swings(U, q)
      /\ U[e - 1].cmd \in ZMoves /\ U[e - 1].arg = h /\ U[e].cmd = "extrude"

Commented(st, T, U, c, ly) ==
  LET n == Len(T)
  IN  /\ c = IF st = "plain" THEN 0 ELSE IF st = "both" THEN 2 ELSE 1
      /\ st \in {"numbers", "both"} => U[n + 1] = Line("layer", ly)
      /\ st = "heights" => U[n + 1] = Line("height", Height(ly))
      /\ st = "both" => U[n + 2] = Line("height", Height(ly))

LEMMA LayerBlock ==
  ASSUME text \in Texts, layer \in Nat, style \in Styles, resets \in BOOLEAN,
         NEW hop \in Hops, NEW move \in ZMoves, WriteLayer(hop, move)
  PROVE  \E c, q : /\ Block(text, text', c, q, Height(layer))
                   /\ Commented(style, text, text', c, layer)
<1> DEFINE n == Len(text)
           c == Len(Comment(layer))
           r == IF resets THEN 1 ELSE 0
           d == IF hop = "none" THEN 0 ELSE IF hop = "absolute" THEN 1 ELSE 3
           q == n + c + r + 1
           e == n + c + r + d + 2
           z == Height(layer)
<1>1. /\ text' \in Texts /\ Len(text') = e
      /\ \A i \in 1..n : text'[i] = text[i]
      /\ \A i \in 1..c : text'[n + i] = Comment(layer)[i]
      /\ resets => text'[n + c + 1] = Line("G92", 0)
      /\ hop = "absolute" => text'[n + c + r + 1] = Line("z", z + 3)
      /\ hop = "relative" => /\ text'[n + c + r + 1] = Mode("G91")
                             /\ text'[n + c + r + 2] = Line("z", 3)
                             /\ text'[n + c + r + 3] = Mode("G90")
      /\ text'[n + c + r + d + 1] = Line(move, z)
      /\ text'[n + c + r + d + 2].cmd = "extrude"
  BY LayerText
<1>2. n \in Nat /\ c \in 0..2 /\ r \in 0..1 /\ (resets <=> r = 1)
  BY CommentType DEF Texts
<1>3. Commented(style, text, text', c, layer)
  <2>1. c = IF style = "plain" THEN 0 ELSE IF style = "both" THEN 2 ELSE 1
    BY CommentType
  <2>2. /\ style # "plain" => text'[n + 1] = Comment(layer)[1]
        /\ style = "both" => text'[n + 2] = Comment(layer)[2]
    <3> HIDE DEF n, c, z
    <3> QED
      BY <1>1, <2>1
  <2> HIDE DEF c, z
  <2> QED
    BY <2>1, <2>2, CommentType DEF Commented
<1>z. z \in Nat /\ z > 0
  BY HeightIsNat
<1>d. (hop = "none" /\ d = 0) \/ (hop = "absolute" /\ d = 1) \/ (hop = "relative" /\ d = 3)
  BY DEF Hops
<1> HIDE DEF n, c, r, d, z
<1>4. \A i \in (n + c + 1)..(q - 1) : text'[i].cmd = "G92"
  BY <1>1, <1>2 DEF Line
<1>5. /\ text'[e - 1].cmd \in ZMoves /\ text'[e - 1].arg = z /\ text'[e].cmd = "extrude"
  <2>1. e - 1 = n + c + r + d + 1
    BY <1>2, <1>d
  <2> QED
    BY <1>1, <2>1 DEF Line
<1>6. Climbs(text', q, z) \/ Swings(text', q)
  <2>1. CASE hop = "none" /\ d = 0
    <3>1. \A i \in q..(e - 1) : i = e - 1
      BY <1>2, <2>1
    <3> QED
      BY <1>1, <1>5, <1>z, <3>1 DEF Climbs
  <2>2. CASE hop = "absolute" /\ d = 1
    <3>1. \A i \in q..(e - 1) : i = q \/ i = e - 1
      BY <1>2, <2>2
    <3>2. text'[q].cmd = "z" /\ text'[q].arg = z + 3
      BY <1>1, <2>2 DEF Line
    <3> HIDE DEF q, e
    <3> QED
      BY <1>1, <1>5, <1>z, <3>1, <3>2 DEF Climbs, ZMoves
  <2>3. CASE hop = "relative" /\ d = 3
    <3>1. e = q + 4 /\ q + 1 = n + c + r + 2 /\ q + 2 = n + c + r + 3
      BY <1>2, <2>3
    <3> QED
      BY <1>1, <2>3, <3>1 DEF Swings, Line, Mode
  <2> QED
    BY <1>d, <2>1, <2>2, <2>3
<1>7. n + c < q /\ q <= n + c + 2 /\ q < e /\ q \in Nat
  BY <1>2, <1>d
<1>8. Block(text, text', c, q, z)
  <2> HIDE DEF q, e
  <2> QED
    BY <1>1, <1>2, <1>4, <1>5, <1>6, <1>7, <1>z DEF Block, n
<1> QED
  BY <1>3, <1>8 DEF z

LEMMA HopBlock ==
  ASSUME text \in Texts, layer \in Nat, WriteHop(FALSE)
  PROVE  Block(text, text', 0, Len(text) + 1, Height(layer - 1))
<1> DEFINE n == Len(text)
           z == Height(layer - 1)
<1>1. /\ text' \in Texts /\ Len(text') = n + 3 /\ z \in Nat /\ z > 0
      /\ \A i \in 1..n : text'[i] = text[i]
      /\ text'[n + 1] = Line("z", z + 3)
      /\ text'[n + 2] = Line("z", z)
      /\ text'[n + 3].cmd = "extrude"
  <2>1. FALSE \in BOOLEAN /\ n + 2 + 1 = n + 3
    BY DEF Texts
  <2> QED
    BY <2>1, HopText
<1>2. n \in Nat
  BY DEF Texts
<1>3. Climbs(text', n + 1, z)
  <2> SUFFICES ASSUME NEW i \in (n + 1)..(n + 2)
               PROVE  text'[i].cmd \in ZMoves /\ text'[i].arg >= z
    BY <1>1 DEF Climbs
  <2>1. i = n + 1 \/ i = n + 2
    BY <1>2
  <2> HIDE DEF z
  <2> QED
    BY <1>1, <2>1 DEF Line, ZMoves
<1> HIDE DEF z
<1>4. /\ n + 0 < n + 1 /\ n + 1 <= n + 0 + 2 /\ n + 1 < n + 3 /\ (n + 3) - 1 = n + 2
      /\ \A i \in (n + 0 + 1)..((n + 1) - 1) : FALSE
      /\ n + 1 \in Nat /\ 0 \in 0..2
  BY <1>2
<1>5. text'[n + 2].cmd \in ZMoves /\ text'[n + 2].arg = z
  BY <1>1 DEF Line, ZMoves
<1> HIDE DEF n
<1>6. Block(text, text', 0, n + 1, z)
  BY <1>1, <1>2, <1>3, <1>4, <1>5 DEF Block, n
<1> QED
  BY <1>6 DEF n, z

-----------------------------------------------------------------------------
(* What lines do to the rows, in a text with comments.                      *)

\* The same rows; only the last may extrude now.
SameRows(L, M) ==
  /\ Len(L) = Len(M)
  /\ \A n \in 1..Len(L) :
       /\ M[n].idx = L[n].idx /\ M[n].at = L[n].at
       /\ n < Len(L) => M[n].extrudes = L[n].extrudes

SameExtrudes(L, M) == \A n \in 1..Len(L) : M[n].extrudes = L[n].extrudes

LEMMA LastReplaced ==
  ASSUME NEW L \in Seq(LayerRow), L # <<>>, NEW row \in LayerRow,
         row.idx = L[Len(L)].idx, row.at = L[Len(L)].at,
         NEW M, M = [L EXCEPT ![Len(L)] = row]
  PROVE  /\ SameRows(L, M)
         /\ row.extrudes = L[Len(L)].extrudes => SameExtrudes(L, M)
<1>1. /\ Len(M) = Len(L) /\ Len(L) \in 1..Len(L)
      /\ \A n \in 1..Len(L) : M[n] = IF n = Len(L) THEN row ELSE L[n]
  OBVIOUS
<1>2. ASSUME NEW n \in 1..Len(L)
      PROVE  M[n].idx = L[n].idx /\ M[n].at = L[n].at
  BY <1>1
<1>3. ASSUME NEW n \in 1..Len(L), n < Len(L)
      PROVE  M[n].extrudes = L[n].extrudes
  <2>1. n # Len(L)
    BY <1>3
  <2>2. M[n] = L[n]
    BY <1>1, <2>1
  <2> QED
    BY <2>2
<1>4. ASSUME NEW n \in 1..Len(L), row.extrudes = L[Len(L)].extrudes
      PROVE  M[n].extrudes = L[n].extrudes
  BY <1>1, <1>4
<1>5. SameRows(L, M)
  BY <1>1, <1>2, <1>3 DEF SameRows
<1>6. row.extrudes = L[Len(L)].extrudes => SameExtrudes(L, M)
  BY <1>1, <1>4 DEF SameExtrudes
<1> QED
  BY <1>5, <1>6

LEMMA RaisedKeeps ==
  ASSUME NEW p \in Parser, NEW i \in Nat, NEW z \in Int
  PROVE  /\ Raised(p, TRUE, i, z).next = p.next
         /\ SameRows(p.layers, Raised(p, TRUE, i, z).layers)
         /\ SameExtrudes(p.layers, Raised(p, TRUE, i, z).layers)
<1> DEFINE L == p.layers
<1>1. L \in Seq(LayerRow)
  BY DEF Parser
<1>2. CASE z <= p.z \/ L = <<>> \/ Last(L).extrudes
  <2>1. Raised(p, TRUE, i, z).next = p.next /\ Raised(p, TRUE, i, z).layers = L
    BY <1>2 DEF Raised, Parser
  <2> QED
    BY <2>1 DEF SameRows, SameExtrudes
<1>3. CASE z > p.z /\ L # <<>> /\ ~Last(L).extrudes
  <2> DEFINE row == [L[Len(L)] EXCEPT !.z = z]
  <2>1. z \in Nat /\ p.z \in Nat /\ ~(z <= p.z)
    BY <1>3 DEF Parser
  <2>2. L[Len(L)] \in LayerRow
    BY <1>1, <1>3
  <2>3. row \in LayerRow /\ row.idx = L[Len(L)].idx /\ row.at = L[Len(L)].at
        /\ row.extrudes = L[Len(L)].extrudes
    BY <2>1, <2>2 DEF LayerRow
  <2>4. Raised(p, TRUE, i, z).next = p.next
        /\ Raised(p, TRUE, i, z).layers = [L EXCEPT ![Len(L)] = row]
    BY <1>3, <2>1 DEF Raised, Parser
  <2> HIDE DEF row, L
  <2> QED
    BY <1>1, <1>3, <2>3, <2>4, LastReplaced DEF L
<1>4. (z <= p.z \/ L = <<>> \/ Last(L).extrudes) \/ (z > p.z /\ L # <<>> /\ ~Last(L).extrudes)
  <2>1. p.z \in Int
    BY DEF Parser
  <2> QED
    BY <2>1
<1> HIDE DEF L
<1> QED
  BY <1>2, <1>3, <1>4

LEMMA ExtrudeKeeps ==
  ASSUME NEW p \in Parser, NEW c \in BOOLEAN, NEW i \in Nat, NEW line \in Lines,
         line.cmd = "extrude"
  PROVE  LET q == ParsedLine(p, c, i, line)
         IN  /\ q.next = p.next /\ q.relative = p.relative /\ q.z = p.z
             /\ SameRows(p.layers, q.layers)
<1> DEFINE q == ParsedLine(p, c, i, line)
           L == p.layers
<1>1. L \in Seq(LayerRow)
  BY DEF Parser
<1>2. CASE L = <<>>
  <2>1. q = p
    BY <1>2 DEF ParsedLine, PositionModes
  <2> HIDE DEF q
  <2> QED
    BY <2>1 DEF SameRows, q
<1>3. CASE L # <<>>
  <2> DEFINE row == [L[Len(L)] EXCEPT !.extrudes = TRUE]
  <2>1. L[Len(L)] \in LayerRow
    BY <1>1, <1>3
  <2>2. row \in LayerRow /\ row.idx = L[Len(L)].idx /\ row.at = L[Len(L)].at
    BY <2>1 DEF LayerRow
  <2>3. q.next = p.next /\ q.relative = p.relative /\ q.z = p.z
        /\ q.layers = [L EXCEPT ![Len(L)] = row]
    BY <1>3 DEF ParsedLine, PositionModes, Parser
  <2> HIDE DEF row, L, q
  <2>4. SameRows(L, q.layers)
    BY <1>1, <1>3, <2>2, <2>3, LastReplaced
  <2> QED
    BY <2>3, <2>4 DEF L, q
<1> QED
  BY <1>2, <1>3

\* What the i-th line makes of the parser's state p.
CommentsEffect(p, q, i, line) ==
  /\ line.cmd = "layer" =>
       /\ q.layers = Append(p.layers, Record(line.arg, p.z, i))
       /\ q.next = line.arg + 1
  /\ line.cmd = "height" =>
       /\ q.layers = Append(p.layers, Record(p.next, line.arg, i))
       /\ q.next = p.next + 1
  /\ line.cmd \notin {"layer", "height"} =>
       q.next = p.next /\ SameRows(p.layers, q.layers)
  /\ line.cmd \notin {"layer", "height", "extrude"} =>
       SameExtrudes(p.layers, q.layers)

LEMMA CommentsLine ==
  ASSUME NEW p \in Parser, NEW i \in Nat, NEW line \in Lines
  PROVE  CommentsEffect(p, ParsedLine(p, TRUE, i, line), i, line)
<1> DEFINE q == ParsedLine(p, TRUE, i, line)
<1> SUFFICES CommentsEffect(p, q, i, line)
  OBVIOUS
<1> USE DEF CommentsEffect
<1>1. CASE line.cmd = "layer"
  BY <1>1 DEF ParsedLine, Parser, PositionModes
<1>2. CASE line.cmd = "height"
  BY <1>2 DEF ParsedLine, Parser, PositionModes
<1>3. CASE line.cmd = "z"
  <2> DEFINE z == IF p.relative THEN p.z + line.arg ELSE line.arg
  <2>1. z \in Int
    <3>1. line.arg \in Int /\ p.z \in Int
      BY DEF Lines, Parser
    <3> QED
      BY <3>1
  <2>2. q = Raised(p, TRUE, i, z)
    BY <1>3 DEF ParsedLine, PositionModes
  <2> HIDE DEF z
  <2> QED
    BY <1>3, <2>1, <2>2, RaisedKeeps
<1>4. CASE line.cmd = "extrude"
  <2>1. TRUE \in BOOLEAN
    OBVIOUS
  <2> QED
    BY <1>4, <2>1, ExtrudeKeeps
<1>5. CASE line.cmd \notin {"layer", "height", "z", "extrude"}
  <2>1. q.next = p.next /\ q.layers = p.layers
    BY <1>5 DEF ParsedLine, Parser, PositionModes
  <2> QED
    BY <1>5, <2>1 DEF SameRows, SameExtrudes
<1> QED
  BY <1>1, <1>2, <1>3, <1>4, <1>5

LEMMA ParsedTypes ==
  ASSUME NEW T \in Texts, NEW c \in BOOLEAN, NEW i \in 1..Len(T)
  PROVE  /\ ParsedAt(T, c, i - 1) \in Parser /\ ParsedAt(T, c, i) \in Parser
         /\ ParsedAt(T, c, i) = ParsedLine(ParsedAt(T, c, i - 1), c, i, T[i])
         /\ T[i] \in Lines /\ i \in Nat
<1>1. i - 1 \in 0..Len(T) /\ i \in 0..Len(T) /\ i \in Nat /\ T[i] \in Lines
  BY DEF Texts
<1> QED
  BY <1>1, ParseSteps

LEMMA CommentsStep ==
  ASSUME NEW T \in Texts, NEW i \in 1..Len(T)
  PROVE  /\ ParsedAt(T, TRUE, i - 1) \in Parser /\ ParsedAt(T, TRUE, i) \in Parser
         /\ CommentsEffect(ParsedAt(T, TRUE, i - 1), ParsedAt(T, TRUE, i), i, T[i])
<1>1. TRUE \in BOOLEAN
  OBVIOUS
<1> QED
  BY <1>1, ParsedTypes, CommentsLine

\* Lines without a comment.
LEMMA CommentsKeep ==
  ASSUME NEW T \in Texts, NEW a \in 0..Len(T), NEW b \in a..Len(T),
         \A i \in (a + 1)..b : T[i].cmd \notin {"layer", "height"}
  PROVE  /\ ParsedAt(T, TRUE, b).next = ParsedAt(T, TRUE, a).next
         /\ SameRows(ParsedAt(T, TRUE, a).layers, ParsedAt(T, TRUE, b).layers)
<1> DEFINE S == {k \in a..b :
                   /\ ParsedAt(T, TRUE, k).next = ParsedAt(T, TRUE, a).next
                   /\ SameRows(ParsedAt(T, TRUE, a).layers, ParsedAt(T, TRUE, k).layers)}
<1>1. a \in S /\ a \in Nat /\ b \in Nat
  BY DEF Texts, SameRows
<1>2. ASSUME NEW k \in a..(b - 1), k \in S PROVE k + 1 \in S
  <2>1. k + 1 \in 1..Len(T) /\ (k + 1) - 1 = k /\ k + 1 \in (a + 1)..b /\ k + 1 \in a..b
    BY DEF Texts
  <2> DEFINE A == ParsedAt(T, TRUE, a)
             P == ParsedAt(T, TRUE, k)
             Q == ParsedAt(T, TRUE, k + 1)
  <2>2. Q.next = P.next /\ SameRows(P.layers, Q.layers)
    BY <2>1, CommentsStep DEF CommentsEffect
  <2>3. P.next = A.next /\ SameRows(A.layers, P.layers)
    BY <1>2
  <2>4. Q.next = A.next /\ SameRows(A.layers, Q.layers)
    <3> HIDE DEF A, P, Q
    <3> QED
      BY <2>2, <2>3 DEF SameRows
  <2> QED
    BY <2>1, <2>4
<1> HIDE DEF S
<1>3. a..b \subseteq S
  BY <1>1, <1>2, IntervalInduction
<1>4. b \in S
  BY <1>1, <1>3
<1> QED
  BY <1>4 DEF S

-----------------------------------------------------------------------------
(* What the slicer appends keeps the invariant.                             *)

\* U is T with more lines.
Longer(T, U) ==
  /\ T \in Texts /\ U \in Texts /\ Len(T) <= Len(U)
  /\ \A i \in 1..Len(T) : U[i] = T[i]

LEMMA LongerSame ==
  ASSUME NEW T, NEW U, Longer(T, U)
  PROVE  /\ \A i \in 0..Len(T) :
              At(U, i) = At(T, i) /\ ParsedAt(U, TRUE, i) = ParsedAt(T, TRUE, i)
         /\ At(U, Len(T)) = Run(T) /\ Len(T) \in Nat /\ Len(U) \in Nat
         /\ DOMAIN T = 1..Len(T) /\ DOMAIN U = 1..Len(U)
         /\ \A i \in 1..Len(T) : T[i] \in Lines
         /\ \A i \in 1..Len(U) : U[i] \in Lines
<1>1. /\ T \in Texts /\ U \in Texts /\ Len(T) \in Nat /\ Len(U) \in Nat
      /\ DOMAIN T = 1..Len(T) /\ DOMAIN U = 1..Len(U)
      /\ \A i \in 1..Len(T) : T[i] \in Lines
      /\ \A i \in 1..Len(U) : U[i] \in Lines
  BY DEF Longer, Texts
<1>2. Len(T) <= Len(T) /\ Len(T) <= Len(U) /\ \A i \in 1..Len(T) : T[i] = U[i]
  BY <1>1 DEF Longer
<1>3. \A i \in 0..Len(T) : At(T, i) = At(U, i)
  BY <1>1, <1>2, RunPrefix
<1>4. \A i \in 0..Len(T) : \A c : ParsedAt(T, c, i) = ParsedAt(U, c, i)
  BY <1>1, <1>2, ParsePrefix
<1>5. At(T, Len(T)) = Run(T) /\ Len(T) \in 0..Len(T)
  BY <1>1, RunSteps
<1>6. \A i \in 0..Len(T) :
        At(U, i) = At(T, i) /\ ParsedAt(U, TRUE, i) = ParsedAt(T, TRUE, i)
  <2> SUFFICES ASSUME NEW i \in 0..Len(T)
               PROVE  At(U, i) = At(T, i) /\ ParsedAt(U, TRUE, i) = ParsedAt(T, TRUE, i)
    OBVIOUS
  <2>1. \A c : ParsedAt(T, c, i) = ParsedAt(U, c, i)
    BY <1>4
  <2> QED
    BY <1>3, <2>1
<1>7. At(U, Len(T)) = Run(T)
  BY <1>3, <1>5
<1> QED
  BY <1>1, <1>6, <1>7

LEMMA AgreeBefore ==
  ASSUME NEW T, NEW U, NEW st, Longer(T, U), ZAgree(st, U)
  PROVE  ZAgree(st, T)
<1> SUFFICES ASSUME st = "plain", NEW i \in DOMAIN T, T[i].cmd \in ZMoves
             PROVE  T[i].cmd = "z" /\ T[i].arg > 0 /\ ~At(T, i - 1).relative
  BY DEF ZAgree
<1>1. i \in 1..Len(T) /\ i \in DOMAIN U /\ i - 1 \in 0..Len(T) /\ U[i] = T[i]
  BY LongerSame DEF Longer
<1>2. At(U, i - 1) = At(T, i - 1)
  BY <1>1, LongerSame
<1> QED
  BY <1>1, <1>2 DEF ZAgree

\* What follows a layer's beginning stays, whatever is written next: if that is
\* the first printed line, it is the first layer's.
LEMMA OldBegins ==
  ASSUME NEW T, NEW U, NEW st \in Styles, NEW ly \in Nat, Longer(T, U),
         Written(st, T, ly), ZAgree(st, U),
         \A m \in (Len(T) + 1)..Len(U) : U[m].cmd = "extrude" => ly > 0 \/ At(U, m - 1).z <= 5,
         NEW i \in 1..Len(T), Begins(st, U, i)
  PROVE  Begun(st, U, i)
<1> DEFINE n == Len(T)
<1>1. /\ n \in Nat /\ Len(U) \in Nat /\ n <= Len(U) /\ U[i] = T[i]
      /\ DOMAIN T = 1..n /\ DOMAIN U = 1..Len(U)
      /\ \A j \in 1..n : U[j] = T[j] /\ T[j] \in Lines
  BY LongerSame DEF Longer
<1>2. Begins(st, T, i)
  BY <1>1 DEF Begins
<1>3. Begun(st, T, i)
  BY <1>1, <1>2, AgreeBefore DEF Written, BeginsOk
<1>4. PICK k \in Nat : Tells(st, T, i, k)
  BY <1>3 DEF Begun
<1>l. PICK l \in Nat : Settles(T, i, l)
  BY <1>3 DEF Begun
<1>5. \A j \in 1..n : At(U, j - 1) = At(T, j - 1)
  <2>1. \A j \in 1..n : j - 1 \in 0..n
    BY <1>1
  <2> QED
    BY <2>1, LongerSame
<1>6. /\ k \in 1..n /\ k \in i..(i + 3) /\ T[k].cmd \in ZMoves /\ T[k].arg > 0
      /\ T[k].arg \in Int
      /\ \A j \in i..(k - 1) : T[j].cmd \in {"layer", "height", "G92", "G91"}
  BY <1>1, <1>4 DEF Tells, Lines
<1>7. ASSUME st = "heights" \/ ~At(U, k - 1).relative,
             NEW m \in 1..Len(U), m > k, U[m].cmd = "extrude",
             \A j \in k..(m - 1) : U[j].cmd # "extrude"
      PROVE  At(U, m - 1).z <= IF st = "heights" THEN U[i].arg ELSE U[k].arg
  <2>1. CASE m <= n
    <3>1. m \in 1..n /\ \A j \in k..(m - 1) : j \in 1..n
      BY <1>1, <1>6, <2>1
    <3>2. At(U, m - 1) = At(T, m - 1) /\ At(U, k - 1) = At(T, k - 1)
      BY <1>5, <1>6, <3>1
    <3> QED
      BY <1>1, <1>4, <1>6, <1>7, <3>1, <3>2 DEF Tells
  <2>2. CASE m > n
    <3>1. ly = 0
      <4>1. SUFFICES ASSUME ly > 0 PROVE FALSE
        OBVIOUS
      <4>2. T[n].cmd = "extrude"
        BY <4>1 DEF Written, LayersOk
      <4>3. n \in k..(m - 1) /\ n \in 1..n
        BY <1>1, <1>6, <2>2
      <4> QED
        BY <1>1, <1>7, <4>2, <4>3
    <3>2. T[k].arg = 5 /\ st = "plain"
      <4>1. T[k].arg \in {0, 5}
        BY <1>1, <1>6, <3>1 DEF Written, PreambleOk
      <4>2. st = "plain"
        BY <1>1, <1>2, <3>1 DEF Written, PreambleOk, Begins
      <4> QED
        BY <1>6, <4>1, <4>2
    <3>3. m \in (n + 1)..Len(U)
      BY <1>1, <2>2
    <3> QED
      BY <1>1, <1>6, <1>7, <3>1, <3>2, <3>3
  <2> QED
    BY <1>1, <2>1, <2>2
<1>8. Tells(st, U, i, k)
  <2>1. \A j \in i..(k - 1) : j \in 1..n
    BY <1>1, <1>6
  <2>2. st = "heights" \/ ~At(U, k - 1).relative =>
          \A m \in DOMAIN U :
            m > k /\ U[m].cmd = "extrude" /\ (\A j \in k..(m - 1) : U[j].cmd # "extrude") =>
              At(U, m - 1).z <= IF st = "heights" THEN U[i].arg ELSE U[k].arg
    BY <1>1, <1>7
  <2>3. /\ k \in DOMAIN U /\ U[k] = T[k]
        /\ \A j \in i..(k - 1) : U[j].cmd \in {"layer", "height", "G92", "G91"}
    BY <1>1, <1>6, <2>1
  <2>4. k \in i..(i + 3) /\ U[k].cmd \in ZMoves /\ U[k].arg > 0
    BY <1>6, <2>3
  <2> QED
    BY <2>2, <2>3, <2>4 DEF Tells
<1>9. Settles(U, i, l)
  <2>1. /\ l \in 1..n /\ i <= l /\ T[l].cmd \in ZMoves /\ ~At(T, l - 1).relative
        /\ \A j \in i..(l - 1) : T[j].cmd # "extrude"
    BY <1>1, <1>l DEF Settles
  <2>2. ASSUME NEW j \in i..(l - 1) PROVE U[j].cmd # "extrude"
    <3>1. j \in 1..n
      BY <1>1, <2>1
    <3> QED
      BY <1>1, <2>1, <3>1
  <2>3. U[l] = T[l] /\ At(U, l - 1) = At(T, l - 1) /\ l \in DOMAIN U
    BY <1>1, <1>5, <2>1
  <2> QED
    BY <2>1, <2>2, <2>3 DEF Settles
<1>10. ~At(U, i - 1).relative
  BY <1>3, <1>5 DEF Begun
<1> QED
  BY <1>8, <1>9, <1>10 DEF Begun

\* The lines of a block are known; it begins and ends in absolute positioning, and it
\* ends at its height.
LEMMA BlockMoves ==
  ASSUME NEW T, NEW U, NEW c, NEW q, NEW h, Block(T, U, c, q, h), ~Run(T).relative,
         \A i \in (Len(T) + 1)..(Len(T) + c) : U[i].cmd \in {"layer", "height"}
  PROVE  /\ Longer(T, U)
         /\ \A i \in (Len(T) + 1)..Len(U) :
              /\ U[i].cmd \notin ExtruderModes
              /\ i > Len(T) + c => U[i].cmd \notin {"layer", "height"}
              /\ U[i].cmd \in ZMoves => i \in q..(Len(U) - 1)
              /\ U[i].cmd = "extrude" <=> i = Len(U)
         /\ \A i \in Len(T)..(q - 1) : ~At(U, i).relative
         /\ Climbs(U, q, h) => \A i \in Len(T)..Len(U) : ~At(U, i).relative
         /\ Swings(U, q) => At(U, q).relative
         /\ ~At(U, Len(U) - 2).relative
         /\ At(U, Len(U) - 1).z = h /\ ~Run(U).relative
<1> DEFINE n == Len(T)
           e == Len(U)
<1>1. /\ T \in Texts /\ U \in Texts /\ c \in 0..2 /\ q \in Nat /\ h \in Nat
      /\ n \in Nat /\ e \in Nat /\ n + c < q /\ q <= n + c + 2 /\ q < e
      /\ \A i \in 1..n : U[i] = T[i]
      /\ \A i \in (n + c + 1)..(q - 1) : U[i].cmd = "G92"
      /\ Climbs(U, q, h) \/ Swings(U, q)
      /\ U[e - 1].cmd \in ZMoves /\ U[e - 1].arg = h /\ U[e].cmd = "extrude"
      /\ \A i \in (n + 1)..(n + c) : U[i].cmd \in {"layer", "height"}
  BY DEF Block, Texts
<1>2. Longer(T, U)
  BY <1>1 DEF Longer
<1> HIDE DEF n, e
<1>q. \A i \in q..(e - 1) :
        /\ U[i].cmd \in ZMoves \cup PositionModes
        /\ Climbs(U, q, h) => U[i].cmd \in ZMoves
  <2> SUFFICES ASSUME NEW i \in q..(e - 1)
               PROVE  /\ U[i].cmd \in ZMoves \cup PositionModes
                      /\ Climbs(U, q, h) => U[i].cmd \in ZMoves
    OBVIOUS
  <2>1. CASE Climbs(U, q, h)
    BY <2>1 DEF Climbs, e
  <2>2. CASE Swings(U, q)
    <3>1. i = q \/ i = q + 1 \/ i = q + 2 \/ i = e - 1
      BY <1>1, <2>2 DEF Swings, e
    <3>2. U[q].cmd = "G91" /\ U[q + 1].cmd = "z" /\ U[q + 2].cmd = "G90" /\ U[e - 1].cmd \in ZMoves
      BY <1>1, <2>2 DEF Swings
    <3>3. U[i].cmd \in ZMoves \cup PositionModes
      BY <3>1, <3>2 DEF ZMoves, PositionModes
    <3> QED
      BY <2>1, <3>3
  <2> QED
    BY <1>1, <2>1, <2>2
<1>3. ASSUME NEW i \in (n + 1)..e
      PROVE  /\ U[i].cmd \notin ExtruderModes
             /\ i > n + c => U[i].cmd \notin {"layer", "height"}
             /\ U[i].cmd \in ZMoves => i \in q..(e - 1)
             /\ U[i].cmd = "extrude" <=> i = e
             /\ U[i].cmd \in PositionModes => i \in q..(e - 1) /\ ~Climbs(U, q, h)
  <2>1. i \in (n + 1)..(n + c) \/ i \in (n + c + 1)..(q - 1) \/ i \in q..(e - 1) \/ i = e
    BY <1>1
  <2>2. CASE i \in (n + 1)..(n + c)
    <3>1. U[i].cmd \in {"layer", "height"} /\ ~(i > n + c) /\ i # e
      BY <1>1, <2>2
    <3> QED
      BY <3>1 DEF ExtruderModes, PositionModes, ZMoves
  <2>3. CASE i \in (n + c + 1)..(q - 1)
    <3>1. U[i].cmd = "G92" /\ i # e
      BY <1>1, <2>3
    <3> QED
      BY <3>1 DEF ExtruderModes, PositionModes, ZMoves
  <2>4. CASE i \in q..(e - 1)
    <3>1. i # e
      BY <1>1, <2>4
    <3> QED
      BY <1>q, <2>4, <3>1 DEF ExtruderModes, PositionModes, ZMoves
  <2>5. CASE i = e
    BY <1>1, <2>5 DEF ExtruderModes, PositionModes, ZMoves
  <2> QED
    BY <2>1, <2>2, <2>3, <2>4, <2>5
<1>4. ASSUME NEW i \in n..e, i < q \/ Climbs(U, q, h)
      PROVE ~At(U, i).relative
  <2>1. n \in 0..e /\ i \in n..e
    BY <1>1
  <2>2. ASSUME NEW j \in (n + 1)..i PROVE U[j].cmd \notin PositionModes
    <3>1. j \in (n + 1)..e /\ (j \in q..(e - 1) => ~(i < q))
      BY <1>1
    <3> QED
      BY <1>3, <1>4, <3>1
  <2>3. At(U, i).relative = At(U, n).relative
    BY <1>1, <2>1, <2>2, LinesKeep DEF e
  <2> QED
    BY <1>2, <2>3, LongerSame DEF n
<1>s. \A i \in 1..e : /\ At(U, i) = Executed(At(U, i - 1), U[i])
                      /\ At(U, i - 1) \in Machine /\ U[i] \in Lines
  <2> SUFFICES ASSUME NEW i \in 1..e
               PROVE  /\ At(U, i) = Executed(At(U, i - 1), U[i])
                      /\ At(U, i - 1) \in Machine /\ U[i] \in Lines
    OBVIOUS
  <2>1. i - 1 \in 0..Len(U) /\ i \in 1..Len(U)
    BY <1>1 DEF e
  <2>2. U[i] \in Lines
    BY <1>1, <2>1 DEF Texts
  <2> QED
    BY <1>1, <2>1, <2>2, RunSteps
<1>w. ASSUME Swings(U, q) PROVE At(U, q).relative /\ ~At(U, e - 2).relative
  <2>1. /\ e = q + 4 /\ U[q].cmd = "G91" /\ U[q + 2].cmd = "G90"
        /\ q \in 1..e /\ q + 2 \in 1..e /\ e - 2 = q + 2
    BY <1>1, <1>w DEF Swings, e
  <2> QED
    BY <1>s, <2>1, LineSets
<1>5. ~At(U, e - 2).relative
  <2>1. CASE Climbs(U, q, h)
    <3>1. CASE q < e - 1
      <4>1. e - 2 \in n..e
        BY <1>1, <3>1
      <4> QED
        BY <1>4, <2>1, <4>1
    <3>2. CASE q = e - 1
      <4>1. e - 2 \in n..e /\ e - 2 < q
        BY <1>1, <3>2
      <4> QED
        BY <1>4, <4>1
    <3> QED
      BY <1>1, <3>1, <3>2
  <2> QED
    BY <1>1, <1>w, <2>1
<1>6. At(U, e - 1).z = h /\ ~At(U, e - 1).relative
  <2>1. e - 1 \in 1..e /\ (e - 1) - 1 = e - 2
    BY <1>1
  <2>2. /\ At(U, e - 1) = Executed(At(U, e - 2), U[e - 1])
        /\ At(U, e - 2) \in Machine /\ U[e - 1] \in Lines
    BY <1>s, <2>1
  <2>3. U[e - 1].cmd \notin PositionModes
    BY <1>1 DEF ZMoves, PositionModes
  <2> QED
    BY <1>1, <1>5, <2>2, <2>3, LineSets, LineKeeps
<1>7. ~Run(U).relative
  <2>1. e \in 1..e /\ At(U, e) = Run(U)
    BY <1>1, RunSteps DEF e
  <2>2. U[e].cmd \notin PositionModes
    BY <1>1 DEF PositionModes
  <2> QED
    BY <1>s, <1>6, <2>1, <2>2, LineKeeps
<1>8. \A i \in n..(q - 1) : i \in n..e /\ i < q
  BY <1>1
<1>9. /\ \A i \in n..(q - 1) : ~At(U, i).relative
      /\ Climbs(U, q, h) => \A i \in n..e : ~At(U, i).relative
  BY <1>4, <1>8
<1> QED
  BY <1>2, <1>3, <1>5, <1>6, <1>7, <1>9, <1>w DEF n, e

\* What follows a block's own beginnings.
LEMMA BlockBegins ==
  ASSUME NEW T, NEW U, NEW c, NEW q, NEW h, Block(T, U, c, q, h), ~Run(T).relative,
         NEW st \in Styles, NEW ly \in Nat, Written(st, T, ly), ly = 0 => h <= 5,
         \A i \in (Len(T) + 1)..(Len(T) + c) : U[i].cmd \in {"layer", "height"},
         st \in {"numbers", "heights"} => c <= 1,
         st = "heights" => \A i \in (Len(T) + 1)..(Len(T) + c) : U[i].arg = h
  PROVE  BeginsOk(st, U)
<1> DEFINE n == Len(T)
           e == Len(U)
<1>1. /\ U \in Texts /\ c \in 0..2 /\ q \in Nat /\ h \in Nat /\ h > 0
      /\ n \in Nat /\ e \in Nat /\ n + c < q /\ q <= n + c + 2 /\ q < e /\ DOMAIN U = 1..e
      /\ \A i \in (n + c + 1)..(q - 1) : U[i].cmd = "G92"
      /\ Climbs(U, q, h) \/ Swings(U, q)
      /\ U[e - 1].cmd \in ZMoves /\ U[e - 1].arg = h
      /\ \A i \in 1..e : U[i] \in Lines /\ U[i].arg \in Int
  <2>1. T \in Texts /\ U \in Texts
    BY DEF Block
  <2>2. n \in Nat /\ e \in Nat /\ DOMAIN U = 1..e /\ \A i \in 1..e : U[i] \in Lines
    BY <2>1 DEF Texts
  <2>3. \A i \in 1..e : U[i].arg \in Int
    BY <2>2 DEF Lines
  <2> QED
    BY <2>1, <2>2, <2>3 DEF Block
<1>2. /\ Longer(T, U)
      /\ \A i \in (n + 1)..e :
           /\ i > n + c => U[i].cmd \notin {"layer", "height"}
           /\ U[i].cmd \in ZMoves => i \in q..(e - 1)
           /\ U[i].cmd = "extrude" <=> i = e
      /\ \A i \in n..(q - 1) : ~At(U, i).relative
      /\ Climbs(U, q, h) => \A i \in n..e : ~At(U, i).relative
      /\ Swings(U, q) => At(U, q).relative
      /\ ~At(U, e - 2).relative
      /\ At(U, e - 1).z = h
  BY BlockMoves
<1>a. /\ c \in 0..2 /\ q \in Nat /\ n \in Nat /\ e \in Nat
      /\ n + c < q /\ q <= n + c + 2 /\ q < e
  BY <1>1
<1> HIDE DEF n, e
<1> SUFFICES ASSUME ZAgree(st, U), NEW i \in DOMAIN U, Begins(st, U, i)
             PROVE  Begun(st, U, i)
  BY DEF BeginsOk
<1>3. CASE i <= n
  <2>1. i \in 1..Len(T)
    BY <1>1, <1>3 DEF n
  <2>2. \A m \in (n + 1)..e : U[m].cmd = "extrude" => ly > 0 \/ At(U, m - 1).z <= 5
    <3> SUFFICES ASSUME NEW m \in (n + 1)..e, U[m].cmd = "extrude", ~(ly > 0)
                 PROVE  At(U, m - 1).z <= 5
      OBVIOUS
    <3>1. m = e
      BY <1>2
    <3> QED
      BY <1>1, <1>2, <3>1
  <2> QED
    BY <1>2, <2>1, <2>2, OldBegins DEF n, e
<1>4. CASE i > n
  <2>1. i \in (n + 1)..e /\ i - 1 \in n..e /\ i \in Nat
    BY <1>1, <1>4
  <2>c. st = "plain" => Climbs(U, q, h)
    <3>1. SUFFICES ASSUME st = "plain", Swings(U, q) PROVE FALSE
      BY <1>1
    <3>2. q + 1 \in DOMAIN U /\ U[q + 1].cmd \in ZMoves /\ (q + 1) - 1 = q
      BY <1>1, <3>1 DEF Swings, ZMoves, e
    <3> QED
      BY <1>2, <3>1, <3>2 DEF ZAgree
  <2> DEFINE k == IF st = "plain" THEN i ELSE IF Climbs(U, q, h) THEN q ELSE q + 1
  <2>2. st # "plain" => c = 1 /\ i = n + 1
    <3>1. SUFFICES ASSUME st # "plain" PROVE c = 1 /\ i = n + 1
      OBVIOUS
    <3>2. c <= 1 /\ U[i].cmd \in {"layer", "height"}
      BY <3>1 DEF Begins
    <3>3. ~(i > n + c)
      BY <1>2, <2>1, <3>2
    <3> QED
      BY <1>a, <2>1, <3>2, <3>3
  <2>w. ~Climbs(U, q, h) => e = q + 4 /\ U[q].cmd = "G91" /\ U[q + 1].cmd \in ZMoves
                            /\ U[q + 1].arg = 3 /\ At(U, q).relative
    BY <1>1, <1>2 DEF Swings, ZMoves, e
  <2>3. k \in q..(e - 1) /\ k \in i..(i + 3) /\ k \in Nat
    <3>1. CASE st = "plain"
      <4>1. k = i /\ U[i].cmd \in ZMoves
        BY <3>1 DEF Begins
      <4> HIDE DEF k
      <4>2. i \in q..(e - 1)
        BY <1>2, <2>1, <4>1
      <4> QED
        BY <1>a, <4>1, <4>2
    <3>2. CASE st # "plain"
      <4>1. k = q \/ (k = q + 1 /\ ~Climbs(U, q, h))
        BY <3>2
      <4> HIDE DEF k
      <4> QED
        BY <1>a, <2>2, <2>w, <3>2, <4>1
    <3> QED
      BY <3>1, <3>2
  <2>4. ASSUME NEW j \in i..(k - 1) PROVE U[j].cmd \in {"layer", "height", "G92", "G91"}
    <3>1. st # "plain"
      BY <1>1, <2>1, <2>4
    <3>2. k = q \/ (k = q + 1 /\ ~Climbs(U, q, h))
      BY <3>1
    <3> HIDE DEF k
    <3>3. j \in (n + 1)..(n + c) \/ j \in (n + c + 1)..(q - 1) \/ (j = q /\ ~Climbs(U, q, h))
      BY <1>1, <2>1, <2>2, <3>1, <3>2
    <3> QED
      BY <1>1, <2>w, <3>3 DEF n
  <2>k. /\ U[k].cmd \in ZMoves /\ U[k].arg > 0 /\ k \in DOMAIN U
        /\ Climbs(U, q, h) => U[k].arg >= h
        /\ ~Climbs(U, q, h) => At(U, k - 1).relative
    <3>1. ~Climbs(U, q, h) => k = q + 1
      BY <2>c
    <3> HIDE DEF k
    <3>2. k \in 1..e /\ (q + 1) - 1 = q
      BY <1>1, <2>1, <2>3
    <3>3. Climbs(U, q, h) => U[k].cmd \in ZMoves /\ U[k].arg >= h
      BY <2>3 DEF Climbs, e
    <3>4. Climbs(U, q, h) => U[k].arg > 0
      BY <1>1, <3>2, <3>3
    <3> QED
      BY <1>1, <2>w, <3>1, <3>2, <3>3, <3>4
  <2>5. ASSUME st = "heights" \/ ~At(U, k - 1).relative,
               NEW m \in 1..e, m > k, U[m].cmd = "extrude"
        PROVE  At(U, m - 1).z <= IF st = "heights" THEN U[i].arg ELSE U[k].arg
    <3> HIDE DEF k
    <3>1. m = e
      <4>1. m \in (n + 1)..e
        BY <1>1, <2>3, <2>1, <2>5
      <4> QED
        BY <1>2, <2>5, <4>1
    <3>2. st = "heights" => U[i].arg = h
      <4>1. st = "heights" => i \in (n + 1)..(n + c)
        BY <1>1, <2>1, <2>2
      <4> QED
        BY <4>1 DEF n
    <3>3. k \in 1..e
      BY <1>1, <2>1, <2>3
    <3>4. U[k].arg \in Int /\ (st # "heights" => U[k].arg >= h)
      BY <1>1, <2>5, <2>k, <3>3
    <3>5. At(U, m - 1).z = h
      BY <1>2, <3>1
    <3> QED
      BY <1>1, <3>2, <3>4, <3>5
  <2> HIDE DEF k
  <2>6. Tells(st, U, i, k)
    BY <1>1, <2>3, <2>4, <2>5, <2>k DEF Tells
  <2>7. Settles(U, i, e - 1)
    <3>0. n \in Nat /\ e \in Nat /\ DOMAIN U = 1..e
      BY <1>1
    <3>1. /\ e - 1 \in DOMAIN U /\ i <= e - 1 /\ (e - 1) - 1 = e - 2
          /\ \A j \in i..((e - 1) - 1) : j \in (n + 1)..e /\ j # e
      BY <2>1, <2>3, <3>0
    <3>2. ~At(U, (e - 1) - 1).relative /\ U[e - 1].cmd \in ZMoves
      BY <1>1, <1>2, <3>1
    <3>3. \A j \in i..((e - 1) - 1) : U[j].cmd # "extrude"
      BY <1>2, <3>1
    <3> HIDE DEF k
    <3>4. e - 1 \in DOMAIN U /\ i <= e - 1
      BY <3>1
    <3> QED
      BY <3>2, <3>3, <3>4 DEF Settles
  <2>8. ~At(U, i - 1).relative
    <3>1. i - 1 \in n..(q - 1) \/ Climbs(U, q, h)
      BY <1>1, <2>1, <2>2, <2>c
    <3> QED
      BY <1>2, <2>1, <3>1
  <2>9. e - 1 \in Nat
    BY <1>1
  <2> QED
    BY <2>3, <2>6, <2>7, <2>8, <2>9 DEF Begun
<1> QED
  BY <1>1, <1>3, <1>4

\* A line of the preamble.
LEMMA PreambleKeeps ==
  ASSUME NEW T, NEW st \in Styles, Written(st, T, 0), NEW line \in Lines,
         line.cmd \in {"z"} \cup PositionModes \cup ExtruderModes,
         line.cmd \in ZMoves => line.arg \in {0, 5}
  PROVE  Written(st, Append(T, line), 0)
<1> DEFINE U == Append(T, line)
           n == Len(T)
<1>1. /\ T \in Texts /\ U \in Texts /\ n \in Nat /\ Len(U) = n + 1 /\ U[n + 1] = line
      /\ DOMAIN T = 1..n /\ DOMAIN U = 1..(n + 1)
      /\ \A i \in 1..n : U[i] = T[i]
  BY DEF Written, LinesOk, Texts
<1> HIDE DEF U
<1>2. Longer(T, U)
  BY <1>1 DEF Longer
<1>3. /\ line.cmd \notin {"layer", "height", "G92", "extrude"}
      /\ line.cmd \in ZMoves => line.cmd = "z" /\ line.arg \in {0, 5}
  BY DEF PositionModes, ExtruderModes, ZMoves
<1>4. LinesOk(st, U)
  BY <1>1, <1>3 DEF Written, LinesOk
<1>5. PreambleOk(U, 0)
  BY <1>1, <1>3 DEF Written, PreambleOk
<1>6. ModesFirst(U)
  BY <1>5 DEF ModesFirst, PreambleOk
<1>7. LayersOk(st, U, 0) /\ Doubled(st, U, 0)
  BY DEF LayersOk, Doubled
<1>8. BeginsOk(st, U)
  <2> SUFFICES ASSUME ZAgree(st, U), NEW i \in DOMAIN U, Begins(st, U, i)
               PROVE  Begun(st, U, i)
    BY DEF BeginsOk
  <2>1. CASE i <= n
    <3>1. i \in 1..Len(T) /\ 0 \in Nat
      BY <1>1, <2>1
    <3>2. \A m \in (Len(T) + 1)..Len(U) : U[m].cmd = "extrude" => 0 > 0 \/ At(U, m - 1).z <= 5
      BY <1>1, <1>3
    <3> QED
      BY <1>2, <3>1, <3>2, OldBegins
  <2>2. CASE i = n + 1
    <3>1. st = "plain" /\ U[i].cmd \in ZMoves
      BY <1>1, <1>3, <2>2 DEF Begins
    <3>2. U[i].arg > 0 /\ ~At(U, i - 1).relative
      BY <3>1 DEF ZAgree
    <3>3. /\ i \in i..(i + 3) /\ i \in Nat /\ i <= i
          /\ \A j \in i..(i - 1) : FALSE
          /\ \A m \in DOMAIN U : ~(m > i)
      BY <1>1, <2>2
    <3>4. Tells(st, U, i, i) /\ Settles(U, i, i)
      BY <3>1, <3>2, <3>3 DEF Tells, Settles
    <3> QED
      BY <3>2, <3>3, <3>4 DEF Begun
  <2> QED
    BY <1>1, <2>1, <2>2
<1>9. Numbered(st, U, 0)
  <2>1. \A i \in DOMAIN U : U[i].cmd \notin {"layer", "height"}
    BY <1>5 DEF PreambleOk
  <2>2. 0 \in 0..Len(U) /\ Len(U) \in 0..Len(U)
        /\ \A i \in (0 + 1)..Len(U) : U[i].cmd \notin {"layer", "height"}
    BY <1>1, <2>1
  <2>3. ParsedAt(U, TRUE, Len(U)).next = ParsedAt(U, TRUE, 0).next
    BY <1>1, <2>2, CommentsKeep
  <2>4. ParsedAt(U, TRUE, 0).next = 0
    <3>1. TRUE \in BOOLEAN
      OBVIOUS
    <3>2. ParsedAt(U, TRUE, 0) = ParserStart
      BY <1>1, <3>1, ParseSteps
    <3>3. ParserStart.next = 0
      BY DEF ParserStart
    <3> QED
      BY <3>2, <3>3
  <2> QED
    BY <2>1, <2>3, <2>4 DEF Numbered
<1> QED
  BY <1>4, <1>5, <1>6, <1>7, <1>8, <1>9 DEF Written, U

\* Lines within a layer.
LEMMA InLayerKeeps ==
  ASSUME NEW T, NEW U, NEW st \in Styles, NEW ly \in Nat, ly > 0, Written(st, T, ly),
         Longer(T, U), Len(T) < Len(U),
         \A i \in (Len(T) + 1)..Len(U) :
           U[i].cmd \notin {"layer", "height"} \cup ExtruderModes,
         U[Len(U)].cmd = "extrude", ~Run(U).relative, BeginsOk(st, U)
  PROVE  Written(st, U, ly)
<1> DEFINE n == Len(T)
           e == Len(U)
<1>1. /\ T \in Texts /\ U \in Texts /\ n \in Nat /\ e \in Nat /\ n < e
      /\ DOMAIN T = 1..n /\ DOMAIN U = 1..e /\ n \in 0..e /\ e \in n..e
      /\ \A i \in 1..n : U[i] = T[i]
      /\ \A i \in DOMAIN U : i \in 1..n \/ i \in (n + 1)..e
      /\ \A i \in (n + 1)..e : U[i].cmd \notin {"layer", "height"} \cup ExtruderModes
  BY LongerSame DEF Longer
<1> HIDE DEF n, e
<1>2. LinesOk(st, U)
  BY <1>1 DEF Written, LinesOk
<1>3. ModesFirst(U)
  <2> SUFFICES ASSUME NEW i \in DOMAIN U, NEW j \in DOMAIN U,
                      U[i].cmd \in ExtruderModes, U[j].cmd = "extrude"
               PROVE  i < j
    BY DEF ModesFirst
  <2>1. i \in 1..n
    BY <1>1
  <2> QED
    BY <1>1, <2>1 DEF Written, ModesFirst
<1>4. PreambleOk(U, ly)
  BY DEF PreambleOk
<1>5. LayersOk(st, U, ly)
  <2>1. st # "plain" => HasLayerComments(U)
    BY <1>1 DEF Written, LayersOk, HasLayerComments
  <2>2. U # <<>>
    BY <1>1
  <2> QED
    BY <2>1, <2>2 DEF LayersOk
<1>6. /\ ParsedAt(U, TRUE, e).next = ParsedAt(T, TRUE, n).next
      /\ SameRows(ParsedAt(T, TRUE, n).layers, ParsedAt(U, TRUE, e).layers)
  <2>1. ParsedAt(U, TRUE, n) = ParsedAt(T, TRUE, n)
    <3>1. n \in 0..Len(T)
      BY <1>1 DEF n
    <3> QED
      BY <3>1, LongerSame
  <2>2. \A i \in (n + 1)..e : U[i].cmd \notin {"layer", "height"}
    BY <1>1
  <2> QED
    BY <1>1, <2>1, <2>2, CommentsKeep DEF e
<1>7. Numbered(st, U, ly)
  <2> SUFFICES ASSUME st = "numbers"
               PROVE  /\ ParsedAt(U, TRUE, e).next = ly
                      /\ \A i \in DOMAIN U : U[i].cmd = "layer" =>
                           U[i].arg = ParsedAt(U, TRUE, i - 1).next
    BY DEF Numbered, e
  <2>1. /\ ParsedAt(T, TRUE, n).next = ly
        /\ \A i \in DOMAIN T : T[i].cmd = "layer" => T[i].arg = ParsedAt(T, TRUE, i - 1).next
    BY DEF Written, Numbered, n
  <2>2. ASSUME NEW i \in DOMAIN U, U[i].cmd = "layer"
        PROVE  U[i].arg = ParsedAt(U, TRUE, i - 1).next
    <3>1. i \in 1..n /\ i - 1 \in 0..Len(T)
      BY <1>1, <2>2 DEF n
    <3>2. ParsedAt(U, TRUE, i - 1) = ParsedAt(T, TRUE, i - 1)
      BY <3>1, LongerSame
    <3> QED
      BY <1>1, <2>1, <2>2, <3>1, <3>2
  <2> QED
    BY <1>6, <2>1, <2>2
<1>8. Doubled(st, U, ly)
  <2> DEFINE L == ParsedAt(T, TRUE, n).layers
             M == ParsedAt(U, TRUE, e).layers
  <2>1. /\ Len(M) = Len(L) /\ Len(L) \in Nat
        /\ \A m \in 1..Len(L) :
             M[m].idx = L[m].idx /\ (m < Len(L) => M[m].extrudes = L[m].extrudes)
    <3>1. n \in 0..Len(T) /\ TRUE \in BOOLEAN
      BY <1>1 DEF n
    <3>2. ParsedAt(T, TRUE, n) \in Parser
      BY <1>1, <3>1, ParseSteps
    <3>3. L \in Seq(LayerRow) /\ SameRows(L, M)
      BY <1>6, <3>2 DEF Parser
    <3> HIDE DEF L, M
    <3> QED
      BY <3>3 DEF SameRows
  <2>2. st = "both" => /\ ly >= 1 => Len(L) >= 2 /\ L[2].idx = 1
                       /\ ly = 1 => Len(L) = 2 /\ ~L[1].extrudes
                       /\ ly >= 2 => Len(L) >= 3 /\ L[3].idx = 1
    BY DEF Written, Doubled, n
  <2> HIDE DEF L, M
  <2>3. /\ Len(L) >= 2 => M[2].idx = L[2].idx
        /\ Len(L) >= 3 => M[3].idx = L[3].idx
        /\ Len(L) = 2 => M[1].extrudes = L[1].extrudes
    <3>1. /\ Len(L) >= 2 => 1 \in 1..Len(L) /\ 1 < Len(L) /\ 2 \in 1..Len(L)
          /\ Len(L) >= 3 => 3 \in 1..Len(L)
      <4>1. Len(L) \in Nat
        BY <2>1
      <4> QED
        BY <4>1
    <3> QED
      BY <2>1, <3>1
  <2>4. st = "both" => /\ ly >= 1 => Len(M) >= 2 /\ M[2].idx = 1
                       /\ ly = 1 => Len(M) = 2 /\ ~M[1].extrudes
                       /\ ly >= 2 => Len(M) >= 3 /\ M[3].idx = 1
    BY <2>1, <2>2, <2>3
  <2> QED
    BY <2>4 DEF Doubled, M, e
<1> QED
  BY <1>2, <1>3, <1>4, <1>5, <1>7, <1>8 DEF Written

\* A text without comments has no rows, and the parser's count stays at 0.
LEMMA NoComments ==
  ASSUME NEW T \in Texts, \A i \in DOMAIN T : T[i].cmd \notin {"layer", "height"}
  PROVE  ParsedAt(T, TRUE, Len(T)).next = 0 /\ Len(ParsedAt(T, TRUE, Len(T)).layers) = 0
<1>1. /\ 0 \in 0..Len(T) /\ Len(T) \in 0..Len(T) /\ TRUE \in BOOLEAN
      /\ \A i \in (0 + 1)..Len(T) : T[i].cmd \notin {"layer", "height"}
  BY DEF Texts
<1>2. /\ ParsedAt(T, TRUE, Len(T)).next = ParsedAt(T, TRUE, 0).next
      /\ SameRows(ParsedAt(T, TRUE, 0).layers, ParsedAt(T, TRUE, Len(T)).layers)
  BY <1>1, CommentsKeep
<1>3. ParsedAt(T, TRUE, 0) = ParserStart
  BY <1>1, ParseSteps
<1>4. ParserStart.next = 0 /\ Len(ParserStart.layers) = 0
  BY DEF ParserStart
<1> QED
  BY <1>2, <1>3, <1>4 DEF SameRows

\* The rows of a layer with both comments.
LEMMA BothRows ==
  ASSUME NEW T, NEW U, NEW ly \in Nat, Longer(T, U), Len(T) + 2 <= Len(U),
         U[Len(T) + 1] = Line("layer", ly), U[Len(T) + 2] = Line("height", Height(ly)),
         \A i \in (Len(T) + 3)..Len(U) : U[i].cmd \notin {"layer", "height"}
  PROVE  LET L == ParsedAt(T, TRUE, Len(T)).layers
             M == ParsedAt(U, TRUE, Len(U)).layers
         IN  /\ Len(L) \in Nat /\ Len(M) = Len(L) + 2
             /\ \A m \in 1..Len(L) : M[m].idx = L[m].idx
             /\ M[Len(L) + 1].idx = ly /\ M[Len(L) + 2].idx = ly + 1
             /\ ~M[Len(L) + 1].extrudes
<1> DEFINE n == Len(T)
           e == Len(U)
           L == ParsedAt(T, TRUE, n).layers
           P == ParsedAt(U, TRUE, n + 1).layers
           Q == ParsedAt(U, TRUE, n + 2).layers
           M == ParsedAt(U, TRUE, e).layers
<1>1. /\ U \in Texts /\ n \in Nat /\ e \in Nat /\ n \in 0..n /\ TRUE \in BOOLEAN
      /\ n + 1 \in 1..e /\ n + 2 \in 1..e /\ (n + 1) - 1 = n /\ (n + 2) - 1 = n + 1
      /\ n + 2 \in 0..e /\ e \in (n + 2)..e /\ n \in 0..e
  BY LongerSame DEF Longer
<1>2. ParsedAt(U, TRUE, n) = ParsedAt(T, TRUE, n) /\ ParsedAt(U, TRUE, n) \in Parser
  BY <1>1, LongerSame, ParseSteps
<1>3. CommentsEffect(ParsedAt(U, TRUE, n), ParsedAt(U, TRUE, n + 1), n + 1, U[n + 1])
  BY <1>1, CommentsStep
<1>4. CommentsEffect(ParsedAt(U, TRUE, n + 1), ParsedAt(U, TRUE, n + 2), n + 2, U[n + 2])
  BY <1>1, CommentsStep
<1>5. \A i \in ((n + 2) + 1)..e : U[i].cmd \notin {"layer", "height"}
  BY <1>1
<1>6. SameRows(Q, M)
  BY <1>1, <1>5, CommentsKeep
<1>7. /\ U[n + 1].cmd = "layer" /\ U[n + 1].arg = ly
      /\ U[n + 2].cmd = "height" /\ U[n + 2].arg = Height(ly)
  BY DEF Line
<1>8. /\ P = Append(L, Record(ly, ParsedAt(U, TRUE, n).z, n + 1))
      /\ ParsedAt(U, TRUE, n + 1).next = ly + 1
  BY <1>2, <1>3, <1>7 DEF CommentsEffect
<1>9. Q = Append(P, Record(ly + 1, Height(ly), n + 2))
  BY <1>4, <1>7, <1>8 DEF CommentsEffect
<1>10. L \in Seq(LayerRow)
  BY <1>2 DEF Parser
<1> HIDE DEF L, P, Q, M, n, e
<1>11. PICK z : P = Append(L, Record(ly, z, n + 1))
  BY <1>8
<1>12. /\ Len(L) \in Nat /\ Len(P) = Len(L) + 1 /\ Len(Q) = Len(L) + 2
       /\ \A m \in 1..Len(L) : P[m] = L[m] /\ Q[m] = L[m]
       /\ P[Len(L) + 1] = Record(ly, z, n + 1) /\ Q[Len(L) + 1] = Record(ly, z, n + 1)
       /\ Q[Len(L) + 2] = Record(ly + 1, Height(ly), n + 2)
  <2>1. /\ Len(L) \in Nat /\ Len(P) = Len(L) + 1 /\ P[Len(L) + 1] = Record(ly, z, n + 1)
        /\ \A m \in 1..Len(L) : P[m] = L[m]
    BY <1>10, <1>11
  <2>2. /\ Len(Q) = Len(P) + 1 /\ Q[Len(P) + 1] = Record(ly + 1, Height(ly), n + 2)
        /\ \A m \in 1..Len(P) : Q[m] = P[m]
    BY <1>9, <1>10, <1>11
  <2> QED
    BY <2>1, <2>2
<1>13. /\ Len(M) = Len(L) + 2
       /\ \A m \in 1..(Len(L) + 2) : M[m].idx = Q[m].idx
       /\ \A m \in 1..(Len(L) + 1) : M[m].extrudes = Q[m].extrudes
  BY <1>6, <1>12 DEF SameRows
<1>14. /\ Len(L) + 1 \in 1..(Len(L) + 2) /\ Len(L) + 2 \in 1..(Len(L) + 2)
       /\ Len(L) + 1 \in 1..(Len(L) + 1)
       /\ \A m \in 1..Len(L) : m \in 1..(Len(L) + 2)
  BY <1>12
<1>15. /\ M[Len(L) + 1].idx = ly /\ M[Len(L) + 2].idx = ly + 1
       /\ ~M[Len(L) + 1].extrudes
  <2>1. /\ M[Len(L) + 1].idx = Q[Len(L) + 1].idx /\ M[Len(L) + 2].idx = Q[Len(L) + 2].idx
        /\ M[Len(L) + 1].extrudes = Q[Len(L) + 1].extrudes
    BY <1>13, <1>14
  <2>2. Q[Len(L) + 1] = Record(ly, z, n + 1) /\ Q[Len(L) + 2] = Record(ly + 1, Height(ly), n + 2)
    BY <1>12
  <2> QED
    BY <2>1, <2>2 DEF Record
<1>16. \A m \in 1..Len(L) : M[m].idx = L[m].idx
  BY <1>12, <1>13, <1>14
<1> QED
  BY <1>12, <1>13, <1>15, <1>16 DEF L, M, n, e

\* A layer.
LEMMA LayerKeeps ==
  ASSUME NEW T, NEW U, NEW st \in Styles, NEW ly \in Nat, NEW c, NEW q,
         Block(T, U, c, q, Height(ly)), Commented(st, T, U, c, ly), Written(st, T, ly),
         ~Run(T).relative
  PROVE  Written(st, U, ly + 1)
<1> DEFINE n == Len(T)
           e == Len(U)
           h == Height(ly)
<1>1. /\ T \in Texts /\ U \in Texts /\ n \in Nat /\ e \in Nat /\ c \in 0..2 /\ q \in Nat
      /\ n + c < q /\ q < e
      /\ DOMAIN T = 1..n /\ DOMAIN U = 1..e
      /\ \A i \in 1..n : U[i] = T[i]
      /\ \A i \in DOMAIN U : i \in 1..n \/ i \in (n + 1)..e
      /\ \A i \in 1..n : i \in DOMAIN U
      /\ U[e].cmd = "extrude"
  BY DEF Block, Texts
<1>2. h \in Nat /\ h > 0 /\ (ly = 0 => h <= 5)
  BY DEF Height
<1>3. /\ c = IF st = "plain" THEN 0 ELSE IF st = "both" THEN 2 ELSE 1
      /\ st \in {"numbers", "both"} => U[n + 1] = Line("layer", ly)
      /\ st = "heights" => U[n + 1] = Line("height", h)
      /\ st = "both" => U[n + 2] = Line("height", h)
  BY DEF Commented
<1> HIDE DEF n, e, h
<1>4. ASSUME NEW i \in (n + 1)..(n + c)
      PROVE  /\ U[i].cmd = "layer" => st \in {"numbers", "both"} /\ U[i].arg = ly /\ i = n + 1
             /\ U[i].cmd = "height" => st \in {"heights", "both"} /\ U[i].arg = h
             /\ U[i].cmd \in {"layer", "height"}
             /\ st = "heights" => U[i].arg = h
  <2>1. i = n + 1 \/ (i = n + 2 /\ st = "both")
    BY <1>1, <1>3
  <2>2. st # "plain"
    BY <1>1, <1>3
  <2> QED
    BY <1>3, <2>1, <2>2 DEF Line, Styles
<1>5. /\ Longer(T, U)
      /\ \A i \in (n + 1)..e :
           /\ U[i].cmd \notin ExtruderModes
           /\ i > n + c => U[i].cmd \notin {"layer", "height"}
           /\ U[i].cmd = "extrude" <=> i = e
      /\ ~Run(U).relative
  BY <1>4, BlockMoves DEF n, e
<1>6. \A i \in (n + 1)..e : i \in (n + 1)..(n + c) \/ i > n + c
  BY <1>1
<1>7. LinesOk(st, U)
  <2> SUFFICES ASSUME NEW i \in DOMAIN U
               PROVE  /\ U[i].cmd = "layer" => st \in {"numbers", "both"}
                      /\ U[i].cmd = "height" => st \in {"heights", "both"} /\ U[i].arg > 0
    BY <1>1 DEF LinesOk
  <2>1. CASE i \in 1..n
    BY <1>1, <2>1 DEF Written, LinesOk
  <2>2. CASE i \in (n + 1)..e
    BY <1>2, <1>4, <1>5, <1>6, <2>2
  <2> QED
    BY <1>1, <2>1, <2>2
<1>8. ModesFirst(U)
  <2> SUFFICES ASSUME NEW i \in DOMAIN U, NEW j \in DOMAIN U,
                      U[i].cmd \in ExtruderModes, U[j].cmd = "extrude"
               PROVE  i < j
    BY DEF ModesFirst
  <2>1. i \in 1..n
    BY <1>1, <1>5
  <2>2. CASE j \in 1..n
    BY <1>1, <2>1, <2>2 DEF Written, ModesFirst
  <2>3. CASE j \in (n + 1)..e
    BY <1>1, <2>1, <2>3
  <2> QED
    BY <1>1, <2>2, <2>3
<1>9. PreambleOk(U, ly + 1)
  BY DEF PreambleOk
<1>10. LayersOk(st, U, ly + 1)
  <2>1. st # "plain" => HasLayerComments(U)
    <3> SUFFICES ASSUME st # "plain" PROVE HasLayerComments(U)
      OBVIOUS
    <3>1. n + 1 \in (n + 1)..(n + c) /\ n + 1 \in DOMAIN U
      BY <1>1, <1>3
    <3> QED
      BY <1>4, <3>1 DEF HasLayerComments
  <2>2. U # <<>>
    BY <1>1
  <2> QED
    BY <1>1, <1>5, <2>1, <2>2 DEF LayersOk, e
<1>11. BeginsOk(st, U)
  <2>1. /\ \A i \in (n + 1)..(n + c) : U[i].cmd \in {"layer", "height"}
        /\ st = "heights" => \A i \in (n + 1)..(n + c) : U[i].arg = h
    BY <1>4
  <2>2. st \in {"numbers", "heights"} => c <= 1
    BY <1>3
  <2> QED
    BY <1>2, <2>1, <2>2, BlockBegins DEF n, h
<1>12. Numbered(st, U, ly + 1)
  <2> SUFFICES ASSUME st = "numbers"
               PROVE  /\ ParsedAt(U, TRUE, e).next = ly + 1
                      /\ \A i \in DOMAIN U : U[i].cmd = "layer" =>
                           U[i].arg = ParsedAt(U, TRUE, i - 1).next
    BY DEF Numbered, e
  <2>1. /\ ParsedAt(T, TRUE, n).next = ly
        /\ \A i \in DOMAIN T : T[i].cmd = "layer" => T[i].arg = ParsedAt(T, TRUE, i - 1).next
    BY DEF Written, Numbered, n
  <2>2. c = 1 /\ U[n + 1] = Line("layer", ly)
    BY <1>3
  <2>3. /\ n \in 0..Len(T) /\ n + 1 \in 1..Len(U) /\ (n + 1) - 1 = n
        /\ n + 1 \in 0..Len(U) /\ e \in (n + 1)..Len(U)
    BY <1>1 DEF n, e
  <2>4. ParsedAt(U, TRUE, n) = ParsedAt(T, TRUE, n)
    BY <1>5, <2>3, LongerSame
  <2>5. ParsedAt(U, TRUE, n + 1).next = ly + 1
    <3>1. CommentsEffect(ParsedAt(U, TRUE, n), ParsedAt(U, TRUE, n + 1), n + 1, U[n + 1])
      BY <1>1, <2>3, CommentsStep
    <3>2. U[n + 1].cmd = "layer" /\ U[n + 1].arg = ly
      BY <2>2 DEF Line
    <3> QED
      BY <3>1, <3>2 DEF CommentsEffect
  <2>6. \A i \in ((n + 1) + 1)..e : U[i].cmd \notin {"layer", "height"}
    BY <1>1, <1>5, <2>2
  <2>7. ParsedAt(U, TRUE, e).next = ly + 1
    BY <1>1, <2>3, <2>5, <2>6, CommentsKeep
  <2>8. ASSUME NEW i \in DOMAIN U, U[i].cmd = "layer"
        PROVE  U[i].arg = ParsedAt(U, TRUE, i - 1).next
    <3>1. CASE i \in 1..n
      <4>1. i - 1 \in 0..Len(T)
        BY <1>1, <3>1 DEF n
      <4>2. ParsedAt(U, TRUE, i - 1) = ParsedAt(T, TRUE, i - 1)
        BY <1>5, <4>1, LongerSame
      <4> QED
        BY <1>1, <2>1, <2>8, <3>1, <4>2
    <3>2. CASE i \in (n + 1)..e
      <4>1. i \in (n + 1)..(n + c)
        BY <1>5, <1>6, <2>8, <3>2
      <4>2. i = n + 1 /\ U[i].arg = ly
        BY <1>4, <2>8, <4>1
      <4> QED
        BY <2>1, <2>3, <2>4, <4>2
    <3> QED
      BY <1>1, <3>1, <3>2
  <2> QED
    BY <2>7, <2>8
<1>13. Doubled(st, U, ly + 1)
  <2> DEFINE L == ParsedAt(T, TRUE, n).layers
             M == ParsedAt(U, TRUE, e).layers
  <2> SUFFICES ASSUME st = "both"
               PROVE  /\ Len(M) >= 2 /\ M[2].idx = 1
                      /\ ly = 0 => Len(M) = 2 /\ ~M[1].extrudes
                      /\ ly >= 1 => Len(M) >= 3 /\ M[3].idx = 1
    <3>1. (ly + 1 = 1 <=> ly = 0) /\ (ly + 1 >= 2 <=> ly >= 1)
      OBVIOUS
    <3> QED
      BY <3>1 DEF Doubled, e
  <2>1. c = 2 /\ n + 2 <= e
    BY <1>1, <1>3
  <2>2. \A i \in (n + 3)..e : U[i].cmd \notin {"layer", "height"}
    BY <1>1, <1>5, <2>1
  <2>3. /\ Len(L) \in Nat /\ Len(M) = Len(L) + 2
        /\ \A m \in 1..Len(L) : M[m].idx = L[m].idx
        /\ M[Len(L) + 1].idx = ly /\ M[Len(L) + 2].idx = ly + 1
        /\ ~M[Len(L) + 1].extrudes
    BY <1>3, <1>5, <2>1, <2>2, BothRows DEF n, e, h
  <2>4. ly = 0 => Len(L) = 0
    <3> SUFFICES ASSUME ly = 0 PROVE Len(L) = 0
      OBVIOUS
    <3>1. \A i \in DOMAIN T : T[i].cmd \notin {"layer", "height"}
      BY DEF Written, PreambleOk
    <3> QED
      BY <1>1, <3>1, NoComments DEF n
  <2>5. /\ ly >= 1 => Len(L) >= 2 /\ L[2].idx = 1
        /\ ly = 1 => Len(L) = 2
        /\ ly >= 2 => Len(L) >= 3 /\ L[3].idx = 1
    BY DEF Written, Doubled, n
  <2> HIDE DEF L, M
  <2>6. CASE ly = 0
    <3>1. Len(L) + 1 = 1 /\ Len(L) + 2 = 2
      BY <2>4, <2>6
    <3> QED
      BY <2>3, <2>6, <3>1
  <2>7. CASE ly = 1
    <3>1. Len(L) = 2 /\ L[2].idx = 1
      <4>1. ly >= 1
        BY <2>7
      <4> QED
        BY <2>5, <2>7, <4>1
    <3>2. Len(M) = 4 /\ M[2].idx = 1 /\ M[3].idx = 1
      <4>1. 2 \in 1..Len(L) /\ Len(L) + 1 = 3 /\ Len(L) + 2 = 4
        BY <3>1
      <4> QED
        BY <2>3, <2>7, <3>1, <4>1
    <3> QED
      BY <2>7, <3>2
  <2>8. CASE ly >= 2
    BY <2>3, <2>5, <2>8
  <2> QED
    BY <2>6, <2>7, <2>8
<1> QED
  BY <1>7, <1>8, <1>9, <1>10, <1>11, <1>12, <1>13 DEF Written

\* A hop in relative coordinates: the nozzle ends where it was.
LEMMA RelativeHop ==
  ASSUME text \in Texts, layer \in Nat, NEW st \in Styles, Written(st, text, layer),
         WriteHop(TRUE)
  PROVE  /\ Longer(text, text') /\ Len(text) < Len(text') /\ layer > 0
         /\ \A i \in (Len(text) + 1)..Len(text') :
              text'[i].cmd \notin {"layer", "height"} \cup ExtruderModes
         /\ text'[Len(text')].cmd = "extrude" /\ ~Run(text').relative
         /\ BeginsOk(st, text')
<1> DEFINE n == Len(text)
           U == text'
<1>1. /\ U \in Texts /\ Len(U) = n + 5 /\ n \in Nat /\ layer > 0
      /\ \A i \in 1..n : U[i] = text[i]
      /\ U[n + 1] = Mode("G91") /\ U[n + 2] = Line("z", 3)
      /\ U[n + 3] = Line("z", -3) /\ U[n + 4] = Mode("G90")
      /\ U[n + 5].cmd = "extrude"
  <2>1. TRUE \in BOOLEAN /\ n \in Nat /\ n + 4 + 1 = n + 5
    BY DEF Texts
  <2>2. layer > 0
    BY DEF WriteHop
  <2> QED
    BY <2>1, <2>2, HopText
<1> HIDE DEF n, U
<1>2. /\ U[n + 1].cmd = "G91" /\ U[n + 2].cmd = "z" /\ U[n + 3].cmd = "z"
      /\ U[n + 4].cmd = "G90"
  BY <1>1 DEF Mode, Line
<1>3. ASSUME NEW i \in (n + 1)..(n + 5)
      PROVE  U[i].cmd \in {"G91", "z", "G90", "extrude"}
  <2>1. i \in {n + 1, n + 2, n + 3, n + 4, n + 5}
    <3>1. n \in Nat
      BY <1>1
    <3> QED
      BY <3>1
  <2>2. U[n + 5].cmd = "extrude"
    BY <1>1
  <2> QED
    BY <1>2, <2>1, <2>2
<1>4. Longer(text, U)
  BY <1>1 DEF Longer, n
<1>5. ~Run(U).relative
  <2>1. /\ n + 4 \in 1..Len(U) /\ n + 5 \in 1..Len(U) /\ (n + 5) - 1 = n + 4
        /\ (n + 4) - 1 \in 0..Len(U) /\ n + 4 \in 0..Len(U)
    BY <1>1
  <2>2. /\ At(U, n + 4) = Executed(At(U, (n + 4) - 1), U[n + 4])
        /\ At(U, n + 5) = Executed(At(U, n + 4), U[n + 5])
        /\ At(U, (n + 4) - 1) \in Machine /\ At(U, n + 4) \in Machine
        /\ At(U, n + 5) = Run(U) /\ U[n + 5] \in Lines /\ U[n + 4] \in Lines
    <3>1. U[n + 5] \in Lines /\ U[n + 4] \in Lines
      BY <1>1, <2>1 DEF Texts
    <3> QED
      BY <1>1, <2>1, <3>1, RunSteps
  <2>3. ~At(U, n + 4).relative
    BY <1>2, <2>2, LineSets
  <2>4. At(U, n + 5).relative = At(U, n + 4).relative
    BY <1>1, <2>2, LineKeeps DEF PositionModes
  <2> QED
    BY <2>2, <2>3, <2>4
<1>6. BeginsOk(st, U)
  <2> SUFFICES ASSUME ZAgree(st, U), NEW i \in DOMAIN U, Begins(st, U, i)
               PROVE  Begun(st, U, i)
    BY DEF BeginsOk
  <2>1. i \in 1..n
    <3>1. SUFFICES ASSUME i \notin 1..n PROVE FALSE
      OBVIOUS
    <3>2. i \in (n + 1)..(n + 5) /\ n + 2 \in DOMAIN U
      BY <1>1, <3>1 DEF Texts
    <3>3. st = "plain"
      BY <1>3, <3>2 DEF Begins
    <3>4. ~At(U, (n + 2) - 1).relative
      BY <1>2, <3>2, <3>3 DEF ZAgree, ZMoves
    <3>5. n + 1 \in 1..Len(U) /\ (n + 1) - 1 \in 0..Len(U) /\ (n + 2) - 1 = n + 1
      BY <1>1
    <3>6. /\ At(U, n + 1) = Executed(At(U, (n + 1) - 1), U[n + 1])
          /\ At(U, (n + 1) - 1) \in Machine /\ U[n + 1] \in Lines
      <4>1. U[n + 1] \in Lines
        BY <1>1, <3>5 DEF Texts
      <4> QED
        BY <1>1, <3>5, <4>1, RunSteps
    <3>7. At(U, n + 1).relative
      BY <1>2, <3>6, LineSets
    <3> QED
      BY <3>4, <3>5, <3>7
  <2>2. \A m \in (Len(text) + 1)..Len(U) :
          U[m].cmd = "extrude" => layer > 0 \/ At(U, m - 1).z <= 5
    BY <1>1
  <2>3. i \in 1..Len(text)
    BY <2>1 DEF n
  <2> QED
    BY <1>4, <2>2, <2>3, OldBegins
<1>7. \A i \in (n + 1)..(n + 5) : U[i].cmd \notin {"layer", "height"} \cup ExtruderModes
  BY <1>3 DEF ExtruderModes
<1>8. Len(text) < Len(U) /\ U[Len(U)].cmd = "extrude"
  BY <1>1 DEF n
<1> QED
  BY <1>1, <1>4, <1>5, <1>6, <1>7, <1>8 DEF n, U

\* A hop.
LEMMA HopKeeps ==
  ASSUME text \in Texts, layer \in Nat, style \in Styles, Written(style, text, layer),
         NEW relative \in BOOLEAN, WriteHop(relative)
  PROVE  Written(style, text', layer)
<1>1. CASE relative = TRUE
  <2>1. WriteHop(TRUE)
    BY <1>1
  <2> QED
    BY <2>1, RelativeHop, InLayerKeeps
<1>2. CASE relative = FALSE
  <2> DEFINE n == Len(text)
             U == text'
             h == Height(layer - 1)
  <2>1. WriteHop(FALSE) /\ layer > 0
    BY <1>2 DEF WriteHop
  <2>2. Block(text, U, 0, n + 1, h)
    BY <2>1, HopBlock
  <2>3. ~Run(text).relative
    BY <2>1 DEF Written, LayersOk
  <2> HIDE DEF U, h
  <2>4. /\ n \in Nat /\ n < Len(U) /\ U[Len(U)].cmd = "extrude"
        /\ \A i \in (n + 1)..(n + 0) : FALSE
        /\ n + 0 = n
    BY <2>2 DEF Block, Texts
  <2>5. /\ Longer(text, U)
        /\ \A i \in (n + 1)..Len(U) : U[i].cmd \notin {"layer", "height"} \cup ExtruderModes
        /\ ~Run(U).relative
    <3>1. /\ Longer(text, U)
          /\ \A i \in (Len(text) + 1)..Len(U) :
               /\ U[i].cmd \notin ExtruderModes
               /\ i > Len(text) + 0 => U[i].cmd \notin {"layer", "height"}
          /\ ~Run(U).relative
      BY <2>2, <2>3, <2>4, BlockMoves
    <3> QED
      BY <2>4, <3>1
  <2>7. BeginsOk(style, U)
    <3>1. /\ layer = 0 => h <= 5
          /\ \A i \in (Len(text) + 1)..(Len(text) + 0) : U[i].cmd \in {"layer", "height"}
          /\ style \in {"numbers", "heights"} => 0 <= 1
          /\ style = "heights" => \A i \in (Len(text) + 1)..(Len(text) + 0) : U[i].arg = h
      BY <2>1, <2>4
    <3> QED
      BY <2>2, <2>3, <3>1, BlockBegins
  <2> QED
    BY <2>1, <2>4, <2>5, <2>7, InLayerKeeps DEF U
<1> QED
  BY <1>1, <1>2

-----------------------------------------------------------------------------
(* The invariant holds.                                                     *)

LEMMA GcodeRows ==
  ASSUME NEW T \in Texts
  PROVE  ParseGcode(T) \in Seq(LayerRow)
<1> DEFINE c == HasLayerComments(T)
<1>1. c \in BOOLEAN /\ Len(T) \in 0..Len(T)
  BY DEF HasLayerComments, Texts
<1>2. c = HasLayerComments(T)
  OBVIOUS
<1> HIDE DEF c
<1>3. ParseGcode(T) = ParsedAt(T, c, Len(T)).layers /\ ParsedAt(T, c, Len(T)) \in Parser
  BY <1>1, <1>2, ParseSteps
<1> QED
  BY <1>3 DEF Parser

LEMMA BuiltOrRefused ==
  \A T, k : BuildResumeGcode(T, k).refused \in BOOLEAN
  BY DEF BuildResumeGcode, Refused

LEMMA InitIInv == Init => IInv
<1> SUFFICES ASSUME Init PROVE IInv
  OBVIOUS
<1>1. text \in Texts /\ Len(text) = 0 /\ DOMAIN text = {} /\ layer = 0
  BY DEF Init, Texts
<1>2. TypeOK
  BY ResumeConstants DEF Init, TypeOK, Refused, LayerRow
<1>3. Written(style, text, layer)
  <2>1. LinesOk(style, text) /\ ModesFirst(text) /\ PreambleOk(text, layer)
        /\ LayersOk(style, text, layer) /\ BeginsOk(style, text) /\ Doubled(style, text, layer)
    BY <1>1 DEF LinesOk, ModesFirst, PreambleOk, LayersOk, BeginsOk, Doubled
  <2>2. Numbered(style, text, layer)
    BY <1>1, NoComments DEF Numbered
  <2> QED
    BY <2>1, <2>2 DEF Written
<1>4. TablesOk
  BY DEF Init, TablesOk
<1> QED
  BY <1>2, <1>3, <1>4 DEF IInv

\* While the slicer writes, nothing is in the tables.
LEMMA SlicingStep ==
  ASSUME IInv, Slicing, UNCHANGED <<style, resets, rows, lastGood, result, second>>,
         Written(style', text', layer'), layer' \in 0..MaxLayers, extras' \in 0..MaxExtras
  PROVE  IInv'
<1>1. lastGood = NoLayer
  BY DEF IInv, TablesOk, Slicing
<1>2. TypeOK'
  <2>1. text' \in Texts
    BY DEF Written, LinesOk
  <2>2. text' \in Seq([cmd : Commands, arg : Int])
    <3>1. text' \in Seq(Lines) /\ Lines \subseteq [cmd : Commands, arg : Int]
      BY <2>1 DEF Texts, Lines
    <3> QED
      BY <3>1, SeqMonotonic
  <2> QED
    BY <2>2 DEF IInv, TypeOK, second
<1>3. TablesOk'
  BY <1>1 DEF TablesOk, Slicing
<1> QED
  BY <1>2, <1>3 DEF IInv

LEMMA NextIInv == IInv /\ [Next]_vars => IInv'
<1> SUFFICES ASSUME IInv, [Next]_vars PROVE IInv'
  OBVIOUS
<1>1. /\ TypeOK /\ Written(style, text, layer) /\ TablesOk
      /\ text \in Texts /\ layer \in Nat /\ style \in Styles /\ resets \in BOOLEAN
      /\ layer \in 0..MaxLayers /\ extras \in 0..MaxExtras
      /\ MaxLayers \in Nat /\ MaxExtras \in Nat
  BY ResumeConstants DEF IInv, TypeOK, Written, LinesOk
<1>2. ASSUME NEW line \in {Mode(m) : m \in PositionModes \cup ExtruderModes}
                            \cup {Line("z", 0), Line("z", 5)},
             WritePreamble(line)
      PROVE  IInv'
  <2>1. /\ line \in Lines
        /\ line.cmd \in {"z"} \cup PositionModes \cup ExtruderModes
        /\ line.cmd \in ZMoves => line.arg \in {0, 5}
    <3>1. CASE line \in {Mode(m) : m \in PositionModes \cup ExtruderModes}
      BY <3>1, LineInLines DEF Mode, Line, PositionModes, ExtruderModes, ZMoves
    <3>2. CASE line \in {Line("z", 0), Line("z", 5)}
      BY <3>2, LineInLines DEF Line, ZMoves
    <3> QED
      BY <3>1, <3>2
  <2>2. Written(style, text, 0)
    BY <1>1, <1>2 DEF WritePreamble
  <2>3. Written(style, Append(text, line), 0)
    BY <1>1, <2>1, <2>2, PreambleKeeps
  <2>4. /\ Slicing /\ UNCHANGED <<style, resets, rows, lastGood, result, second>>
        /\ Written(style', text', layer')
        /\ layer' \in 0..MaxLayers /\ extras' \in 0..MaxExtras
    BY <1>1, <1>2, <2>3 DEF WritePreamble
  <2> QED
    BY <2>4, SlicingStep
<1>3. ASSUME NEW hop \in Hops, NEW move \in ZMoves, WriteLayer(hop, move)
      PROVE  IInv'
  <2>1. ~Run(text).relative
    BY <1>3 DEF WriteLayer
  <2>2. PICK c, q : /\ Block(text, text', c, q, Height(layer))
                    /\ Commented(style, text, text', c, layer)
    BY <1>1, <1>3, LayerBlock
  <2>3. Written(style, text', layer + 1)
    BY <1>1, <2>1, <2>2, LayerKeeps
  <2>4. extras' \in 0..MaxExtras
    <3> DEFINE more == extras + (IF hop = "none" THEN 0 ELSE 1) + (IF move = "z" THEN 0 ELSE 1)
    <3>1. extras' = more /\ more <= MaxExtras
      BY <1>3 DEF WriteLayer
    <3>2. more \in Nat
      BY <1>1
    <3> QED
      BY <1>1, <3>1, <3>2
  <2>5. /\ Slicing /\ UNCHANGED <<style, resets, rows, lastGood, result, second>>
        /\ Written(style', text', layer') /\ layer' \in 0..MaxLayers
    BY <1>1, <1>3, <2>3 DEF WriteLayer
  <2> QED
    BY <2>4, <2>5, SlicingStep
<1>4. ASSUME NEW relative \in BOOLEAN, WriteHop(relative)
      PROVE  IInv'
  <2>1. Written(style, text', layer)
    BY <1>1, <1>4, HopKeeps
  <2>2. /\ Slicing /\ UNCHANGED <<style, resets, rows, lastGood, result, second>>
        /\ Written(style', text', layer')
        /\ layer' \in 0..MaxLayers /\ extras' \in 0..MaxExtras
    BY <1>1, <1>4, <2>1 DEF WriteHop
  <2> QED
    BY <2>2, SlicingStep
<1>5. CASE Encode
  <2>1. /\ Slicing /\ rows' = ParseGcode(text) /\ UNCHANGED <<slicer, lastGood, result, second>>
        /\ \A m, n \in DOMAIN rows' : rows'[m].idx = rows'[n].idx => m = n
    BY <1>5 DEF Encode
  <2>2. lastGood = NoLayer
    BY <1>1, <2>1 DEF TablesOk, Slicing
  <2>3. rows' \in Seq(LayerRow)
    BY <1>1, <2>1, GcodeRows
  <2>4. TypeOK'
    BY <1>1, <2>1, <2>3 DEF TypeOK, LayerRow, slicer, second
  <2>5. TablesOk'
    BY <2>1, <2>2 DEF TablesOk, slicer
  <2> QED
    BY <1>1, <2>1, <2>4, <2>5 DEF IInv, slicer
<1>6. ASSUME NEW n \in DOMAIN rows, Resume(rows[n])
      PROVE  IInv'
  <2>1. /\ rows[n].extrudes /\ lastGood' = rows[n].idx
        /\ result' = BuildResumeGcode(text, rows[n].idx) /\ UNCHANGED <<slicer, rows, second>>
    BY <1>6 DEF Resume
  <2>2. rows[n].idx \in Nat
    <3>1. rows[n] \in LayerRow
      <4>1. rows \in Seq(LayerRow)
        BY <1>1 DEF TypeOK, LayerRow
      <4> QED
        BY <4>1
    <3> QED
      BY <3>1 DEF LayerRow
  <2>3. result'.refused \in BOOLEAN
    BY <2>1, BuiltOrRefused
  <2>4. TypeOK'
    BY <1>1, <2>1, <2>2, <2>3 DEF TypeOK, slicer, second
  <2>5. TablesOk'
    BY <1>1, <2>1 DEF TablesOk, slicer
  <2> QED
    BY <1>1, <2>1, <2>4, <2>5 DEF IInv, slicer
<1>7. ASSUME NEW n \in DOMAIN rows, ResumeAgain(rows[n])
      PROVE  IInv'
  <2>1. /\ lastAgain' = rows[n].idx /\ again' = BuildResumeGcode(ResumeFile, rows[n].idx)
        /\ UNCHANGED <<slicer, rows, lastGood, result>>
    BY <1>7 DEF ResumeAgain
  <2>2. rows[n].idx \in Nat
    <3>1. rows[n] \in LayerRow
      <4>1. rows \in Seq(LayerRow)
        BY <1>1 DEF TypeOK, LayerRow
      <4> QED
        BY <4>1
    <3> QED
      BY <3>1 DEF LayerRow
  <2>3. again'.refused \in BOOLEAN
    BY <2>1, BuiltOrRefused
  <2>4. TypeOK'
    BY <1>1, <2>1, <2>2, <2>3 DEF TypeOK, slicer
  <2>5. TablesOk'
    BY <1>1, <2>1 DEF TablesOk, slicer
  <2> QED
    BY <1>1, <2>1, <2>4, <2>5 DEF IInv, slicer
<1>8. CASE UNCHANGED vars
  <2>1. TypeOK' /\ TablesOk' /\ Written(style, text, layer)'
    BY <1>1, <1>8 DEF TypeOK, TablesOk, vars
  <2> QED
    BY <2>1 DEF IInv
<1> QED
  BY <1>2, <1>3, <1>4, <1>5, <1>6, <1>7, <1>8 DEF Next

\* In every reachable state the text is one the slicer writes, the rows are what
\* parse_gcode finds in it, and what was resumed is build_resume_gcode's answer for it.
THEOREM SpecIInv == Spec => []IInv
<1> QED
  BY InitIInv, NextIInv, PTL DEF Spec

\* Whatever the slicer writes and the print's failures look up: the text stays one
\* of G-code lines, and the layers table one row per layer.
THEOREM ResumeTypeCorrect == Spec => []TypeOK
<1>1. IInv => TypeOK
  BY DEF IInv
<1> QED
  BY <1>1, SpecIInv, PTL

-----------------------------------------------------------------------------
(* The rows of the parser, in a text whose layers are marked by comments of *)
(* one kind, or by Z moves on which the two modules agree.                  *)

\* What a line does to the rows: a mark begins a row, numbered as counted.
Counts(p, q, i, line, marked) ==
  /\ marked => /\ \E z : q.layers = Append(p.layers, Record(p.next, z, i))
               /\ q.next = p.next + 1
               /\ line.cmd = "layer" => line.arg = p.next
  /\ ~marked => /\ q.next = p.next /\ SameRows(p.layers, q.layers)
                /\ line.cmd # "extrude" => SameExtrudes(p.layers, q.layers)

\* A move in a text without comments, in absolute positioning.
LEMMA PlainMove ==
  ASSUME NEW p \in Parser, NEW i \in Nat, NEW line \in Lines, line.cmd = "z", ~p.relative
  PROVE  LET q == ParsedLine(p, FALSE, i, line)
         IN  /\ q.relative = p.relative
             /\ Counts(p, q, i, line, line.arg > p.z)
             /\ q.z = IF line.arg > p.z THEN line.arg ELSE p.z
<1> DEFINE q == ParsedLine(p, FALSE, i, line)
<1>1. line.arg \in Int /\ p.z \in Int
  BY DEF Lines, Parser
<1>2. q = Raised(p, FALSE, i, line.arg)
  BY DEF ParsedLine, PositionModes
<1> HIDE DEF q
<1>3. CASE line.arg > p.z
  <2>1. ~(line.arg <= p.z)
    BY <1>1, <1>3
  <2>2. /\ q.layers = Append(p.layers, Record(p.next, line.arg, i))
        /\ q.next = p.next + 1 /\ q.z = line.arg /\ q.relative = p.relative
    BY <1>2, <2>1 DEF Raised, Parser
  <2> QED
    BY <1>3, <2>2 DEF Counts, q
<1>4. CASE ~(line.arg > p.z)
  <2>1. line.arg <= p.z
    BY <1>1, <1>4
  <2>2. q = p
    BY <1>2, <2>1 DEF Raised
  <2> QED
    BY <1>4, <2>2 DEF Counts, SameRows, SameExtrudes, q
<1> QED
  BY <1>3, <1>4

\* The parser knows the position mode and the highest Z so far.
Tracks(T, i) ==
  LET p == ParsedAt(T, FALSE, i)
  IN  /\ p.relative = At(T, i).relative
      /\ \A j \in 1..i : T[j].cmd = "z" => T[j].arg <= p.z
      /\ p.z = 0 \/ \E j \in 1..i : T[j].cmd = "z" /\ T[j].arg = p.z

LEMMA PlainLine ==
  ASSUME NEW T \in Texts, ZAgree("plain", T), NEW i \in 1..Len(T),
         \A j \in DOMAIN T : T[j].cmd \notin {"layer", "height"}, Tracks(T, i - 1)
  PROVE  /\ Tracks(T, i)
         /\ Counts(ParsedAt(T, FALSE, i - 1), ParsedAt(T, FALSE, i), i, T[i],
                   i \in AscendingZMoves(T))
<1> DEFINE p == ParsedAt(T, FALSE, i - 1)
           q == ParsedAt(T, FALSE, i)
           m == At(T, i - 1)
<1>1. /\ i \in Nat /\ i \in DOMAIN T /\ FALSE \in BOOLEAN /\ i - 1 \in 0..Len(T)
      /\ T[i] \in Lines /\ T[i].cmd \notin {"layer", "height"}
      /\ \A j \in 1..i : j \in 1..(i - 1) \/ j = i
      /\ \A j \in 1..(i - 1) : j \in 1..i /\ j \in DOMAIN T
      /\ \A j \in DOMAIN T : T[j].arg \in Int
  BY DEF Texts, Lines
<1>2. /\ p \in Parser /\ q \in Parser /\ q = ParsedLine(p, FALSE, i, T[i])
  BY <1>1, ParsedTypes
<1>3. m \in Machine /\ At(T, i) = Executed(m, T[i])
  BY <1>1, RunSteps
<1>4. /\ p.relative = m.relative
      /\ \A j \in 1..(i - 1) : T[j].cmd = "z" => T[j].arg <= p.z
      /\ p.z = 0 \/ \E j \in 1..(i - 1) : T[j].cmd = "z" /\ T[j].arg = p.z
  BY DEF Tracks
<1>5. \A j \in DOMAIN T : T[j].cmd \in ZMoves =>
        T[j].cmd = "z" /\ T[j].arg > 0 /\ ~At(T, j - 1).relative
  BY DEF ZAgree
<1>z. \A j \in DOMAIN T : IsZMove(T[j]) <=> T[j].cmd = "z"
  <2> SUFFICES ASSUME NEW j \in DOMAIN T PROVE IsZMove(T[j]) <=> T[j].cmd = "z"
    OBVIOUS
  <2>1. T[j].arg \in Int
    BY <1>1
  <2> QED
    BY <1>5, <2>1 DEF IsZMove, ZMoves
<1> HIDE DEF p, q, m
<1>6. p.z \in Int
  <2>1. p \in Parser
    BY <1>2
  <2> QED
    BY <2>1 DEF Parser
<1>7. i \in AscendingZMoves(T) <=> T[i].cmd = "z" /\ T[i].arg > p.z
  <2>1. ASSUME T[i].cmd = "z", T[i].arg > p.z
        PROVE  i \in AscendingZMoves(T)
    <3>1. \A j \in 1..(i - 1) : IsZMove(T[j]) => T[j].arg < T[i].arg
      BY <1>1, <1>4, <1>6, <1>z, <2>1
    <3>2. IsZMove(T[i])
      BY <1>1, <1>z, <2>1
    <3> QED
      BY <1>1, <3>1, <3>2 DEF AscendingZMoves
  <2>2. ASSUME i \in AscendingZMoves(T)
        PROVE  T[i].cmd = "z" /\ T[i].arg > p.z
    <3>1. T[i].cmd = "z" /\ \A j \in 1..(i - 1) : IsZMove(T[j]) => T[j].arg < T[i].arg
      BY <1>1, <1>z, <2>2 DEF AscendingZMoves
    <3>2. CASE p.z = 0
      BY <1>1, <1>5, <3>1, <3>2 DEF ZMoves
    <3>3. ASSUME NEW j \in 1..(i - 1), T[j].cmd = "z", T[j].arg = p.z
          PROVE  T[i].arg > p.z
      <4>1. IsZMove(T[j])
        BY <1>1, <1>z, <3>3
      <4> QED
        BY <1>1, <1>6, <3>1, <3>3, <4>1
    <3> QED
      BY <1>4, <3>1, <3>2, <3>3
  <2> QED
    BY <2>1, <2>2
<1>8. CASE T[i].cmd = "z"
  <2>1. ~p.relative /\ T[i].arg > 0
    <3>1. ~At(T, i - 1).relative /\ T[i].arg > 0
      BY <1>1, <1>5, <1>8 DEF ZMoves
    <3> QED
      BY <1>4, <3>1 DEF m
  <2>2. /\ q.relative = p.relative /\ Counts(p, q, i, T[i], T[i].arg > p.z)
        /\ q.z = IF T[i].arg > p.z THEN T[i].arg ELSE p.z
    BY <1>1, <1>2, <1>8, <2>1, PlainMove
  <2>3. At(T, i).relative = m.relative
    BY <1>1, <1>3, <1>8, LineKeeps DEF PositionModes
  <2>4. \A j \in 1..i : T[j].cmd = "z" => T[j].arg <= q.z
    BY <1>1, <1>4, <1>6, <2>2
  <2>5. q.z = 0 \/ \E j \in 1..i : T[j].cmd = "z" /\ T[j].arg = q.z
    <3>1. CASE T[i].arg > p.z
      <4>1. i \in 1..i
        BY <1>1
      <4> QED
        BY <1>8, <2>2, <3>1, <4>1
    <3>2. CASE ~(T[i].arg > p.z)
      BY <1>1, <1>4, <2>2, <3>2
    <3> QED
      BY <3>1, <3>2
  <2>6. Tracks(T, i)
    BY <1>4, <2>2, <2>3, <2>4, <2>5 DEF Tracks, q
  <2>7. (T[i].arg > p.z) <=> (i \in AscendingZMoves(T))
    BY <1>7, <1>8
  <2> QED
    BY <2>2, <2>6, <2>7 DEF Counts, p, q
<1>9. CASE T[i].cmd # "z"
  <2>1. /\ q.z = p.z /\ q.relative = At(T, i).relative /\ q.next = p.next
        /\ SameRows(p.layers, q.layers)
        /\ T[i].cmd # "extrude" => SameExtrudes(p.layers, q.layers)
    <3>1. CASE T[i].cmd = "extrude"
      <4>1. At(T, i).relative = m.relative
        BY <1>1, <1>3, <3>1, LineKeeps DEF PositionModes
      <4>2. /\ q.next = p.next /\ q.relative = p.relative /\ q.z = p.z
            /\ SameRows(p.layers, q.layers)
        BY <1>1, <1>2, <3>1, ExtrudeKeeps
      <4> QED
        BY <1>4, <3>1, <4>1, <4>2
    <3>2. CASE T[i].cmd \in PositionModes
      <4>1. /\ q.z = p.z /\ q.next = p.next /\ q.layers = p.layers
            /\ q.relative = (T[i].cmd = "G91")
        BY <1>2, <3>2 DEF ParsedLine, PositionModes, Parser
      <4>2. At(T, i).relative = (T[i].cmd = "G91")
        <5>1. At(T, i) \in Machine
          BY <1>1, <1>3, ExecutedType
        <5>2. At(T, i).relative \in BOOLEAN
          BY <5>1 DEF Machine
        <5> QED
          BY <1>1, <1>3, <3>2, <5>2, LineSets DEF PositionModes
      <4> QED
        BY <4>1, <4>2 DEF SameRows, SameExtrudes
    <3>3. CASE T[i].cmd \notin {"extrude"} \cup PositionModes
      <4>1. q = p
        BY <1>1, <1>2, <1>9, <3>3 DEF ParsedLine
      <4>2. At(T, i).relative = m.relative
        BY <1>1, <1>3, <3>3, LineKeeps
      <4> QED
        BY <1>4, <4>1, <4>2 DEF SameRows, SameExtrudes
    <3> QED
      BY <3>1, <3>2, <3>3
  <2>2. \A j \in 1..i : T[j].cmd = "z" => T[j].arg <= q.z
    BY <1>1, <1>4, <1>9, <2>1
  <2>3. q.z = 0 \/ \E j \in 1..i : T[j].cmd = "z" /\ T[j].arg = q.z
    BY <1>1, <1>4, <2>1
  <2>4. Tracks(T, i)
    BY <2>1, <2>2, <2>3 DEF Tracks, q
  <2>5. i \notin AscendingZMoves(T)
    BY <1>7, <1>9
  <2> QED
    BY <2>1, <2>4, <2>5 DEF Counts, p, q
<1> QED
  BY <1>8, <1>9

LEMMA PlainTracks ==
  ASSUME NEW T \in Texts, ZAgree("plain", T),
         \A j \in DOMAIN T : T[j].cmd \notin {"layer", "height"}
  PROVE  \A i \in 0..Len(T) : Tracks(T, i)
<1> DEFINE S == {i \in 0..Len(T) : Tracks(T, i)}
<1>1. Len(T) \in Nat /\ 0 \in Nat /\ FALSE \in BOOLEAN
  BY DEF Texts
<1>2. 0 \in S
  <2>1. ParsedAt(T, FALSE, 0) = ParserStart /\ At(T, 0) = PowerOn
    BY <1>1, ParseSteps, RunSteps
  <2>2. /\ ParserStart.z = 0 /\ ParserStart.relative = FALSE /\ PowerOn.relative = FALSE
        /\ \A j \in 1..0 : FALSE
    BY DEF ParserStart, PowerOn
  <2>3. Tracks(T, 0)
    BY <2>1, <2>2 DEF Tracks
  <2> QED
    BY <1>1, <2>3
<1>3. ASSUME NEW i \in 0..(Len(T) - 1), i \in S PROVE i + 1 \in S
  <2>1. i + 1 \in 1..Len(T) /\ (i + 1) - 1 = i /\ i + 1 \in 0..Len(T)
    BY <1>1
  <2>2. Tracks(T, (i + 1) - 1)
    BY <1>3, <2>1
  <2>3. Tracks(T, i + 1)
    BY <2>1, <2>2, PlainLine
  <2> QED
    BY <2>1, <2>3
<1> HIDE DEF S
<1>4. 0..Len(T) \subseteq S
  BY <1>1, <1>2, <1>3, IntervalInduction
<1> QED
  BY <1>4 DEF S

\* The lines at which rows begin.
Marks(st, T) ==
  IF st = "numbers" THEN {i \in DOMAIN T : T[i].cmd = "layer"}
  ELSE IF st = "heights" THEN HeightComments(T)
  ELSE AscendingZMoves(T)

LEMMA MarkedLine ==
  ASSUME NEW st \in {"numbers", "heights", "plain"}, NEW T, NEW ly \in Nat, Written(st, T, ly),
         ZAgree(st, T), NEW c \in BOOLEAN, c <=> st # "plain", NEW i \in 1..Len(T)
  PROVE  Counts(ParsedAt(T, c, i - 1), ParsedAt(T, c, i), i, T[i], i \in Marks(st, T))
<1>1. /\ T \in Texts /\ i \in DOMAIN T
      /\ \A j \in DOMAIN T :
           /\ T[j].cmd = "layer" => st \in {"numbers", "both"}
           /\ T[j].cmd = "height" => st \in {"heights", "both"}
  BY DEF Written, LinesOk, Texts
<1>2. CASE st = "plain"
  <2>1. c = FALSE /\ ZAgree("plain", T)
    BY <1>2
  <2>2. \A j \in DOMAIN T : T[j].cmd \notin {"layer", "height"}
    BY <1>1, <1>2
  <2>3. i - 1 \in 0..Len(T)
    BY <1>1 DEF Texts
  <2>4. Counts(ParsedAt(T, FALSE, i - 1), ParsedAt(T, FALSE, i), i, T[i],
               i \in AscendingZMoves(T))
    BY <1>1, <2>1, <2>2, <2>3, PlainTracks, PlainLine
  <2> QED
    BY <1>2, <2>1, <2>4 DEF Marks
<1>3. CASE st # "plain"
  <2> DEFINE p == ParsedAt(T, TRUE, i - 1)
             q == ParsedAt(T, TRUE, i)
  <2>1. c = TRUE
    BY <1>3
  <2>2. CommentsEffect(p, q, i, T[i])
    BY <1>1, CommentsStep
  <2>3. st = "numbers" => (T[i].cmd = "layer" => T[i].arg = p.next)
    BY <1>1 DEF Written, Numbered
  <2> SUFFICES Counts(p, q, i, T[i], i \in Marks(st, T))
    BY <2>1
  <2> HIDE DEF p, q
  <2>4. CASE st = "numbers"
    <3>1. i \in Marks(st, T) <=> T[i].cmd = "layer"
      BY <1>1, <2>4 DEF Marks
    <3>2. T[i].cmd # "height"
      BY <1>1, <2>4
    <3>3. CASE T[i].cmd = "layer"
      <4>1. q.layers = Append(p.layers, Record(p.next, p.z, i)) /\ q.next = p.next + 1
        BY <2>2, <2>3, <2>4, <3>3 DEF CommentsEffect
      <4> QED
        BY <2>3, <2>4, <3>1, <3>3, <4>1 DEF Counts
    <3>4. CASE T[i].cmd # "layer"
      BY <2>2, <3>1, <3>2, <3>4 DEF Counts, CommentsEffect
    <3> QED
      BY <3>3, <3>4
  <2>5. CASE st = "heights"
    <3>1. i \in Marks(st, T) <=> T[i].cmd = "height"
      BY <1>1, <2>5 DEF Marks, HeightComments
    <3>2. T[i].cmd # "layer"
      BY <1>1, <2>5
    <3>3. CASE T[i].cmd = "height"
      <4>1. q.layers = Append(p.layers, Record(p.next, T[i].arg, i)) /\ q.next = p.next + 1
        BY <2>2, <3>3 DEF CommentsEffect
      <4> QED
        BY <3>1, <3>2, <3>3, <4>1 DEF Counts
    <3>4. CASE T[i].cmd # "height"
      BY <2>2, <3>1, <3>2, <3>4 DEF Counts, CommentsEffect
    <3> QED
      BY <3>3, <3>4
  <2> QED
    BY <1>3, <2>4, <2>5
<1> QED
  BY <1>2, <1>3

\* Rows L, numbered in the order of the lines K at which they begin, up to line i;
\* a row that extrudes does so before the next begins.
Ranked(T, K, L, next, i) ==
  /\ next = Len(L)
  /\ \A m \in 1..Len(L) :
       /\ L[m].idx = m - 1 /\ L[m].at \in K /\ L[m].at \in 1..i
       /\ T[L[m].at].cmd = "layer" => T[L[m].at].arg = m - 1
       /\ L[m].extrudes => \E j \in 1..i : /\ T[j].cmd = "extrude"
                                           /\ m < Len(L) => j < L[m + 1].at
  /\ \A m, k \in 1..Len(L) : m < k => L[m].at < L[k].at
  /\ \A j \in 1..i : j \in K => \E m \in 1..Len(L) : L[m].at = j

LEMMA RankedMark ==
  ASSUME NEW T, NEW K, NEW L \in Seq(LayerRow), NEW next, NEW i \in Nat, i > 0,
         Ranked(T, K, L, next, i - 1), i \in K, NEW z,
         T[i].cmd = "layer" => T[i].arg = next
  PROVE  Ranked(T, K, Append(L, Record(next, z, i)), next + 1, i)
<1> DEFINE M == Append(L, Record(next, z, i))
           n == Len(L)
<1>1. /\ n \in Nat /\ next = n /\ Len(M) = n + 1
      /\ \A m \in 1..n : M[m] = L[m]
      /\ M[n + 1].idx = n /\ M[n + 1].at = i /\ ~M[n + 1].extrudes
      /\ \A m \in 1..(n + 1) : m \in 1..n \/ m = n + 1
      /\ \A j \in 1..i : j \in 1..(i - 1) \/ j = i
      /\ \A j \in 1..(i - 1) : j \in 1..i
      /\ n + 1 \in 1..(n + 1) /\ \A m \in 1..n : m \in 1..(n + 1)
  BY DEF Ranked, Record
<1>2. /\ \A m \in 1..n :
           /\ L[m].idx = m - 1 /\ L[m].at \in K /\ L[m].at \in 1..(i - 1)
           /\ T[L[m].at].cmd = "layer" => T[L[m].at].arg = m - 1
           /\ L[m].extrudes => \E j \in 1..(i - 1) : /\ T[j].cmd = "extrude"
                                                     /\ m < n => j < L[m + 1].at
      /\ \A m, k \in 1..n : m < k => L[m].at < L[k].at
      /\ \A j \in 1..(i - 1) : j \in K => \E m \in 1..n : L[m].at = j
  BY DEF Ranked
<1> HIDE DEF M, n
<1>3. ASSUME NEW m \in 1..(n + 1)
      PROVE  /\ M[m].idx = m - 1 /\ M[m].at \in K /\ M[m].at \in 1..i
             /\ T[M[m].at].cmd = "layer" => T[M[m].at].arg = m - 1
  <2>1. CASE m \in 1..n
    BY <1>1, <1>2, <2>1
  <2>2. CASE m = n + 1
    BY <1>1, <2>2
  <2> QED
    BY <1>1, <2>1, <2>2
<1>4. ASSUME NEW m \in 1..(n + 1), M[m].extrudes
      PROVE  \E j \in 1..i : T[j].cmd = "extrude" /\ (m < n + 1 => j < M[m + 1].at)
  <2>1. m \in 1..n /\ L[m].extrudes
    BY <1>1, <1>4
  <2>2. PICK j \in 1..(i - 1) : T[j].cmd = "extrude" /\ (m < n => j < L[m + 1].at)
    BY <1>2, <2>1
  <2>3. CASE m < n
    <3>1. m + 1 \in 1..n
      BY <1>1, <2>1, <2>3
    <3> QED
      BY <1>1, <2>2, <2>3, <3>1
  <2>4. CASE m = n
    <3>1. j < i
      BY <2>2
    <3> QED
      BY <1>1, <2>2, <2>4, <3>1
  <2> QED
    BY <1>1, <2>1, <2>3, <2>4
<1>5. ASSUME NEW m \in 1..(n + 1), NEW k \in 1..(n + 1), m < k
      PROVE  M[m].at < M[k].at
  <2>1. m \in 1..n
    BY <1>1, <1>5
  <2>2. CASE k \in 1..n
    BY <1>1, <1>2, <1>5, <2>1, <2>2
  <2>3. CASE k = n + 1
    <3>1. M[m].at \in 1..(i - 1) /\ M[k].at = i
      BY <1>1, <1>2, <2>1, <2>3
    <3> QED
      BY <3>1
  <2> QED
    BY <1>1, <2>2, <2>3
<1>6. ASSUME NEW j \in 1..i, j \in K
      PROVE  \E m \in 1..(n + 1) : M[m].at = j
  <2>1. CASE j \in 1..(i - 1)
    <3>1. PICK m \in 1..n : L[m].at = j
      BY <1>2, <1>6, <2>1
    <3> QED
      BY <1>1, <3>1
  <2>2. CASE j = i
    BY <1>1, <2>2
  <2> QED
    BY <1>1, <2>1, <2>2
<1>7. Ranked(T, K, M, n + 1, i)
  BY <1>1, <1>3, <1>4, <1>5, <1>6 DEF Ranked
<1> QED
  BY <1>1, <1>7 DEF M

LEMMA RankedOther ==
  ASSUME NEW T, NEW K, NEW L \in Seq(LayerRow), NEW M, NEW next, NEW i \in Nat, i > 0,
         Ranked(T, K, L, next, i - 1), i \notin K, SameRows(L, M),
         T[i].cmd # "extrude" => SameExtrudes(L, M)
  PROVE  Ranked(T, K, M, next, i)
<1> DEFINE n == Len(L)
<1>1. /\ n \in Nat /\ next = n /\ Len(M) = n
      /\ \A m \in 1..n : M[m].idx = L[m].idx /\ M[m].at = L[m].at
      /\ \A m \in 1..n : m < n => M[m].extrudes = L[m].extrudes
      /\ T[i].cmd # "extrude" => \A m \in 1..n : M[m].extrudes = L[m].extrudes
      /\ \A j \in 1..i : j \in 1..(i - 1) \/ j = i
      /\ \A j \in 1..(i - 1) : j \in 1..i
      /\ i \in 1..i
  <2>1. n \in Nat /\ next = n
    BY DEF Ranked
  <2>2. /\ Len(M) = n
        /\ \A m \in 1..n : M[m].idx = L[m].idx /\ M[m].at = L[m].at
        /\ \A m \in 1..n : m < n => M[m].extrudes = L[m].extrudes
    BY DEF SameRows
  <2>3. T[i].cmd # "extrude" => \A m \in 1..n : M[m].extrudes = L[m].extrudes
    BY DEF SameExtrudes
  <2> HIDE DEF n
  <2> QED
    BY <2>1, <2>2, <2>3
<1>2. /\ \A m \in 1..n :
           /\ L[m].idx = m - 1 /\ L[m].at \in K /\ L[m].at \in 1..(i - 1)
           /\ T[L[m].at].cmd = "layer" => T[L[m].at].arg = m - 1
           /\ L[m].extrudes => \E j \in 1..(i - 1) : /\ T[j].cmd = "extrude"
                                                     /\ m < n => j < L[m + 1].at
      /\ \A m, k \in 1..n : m < k => L[m].at < L[k].at
      /\ \A j \in 1..(i - 1) : j \in K => \E m \in 1..n : L[m].at = j
  BY DEF Ranked
<1> HIDE DEF n
<1>3. \A m \in 1..n :
        /\ M[m].idx = m - 1 /\ M[m].at \in K /\ M[m].at \in 1..i
        /\ T[M[m].at].cmd = "layer" => T[M[m].at].arg = m - 1
  BY <1>1, <1>2
<1>4. ASSUME NEW m \in 1..n, M[m].extrudes
      PROVE  \E j \in 1..i : T[j].cmd = "extrude" /\ (m < n => j < M[m + 1].at)
  <2>1. CASE L[m].extrudes
    <3>1. PICK j \in 1..(i - 1) : T[j].cmd = "extrude" /\ (m < n => j < L[m + 1].at)
      BY <1>2, <2>1
    <3>2. m < n => m + 1 \in 1..n
      BY <1>1
    <3> QED
      BY <1>1, <3>1, <3>2
  <2>2. CASE ~L[m].extrudes
    <3>1. T[i].cmd = "extrude" /\ ~(m < n)
      BY <1>1, <1>4, <2>2
    <3> QED
      BY <1>1, <3>1
  <2> QED
    BY <2>1, <2>2
<1>5. \A m, k \in 1..n : m < k => M[m].at < M[k].at
  BY <1>1, <1>2
<1>6. ASSUME NEW j \in 1..i, j \in K PROVE \E m \in 1..n : M[m].at = j
  <2>1. j \in 1..(i - 1)
    BY <1>1, <1>6
  <2>2. PICK m \in 1..n : L[m].at = j
    BY <1>2, <1>6, <2>1
  <2> QED
    BY <1>1, <2>2
<1> QED
  BY <1>1, <1>3, <1>4, <1>5, <1>6 DEF Ranked

\* So are the rows of the whole text.
LEMMA RowsRanked ==
  ASSUME NEW st \in {"numbers", "heights", "plain"}, NEW T, NEW ly \in Nat, Written(st, T, ly),
         ZAgree(st, T), NEW c \in BOOLEAN, c <=> st # "plain"
  PROVE  LET p == ParsedAt(T, c, Len(T))
         IN  p \in Parser /\ Ranked(T, Marks(st, T), p.layers, p.next, Len(T))
<1> DEFINE K == Marks(st, T)
           P(i) == ParsedAt(T, c, i)
           S == {i \in 0..Len(T) : Ranked(T, K, P(i).layers, P(i).next, i)}
<1>1. T \in Texts /\ Len(T) \in Nat /\ 0 \in Nat
  BY DEF Written, LinesOk, Texts
<1>2. /\ \A i \in 0..Len(T) : P(i) \in Parser
      /\ P(0) = ParserStart
  BY <1>1, ParseSteps
<1>3. \A i \in 1..Len(T) : Counts(P(i - 1), P(i), i, T[i], i \in K)
  BY MarkedLine
<1> HIDE DEF P, K
<1>4. 0 \in S
  BY <1>1, <1>2 DEF Ranked, ParserStart
<1>5. ASSUME NEW i \in 0..(Len(T) - 1), i \in S PROVE i + 1 \in S
  <2> DEFINE L == P(i).layers
             M == P(i + 1).layers
  <2>1. /\ i + 1 \in 1..Len(T) /\ (i + 1) - 1 = i /\ i + 1 \in 0..Len(T)
        /\ i \in 0..Len(T) /\ i + 1 \in Nat /\ i + 1 > 0
    BY <1>1
  <2>2. L \in Seq(LayerRow) /\ Ranked(T, K, L, P(i).next, (i + 1) - 1)
    BY <1>2, <1>5, <2>1 DEF Parser
  <2>3. Counts(P(i), P(i + 1), i + 1, T[i + 1], i + 1 \in K)
    BY <1>3, <2>1
  <2>4. CASE i + 1 \in K
    <3>1. PICK z : M = Append(L, Record(P(i).next, z, i + 1))
      BY <2>3, <2>4 DEF Counts
    <3>2. P(i + 1).next = P(i).next + 1
          /\ (T[i + 1].cmd = "layer" => T[i + 1].arg = P(i).next)
      BY <2>3, <2>4 DEF Counts
    <3> HIDE DEF L, M
    <3>3. Ranked(T, K, M, P(i + 1).next, i + 1)
      BY <2>1, <2>2, <2>4, <3>1, <3>2, RankedMark
    <3> QED
      BY <2>1, <3>3 DEF M
  <2>5. CASE i + 1 \notin K
    <3>1. /\ P(i + 1).next = P(i).next /\ SameRows(L, M)
          /\ T[i + 1].cmd # "extrude" => SameExtrudes(L, M)
      BY <2>3, <2>5 DEF Counts
    <3> HIDE DEF L, M
    <3>2. Ranked(T, K, M, P(i + 1).next, i + 1)
      BY <2>1, <2>2, <2>5, <3>1, RankedOther
    <3> QED
      BY <2>1, <3>2 DEF M
  <2> QED
    BY <2>4, <2>5
<1> HIDE DEF S
<1>6. 0..Len(T) \subseteq S
  BY <1>1, <1>4, <1>5, IntervalInduction
<1>7. Len(T) \in S /\ Len(T) \in 0..Len(T)
  BY <1>1, <1>6
<1> QED
  BY <1>2, <1>7 DEF S, P, K

-----------------------------------------------------------------------------
(* Where build_resume_gcode begins.                                         *)

LEMMA NthRanked ==
  ASSUME NEW T, NEW K, NEW L \in Seq(LayerRow), NEW next, NEW e \in Nat,
         Ranked(T, K, L, next, e), K \subseteq 1..e, NEW k \in 0..(Len(L) - 1)
  PROVE  Cardinality(K) = Len(L) /\ Nth(K, k) = L[k + 1].at
<1> DEFINE n == Len(L)
           f == [m \in 1..n |-> L[m].at]
<1>1. n \in Nat /\ n \in 0..n /\ k \in 0..n /\ k + 1 \in 1..n
  OBVIOUS
<1>2. /\ \A m \in 1..n : L[m].at \in K /\ L[m].at \in 1..e
      /\ \A m, l \in 1..n : m < l => L[m].at < L[l].at
      /\ \A j \in 1..e : j \in K => \E m \in 1..n : L[m].at = j
  BY DEF Ranked
<1>3. f \in [1..n -> Nat] /\ \A m \in 1..n : f[m] = L[m].at
  BY <1>2
<1> HIDE DEF f, n
<1>4. \A m, l \in 1..n : m < l => f[m] < f[l]
  BY <1>2, <1>3
<1>5. \A m \in 0..n : Cardinality({f[i] : i \in 1..m}) = m
  BY <1>1, <1>3, <1>4, IncreasingCounted
<1>6. K = {f[i] : i \in 1..n}
  <2>1. \A j \in K : \E m \in 1..n : f[m] = j
    BY <1>2, <1>3
  <2>2. \A m \in 1..n : f[m] \in K
    BY <1>2, <1>3
  <2> QED
    BY <2>1, <2>2
<1>7. ASSUME NEW m \in 1..n
      PROVE  Cardinality({j \in K : j < f[m]}) = m - 1
  <2>1. ASSUME NEW i \in 1..n PROVE f[i] < f[m] <=> i \in 1..(m - 1)
    <3>1. f[i] \in Nat /\ f[m] \in Nat
      BY <1>3
    <3>2. CASE i < m
      BY <1>4, <3>2
    <3>3. CASE i = m
      BY <3>1, <3>3
    <3>4. CASE i > m
      <4>1. f[m] < f[i]
        BY <1>4, <3>4
      <4> QED
        BY <3>1, <3>4, <4>1
    <3> QED
      BY <1>1, <3>2, <3>3, <3>4
  <2>2. \A i \in 1..(m - 1) : i \in 1..n
    BY <1>1
  <2>3. {j \in K : j < f[m]} = {f[i] : i \in 1..(m - 1)}
    BY <1>6, <2>1, <2>2
  <2>4. m - 1 \in 0..n
    BY <1>1
  <2> QED
    BY <1>5, <2>3, <2>4
<1>8. f[k + 1] \in K /\ Cardinality({j \in K : j < f[k + 1]}) = k
  <2>1. (k + 1) - 1 = k
    BY <1>1
  <2> QED
    BY <1>1, <1>6, <1>7, <2>1
<1>9. \A x \in K : Cardinality({j \in K : j < x}) = k => x = f[k + 1]
  <2> SUFFICES ASSUME NEW x \in K, Cardinality({j \in K : j < x}) = k PROVE x = f[k + 1]
    OBVIOUS
  <2>1. PICK m \in 1..n : x = f[m]
    BY <1>6
  <2>2. m - 1 = k
    BY <1>7, <2>1
  <2>3. m = k + 1
    BY <1>1, <2>2
  <2> QED
    BY <2>1, <2>3
<1>10. Nth(K, k) = f[k + 1]
  BY <1>8, <1>9 DEF Nth
<1>11. Cardinality(K) = n
  BY <1>1, <1>5, <1>6
<1> QED
  BY <1>1, <1>3, <1>10, <1>11 DEF n

LEMMA MarksBegin ==
  ASSUME NEW st \in {"numbers", "heights", "plain"}, NEW T \in Texts
  PROVE  /\ Marks(st, T) \subseteq 1..Len(T)
         /\ \A i \in Marks(st, T) : Begins(st, T, i)
  BY DEF Marks, Begins, HeightComments, AscendingZMoves, IsZMove, Texts

\* _find_layer_start_line finds the lines at which the parser's rows begin.
LEMMA LayersFound ==
  ASSUME NEW st \in {"numbers", "heights", "plain"}, NEW T \in Texts, LinesOk(st, T),
         NEW L \in Seq(LayerRow), NEW next, Ranked(T, Marks(st, T), L, next, Len(T)),
         NEW k \in 0..(Len(L) - 1)
  PROVE  FindLayerStartLine(T, k) = L[k + 1].at
<1> DEFINE K == Marks(st, T)
<1>1. Len(T) \in Nat /\ DOMAIN T = 1..Len(T) /\ K \subseteq 1..Len(T) /\ k + 1 \in 1..Len(L)
      /\ k \in Nat /\ Len(L) \in Nat /\ Len(L) > k
  BY MarksBegin DEF Texts
<1>2. Cardinality(K) = Len(L) /\ Nth(K, k) = L[k + 1].at
  BY <1>1, NthRanked
<1>3. /\ \A m \in 1..Len(L) :
           /\ L[m].at \in K /\ L[m].at \in 1..Len(T)
           /\ T[L[m].at].cmd = "layer" => T[L[m].at].arg = m - 1
      /\ \A j \in 1..Len(T) : j \in K => \E m \in 1..Len(L) : L[m].at = j
  BY DEF Ranked
<1>4. CASE st = "numbers"
  <2>1. K = {i \in DOMAIN T : T[i].cmd = "layer"}
    BY <1>4 DEF Marks
  <2> HIDE DEF K
  <2>2. L[k + 1].at \in LayerComments(T, k)
    <3>1. L[k + 1].at \in DOMAIN T /\ T[L[k + 1].at].cmd = "layer" /\ T[L[k + 1].at].arg = k
          /\ T[L[k + 1].at] \in Lines
      BY <1>1, <1>3, <2>1 DEF Texts
    <3> QED
      BY <3>1 DEF LayerComments, Line, Lines
  <2>3. ASSUME NEW i \in LayerComments(T, k) PROVE i = L[k + 1].at
    <3>1. i \in 1..Len(T) /\ T[i].cmd = "layer" /\ T[i].arg = k
      BY <1>1 DEF LayerComments, Line
    <3>2. PICK m \in 1..Len(L) : L[m].at = i
      BY <1>1, <1>3, <2>1, <3>1
    <3>3. m - 1 = k
      BY <1>3, <3>1, <3>2
    <3> QED
      BY <3>2, <3>3
  <2>4. LayerComments(T, k) = {L[k + 1].at}
    BY <2>2, <2>3
  <2>5. LayerComments(T, k) \in SUBSET Nat /\ LayerComments(T, k) # {}
    <3>1. L[k + 1].at \in Nat
      BY <1>1, <1>3
    <3> QED
      BY <2>4, <3>1
  <2>6. Min(LayerComments(T, k)) \in LayerComments(T, k)
    BY <2>5, MinIsLeast
  <2> QED
    BY <2>4, <2>5, <2>6 DEF FindLayerStartLine
<1>5. CASE st # "numbers"
  <2>1. LayerComments(T, k) = {}
    BY <1>5 DEF LinesOk, LayerComments, Line
  <2>2. CASE st = "heights"
    <3>1. K = HeightComments(T)
      BY <2>2 DEF Marks
    <3> HIDE DEF K
    <3> QED
      BY <1>1, <1>2, <2>1, <3>1 DEF FindLayerStartLine
  <2>3. CASE st = "plain"
    <3>1. K = AscendingZMoves(T)
      BY <2>3 DEF Marks
    <3> HIDE DEF K
    <3>2. HeightComments(T) = {}
      BY <2>3 DEF LinesOk, HeightComments
    <3>3. ~(Cardinality(HeightComments(T)) > k)
      <4>1. Cardinality(HeightComments(T)) = 0
        BY <3>2, FS_EmptySet
      <4> QED
        BY <1>1, <4>1
    <3> QED
      BY <1>1, <1>2, <2>1, <3>1, <3>3 DEF FindLayerStartLine
  <2> QED
    BY <1>5, <2>2, <2>3
<1> QED
  BY <1>4, <1>5

\* _z_of_layer finds the height a layer settles at.
LEMMA HeightFound ==
  ASSUME NEW st \in {"numbers", "heights", "plain"}, NEW T \in Texts, LinesOk(st, T),
         NEW i \in 1..Len(T), Begins(st, T, i), NEW k \in Nat, Tells(st, T, i, k)
  PROVE  /\ Min(Telling(T, i)) = IF st = "heights" THEN i ELSE k
         /\ ZOfLayer(T, i) = IF st = "heights" THEN T[i].arg ELSE T[k].arg
         /\ ZOfLayer(T, i) > 0
<1> DEFINE W == Telling(T, i)
<1>1. /\ k \in i..(i + 3) /\ k \in DOMAIN T /\ T[k].cmd \in ZMoves /\ T[k].arg > 0
      /\ \A j \in i..(k - 1) : T[j].cmd \in {"layer", "height", "G92", "G91"}
  BY DEF Tells
<1>2. /\ i \in Nat /\ ZLookahead \in Nat /\ ZLookahead >= 4 /\ T[k].arg \in Int
      /\ i \in DOMAIN T
  BY <1>1, ResumeConstants DEF Texts, Lines
<1>3. /\ T[i].cmd = "height" => T[i].arg > 0
      /\ \A j \in DOMAIN T : T[j].cmd = "height" => st = "heights"
  BY <1>2 DEF LinesOk
<1>4. k \in W
  <2>1. k \in i..(i + ZLookahead - 1)
    BY <1>1, <1>2
  <2> QED
    BY <1>1, <1>2, <2>1 DEF IsZMove, Telling
<1>5. W \in SUBSET Nat
  BY <1>2 DEF Telling
<1>6. ZOfLayer(T, i) = T[Min(W)].arg
  BY <1>4 DEF ZOfLayer
<1>7. \A j \in W : j \in DOMAIN T /\ i <= j /\ (T[j].cmd = "height" \/ T[j].cmd \in ZMoves)
  BY <1>2 DEF IsZMove, Telling
<1>w. T[i].cmd = "height" => i \in W
  <2>1. i \in i..(i + ZLookahead - 1)
    BY <1>2
  <2> QED
    BY <1>2, <2>1 DEF Telling
<1> HIDE DEF W
<1>8. Min(W) \in W /\ \A j \in W : Min(W) <= j
  BY <1>4, <1>5, MinIsLeast
<1>9. CASE st = "heights"
  <2>1. T[i].cmd = "height"
    BY <1>9 DEF Begins
  <2>2. i \in W
    BY <1>w, <2>1
  <2>3. Min(W) = i
    <3>1. Min(W) \in Nat /\ i <= Min(W)
      BY <1>5, <1>7, <1>8
    <3>2. Min(W) <= i
      BY <1>8, <2>2
    <3> QED
      BY <1>2, <3>1, <3>2
  <2>4. ZOfLayer(T, i) = T[i].arg /\ T[i].arg > 0
    BY <1>3, <1>6, <2>1, <2>3
  <2> QED
    BY <1>9, <2>3, <2>4 DEF W
<1>10. CASE st # "heights"
  <2>1. Min(W) \in Nat /\ i <= Min(W) /\ Min(W) <= k /\ T[Min(W)].cmd \in ZMoves
    BY <1>3, <1>4, <1>5, <1>7, <1>8, <1>10
  <2>2. ~(Min(W) \in i..(k - 1))
    BY <1>1, <2>1 DEF ZMoves
  <2>3. Min(W) = k
    BY <1>1, <1>2, <2>1, <2>2
  <2> QED
    BY <1>1, <1>6, <1>10, <2>3 DEF W
<1> QED
  BY <1>9, <1>10

\* Nothing is printed before the first layer, so no row says so.
LEMMA NothingPrinted ==
  ASSUME NEW T \in Texts,
         \A i \in DOMAIN T : T[i].cmd \notin {"layer", "height", "extrude"}
  PROVE  \A m \in DOMAIN ParseGcode(T) : ~ParseGcode(T)[m].extrudes
<1> DEFINE P(i) == ParsedAt(T, FALSE, i)
           Dry(i) == \A m \in DOMAIN P(i).layers : ~P(i).layers[m].extrudes
           S == {i \in 0..Len(T) : Dry(i)}
<1>1. Len(T) \in Nat /\ 0 \in Nat /\ FALSE \in BOOLEAN /\ DOMAIN T = 1..Len(T)
  BY DEF Texts
<1>2. ParseGcode(T) = P(Len(T)).layers /\ P(0) = ParserStart
  <2>1. FALSE = HasLayerComments(T)
    BY DEF HasLayerComments
  <2> QED
    BY <1>1, <2>1, ParseSteps
<1>3. 0 \in S
  <2>1. DOMAIN P(0).layers = {}
    <3>1. Len(ParserStart.layers) = 0
      BY DEF ParserStart
    <3>2. ParserStart.layers \in Seq(LayerRow)
      BY ParserStartType DEF Parser
    <3>3. DOMAIN ParserStart.layers = {}
      BY <3>1, <3>2
    <3> QED
      BY <1>2, <3>3
  <2>2. Dry(0)
    BY <2>1
  <2> HIDE DEF Dry
  <2> QED
    BY <1>1, <2>2
<1>4. ASSUME NEW i \in 0..(Len(T) - 1), i \in S PROVE i + 1 \in S
  <2> DEFINE p == P(i)
             q == P(i + 1)
             line == T[i + 1]
  <2>1. i + 1 \in 1..Len(T) /\ (i + 1) - 1 = i /\ i + 1 \in 0..Len(T)
    BY <1>1
  <2>2. /\ p \in Parser /\ q = ParsedLine(p, FALSE, i + 1, line) /\ line \in Lines
    BY <1>1, <2>1, ParsedTypes
  <2>3. line.cmd \notin {"layer", "height", "extrude"}
    BY <1>1, <2>1
  <2>4. Dry(i)
    BY <1>4
  <2> HIDE DEF p, q, line
  <2>5. p.layers \in Seq(LayerRow)
    BY <2>2 DEF Parser
  <2>6. q.layers = p.layers \/ \E z : q.layers = Append(p.layers, Record(p.next, z, i + 1))
    <3>1. CASE line.cmd = "z"
      <4>1. q = Raised(p, FALSE, i + 1, IF p.relative THEN p.z + line.arg ELSE line.arg)
        BY <2>2, <3>1 DEF ParsedLine, PositionModes
      <4>2. \A z : Raised(p, FALSE, i + 1, z).layers = p.layers
                   \/ Raised(p, FALSE, i + 1, z).layers = Append(p.layers, Record(p.next, z, i + 1))
        BY <2>2 DEF Raised, Parser
      <4> QED
        BY <4>1, <4>2
    <3>2. CASE line.cmd # "z"
      BY <2>2, <2>3, <3>2 DEF ParsedLine, PositionModes, Parser
    <3> QED
      BY <3>1, <3>2
  <2>7. \A m \in DOMAIN p.layers : ~p.layers[m].extrudes
    BY <2>4 DEF p
  <2>8. \A m \in DOMAIN q.layers : ~q.layers[m].extrudes
    <3>1. CASE q.layers = p.layers
      BY <2>7, <3>1
    <3>2. ASSUME NEW z, q.layers = Append(p.layers, Record(p.next, z, i + 1))
          PROVE  \A m \in DOMAIN q.layers : ~q.layers[m].extrudes
      <4> DEFINE n == Len(p.layers)
      <4>1. /\ DOMAIN q.layers = 1..(n + 1) /\ DOMAIN p.layers = 1..n /\ n \in Nat
            /\ q.layers[n + 1] = Record(p.next, z, i + 1)
            /\ \A m \in 1..n : q.layers[m] = p.layers[m]
        BY <2>5, <3>2
      <4>2. \A m \in 1..(n + 1) : m \in 1..n \/ m = n + 1
        BY <4>1
      <4> HIDE DEF n
      <4> QED
        BY <2>7, <4>1, <4>2 DEF Record
    <3> QED
      BY <2>6, <3>1, <3>2
  <2>9. Dry(i + 1)
    BY <2>8 DEF q
  <2> HIDE DEF Dry
  <2> QED
    BY <2>1, <2>9
<1> HIDE DEF S
<1>5. 0..Len(T) \subseteq S
  BY <1>1, <1>3, <1>4, IntervalInduction
<1>6. Len(T) \in S
  BY <1>1, <1>5
<1> QED
  BY <1>2, <1>6 DEF S

\* The rows that can be resumed after: the last good one is found, and another follows.
LEMMA ResumedRows ==
  ASSUME IInv, lastGood # NoLayer, ZMovesAgree, RowOf(lastGood) < Len(rows)
  PROVE  /\ style \in {"numbers", "heights", "plain"} /\ layer > 0 /\ ZAgree(style, text)
         /\ RowOf(lastGood) \in 1..(Len(rows) - 1) /\ rows[RowOf(lastGood)].extrudes
         /\ lastGood = rows[RowOf(lastGood)].idx
         /\ result = BuildResumeGcode(text, lastGood)
         /\ rows \in Seq(LayerRow)
         /\ \E next : Ranked(text, Marks(style, text), rows, next, Len(text))
<1> DEFINE n == RowOf(lastGood)
           c == style # "plain"
<1>1. /\ text \in Texts /\ style \in Styles /\ layer \in Nat
      /\ Written(style, text, layer) /\ TablesOk
      /\ \A k, m \in DOMAIN rows : rows[k].idx = rows[m].idx => k = m
      /\ MaxLayers \in Nat
  BY ResumeConstants DEF IInv, TypeOK, Written, LinesOk
<1>2. rows \in Seq(LayerRow)
  BY DEF IInv, TypeOK, LayerRow
<1>3. PICK m \in DOMAIN rows : /\ rows[m].extrudes /\ lastGood = rows[m].idx
                               /\ result = BuildResumeGcode(text, lastGood)
  BY <1>1 DEF TablesOk
<1>4. n = m
  BY <1>1, <1>3 DEF RowOf
<1>5. rows # <<>> /\ m \in 1..Len(rows) /\ Len(rows) \in Nat
  BY <1>2, <1>3
<1>6. rows = ParseGcode(text)
  BY <1>1, <1>5 DEF TablesOk
<1>7. layer > 0
  <2> SUFFICES ASSUME layer = 0 PROVE FALSE
    BY <1>1
  <2>1. \A i \in DOMAIN text : text[i].cmd \notin {"layer", "height", "extrude"}
    BY <1>1 DEF Written, PreambleOk
  <2> QED
    BY <1>1, <1>3, <1>6, <2>1, NothingPrinted
<1>8. c = HasLayerComments(text) /\ c \in BOOLEAN
  <2>1. style # "plain" => HasLayerComments(text)
    BY <1>1, <1>7 DEF Written, LayersOk
  <2>2. style = "plain" => ~HasLayerComments(text)
    BY <1>1 DEF Written, LinesOk, HasLayerComments
  <2>3. HasLayerComments(text) \in BOOLEAN
    BY DEF HasLayerComments
  <2> QED
    BY <2>1, <2>2, <2>3
<1>9. Len(text) \in Nat /\ Len(text) \in 0..Len(text)
  BY <1>1 DEF Texts
<1>10. rows = ParsedAt(text, c, Len(text)).layers
  BY <1>1, <1>6, <1>8, ParseSteps
<1>11. style # "both"
  <2> SUFFICES ASSUME style = "both" PROVE FALSE
    OBVIOUS
  <2>1. c = TRUE
    OBVIOUS
  <2>2. rows = ParsedAt(text, TRUE, Len(text)).layers
    BY <1>10, <2>1
  <2>3. /\ Len(rows) >= 2 /\ rows[2].idx = 1
        /\ layer = 1 => Len(rows) = 2 /\ ~rows[1].extrudes
        /\ layer >= 2 => Len(rows) >= 3 /\ rows[3].idx = 1
    <3>1. Doubled("both", text, layer) /\ layer >= 1
      BY <1>1, <1>7 DEF Written
    <3> HIDE DEF c
    <3> QED
      BY <2>2, <3>1 DEF Doubled
  <2>4. CASE layer = 1
    <3>1. m = 1
      <4>1. Len(rows) = 2 /\ m < Len(rows)
        BY <1>4, <2>3, <2>4
      <4> QED
        BY <1>5, <4>1
    <3> QED
      BY <1>3, <2>3, <2>4, <3>1
  <2>5. CASE layer >= 2
    <3>1. 2 \in DOMAIN rows /\ 3 \in DOMAIN rows
      BY <1>2, <2>3, <2>5
    <3>2. rows[2].idx = rows[3].idx
      BY <2>3, <2>5
    <3> QED
      BY <1>1, <3>1, <3>2
  <2> QED
    BY <1>1, <1>7, <2>4, <2>5
<1>12. ZAgree(style, text)
  BY DEF ZMovesAgree, ZAgree, At
<1>13. style \in {"numbers", "heights", "plain"}
  BY <1>1, <1>11 DEF Styles
<1>14. LET p == ParsedAt(text, c, Len(text))
       IN  Ranked(text, Marks(style, text), p.layers, p.next, Len(text))
  <2>1. c <=> style # "plain"
    OBVIOUS
  <2> HIDE DEF c
  <2> QED
    BY <1>1, <1>8, <1>12, <1>13, <2>1, RowsRanked
<1>15. \E next : Ranked(text, Marks(style, text), rows, next, Len(text))
  BY <1>10, <1>14
<1>16. m \in 1..(Len(rows) - 1)
  BY <1>4, <1>5
<1> HIDE DEF n
<1>17. n \in 1..(Len(rows) - 1) /\ rows[n].extrudes /\ lastGood = rows[n].idx
  BY <1>3, <1>4, <1>16
<1> QED
  BY <1>2, <1>3, <1>7, <1>12, <1>13, <1>15, <1>17 DEF n

\* The resume file is built, from the line at which the next row begins.
LEMMA ResumedAt ==
  ASSUME IInv, lastGood # NoLayer, ZMovesAgree, RowOf(lastGood) < Len(rows)
  PROVE  LET start == rows[RowOf(lastGood) + 1].at
             first == rows[1].at
             z     == ZOfLayer(text, start)
         IN  /\ result = [refused |-> FALSE, start |-> start, first |-> first,
                          init |-> BuildInitSequence(PreambleState(text, first), z),
                          rest |-> SubSeq(text, start, Len(text))]
             /\ start \in 1..Len(text) /\ first \in 1..(start - 1)
             /\ Begins(style, text, start) /\ Begins(style, text, first)
             /\ \E j \in 1..(start - 1) : text[j].cmd = "extrude"
             /\ z > 0 /\ z \in Int
             /\ \E k \in Nat :
                  /\ Tells(style, text, start, k)
                  /\ Min(Telling(text, start)) = IF style = "heights" THEN start ELSE k
                  /\ z = IF style = "heights" THEN text[start].arg ELSE text[k].arg
             /\ \E l \in Nat : Settles(text, start, l)
             /\ ~At(text, start - 1).relative /\ ~At(text, first - 1).relative
<1> DEFINE n == RowOf(lastGood)
           start == rows[n + 1].at
           first == rows[1].at
           z == ZOfLayer(text, start)
<1>1. /\ style \in {"numbers", "heights", "plain"} /\ layer > 0 /\ ZAgree(style, text)
      /\ n \in 1..(Len(rows) - 1) /\ rows[n].extrudes
      /\ lastGood = rows[n].idx
      /\ result = BuildResumeGcode(text, lastGood)
      /\ rows \in Seq(LayerRow)
      /\ \E next : Ranked(text, Marks(style, text), rows, next, Len(text))
  BY ResumedRows
<1>2. text \in Texts /\ LinesOk(style, text) /\ BeginsOk(style, text)
  BY DEF IInv, Written, LinesOk
<1>3. PICK next : Ranked(text, Marks(style, text), rows, next, Len(text))
  BY <1>1
<1> HIDE DEF n
<1>4. /\ n + 1 \in 1..Len(rows) /\ 1 \in 1..Len(rows) /\ n \in 1..Len(rows) /\ 1 < n + 1
      /\ n \in 0..(Len(rows) - 1) /\ 0 \in 0..(Len(rows) - 1) /\ n < Len(rows)
      /\ Len(text) \in Nat /\ DOMAIN text = 1..Len(text)
  BY <1>1, <1>2 DEF Texts
<1>5. /\ start \in Marks(style, text) /\ first \in Marks(style, text)
      /\ start \in 1..Len(text) /\ first \in 1..Len(text) /\ first < start
      /\ rows[n].idx = n - 1
      /\ \E j \in 1..Len(text) : text[j].cmd = "extrude" /\ j < start
  BY <1>1, <1>3, <1>4 DEF Ranked
<1>6. FindLayerStartLine(text, n) = start /\ FindLayerStartLine(text, 0) = first
  <2>1. FindLayerStartLine(text, n) = rows[n + 1].at
        /\ FindLayerStartLine(text, 0) = rows[0 + 1].at
    BY <1>1, <1>2, <1>3, <1>4, LayersFound
  <2> QED
    BY <2>1
<1>7. Begins(style, text, start) /\ Begins(style, text, first)
  BY <1>1, <1>2, <1>5, MarksBegin
<1>8. /\ ~At(text, start - 1).relative /\ ~At(text, first - 1).relative
      /\ \E k \in Nat : Tells(style, text, start, k)
      /\ \E l \in Nat : Settles(text, start, l)
  BY <1>1, <1>2, <1>4, <1>5, <1>7 DEF BeginsOk, Begun
<1>9. PICK k \in Nat : Tells(style, text, start, k)
  BY <1>8
<1>10. /\ Min(Telling(text, start)) = IF style = "heights" THEN start ELSE k
       /\ z = (IF style = "heights" THEN text[start].arg ELSE text[k].arg) /\ z > 0
  BY <1>1, <1>2, <1>5, <1>7, <1>9, HeightFound
<1>11. z \in Int
  <2>1. k \in 1..Len(text) /\ \A i \in 1..Len(text) : text[i].arg \in Int
    BY <1>2, <1>4, <1>9 DEF Tells, Texts, Lines
  <2> HIDE DEF z
  <2> QED
    BY <1>5, <1>10, <2>1
<1>12. lastGood + 1 = n
  BY <1>1, <1>4, <1>5
<1>13. result = [refused |-> FALSE, start |-> start, first |-> first,
                 init |-> BuildInitSequence(PreambleState(text, first), z),
                 rest |-> SubSeq(text, start, Len(text))]
  <2>1. start # 0 /\ first # 0 /\ z # 0
    BY <1>5, <1>10
  <2>2. result = BuildResumeGcode(text, lastGood)
    BY <1>1
  <2> HIDE DEF start, first
  <2> QED
    BY <1>6, <1>12, <2>1, <2>2 DEF BuildResumeGcode
<1>14. first \in 1..(start - 1) /\ \E j \in 1..(start - 1) : text[j].cmd = "extrude"
  BY <1>5
<1>15. \E l \in Nat : /\ Tells(style, text, start, l)
                      /\ Min(Telling(text, start)) = IF style = "heights" THEN start ELSE l
                      /\ z = IF style = "heights" THEN text[start].arg ELSE text[l].arg
  BY <1>9, <1>10
<1> HIDE DEF start, first, z
<1>16. z > 0
  BY <1>10
<1> QED
  BY <1>5, <1>7, <1>8, <1>11, <1>13, <1>14, <1>15, <1>16 DEF start, first, z, n

LEMMA NextResumed == IInv => NextLayerResumed
<1> SUFFICES ASSUME IInv, lastGood # NoLayer, ZMovesAgree, RowOf(lastGood) < Len(rows)
             PROVE  ~result.refused /\ result.start = rows[RowOf(lastGood) + 1].at
  BY DEF NextLayerResumed
<1> QED
  BY ResumedAt

\* The two modules count layers by different rules; yet the resume file begins at
\* the line where, for the parser, the layer after the last good one begins.
THEOREM SpecNextLayerResumed == Spec => []NextLayerResumed
<1> QED
  BY NextResumed, SpecIInv, PTL

-----------------------------------------------------------------------------
(* What the firmware is set to, told from the lines it executed.            *)

\* A mode is on if it was turned on and not off again.
TurnedOn(T, a, b, on, off) ==
  \E l \in (a + 1)..b : T[l].cmd = on /\ \A k \in (l + 1)..b : T[k].cmd # off

LEMMA TurnedOnStep ==
  ASSUME NEW T, NEW a \in Nat, NEW b \in Nat, a < b, NEW on, NEW off, on # off
  PROVE  /\ T[b].cmd = on => TurnedOn(T, a, b, on, off)
         /\ T[b].cmd = off => ~TurnedOn(T, a, b, on, off)
         /\ T[b].cmd \notin {on, off} =>
              (TurnedOn(T, a, b, on, off) <=> TurnedOn(T, a, b - 1, on, off))
<1>1. /\ b \in (a + 1)..b
      /\ \A l \in (a + 1)..b : l = b \/ (l \in (a + 1)..(b - 1) /\ b \in (l + 1)..b)
      /\ \A l \in (a + 1)..(b - 1) : l \in (a + 1)..b /\ b \in (l + 1)..b
      /\ \A l \in Nat : \A k \in (l + 1)..b : k = b \/ k \in (l + 1)..(b - 1)
      /\ \A l \in Nat : \A k \in (l + 1)..(b - 1) : k \in (l + 1)..b
      /\ \A l \in (a + 1)..b : l \in Nat
      /\ \A k \in (b + 1)..b : FALSE
  OBVIOUS
<1>2. T[b].cmd = on => TurnedOn(T, a, b, on, off)
  BY <1>1 DEF TurnedOn
<1>3. T[b].cmd = off => ~TurnedOn(T, a, b, on, off)
  BY <1>1 DEF TurnedOn
<1>4. ASSUME T[b].cmd \notin {on, off}, TurnedOn(T, a, b, on, off)
      PROVE  TurnedOn(T, a, b - 1, on, off)
  <2>1. PICK l \in (a + 1)..b : T[l].cmd = on /\ \A k \in (l + 1)..b : T[k].cmd # off
    BY <1>4 DEF TurnedOn
  <2>2. l \in (a + 1)..(b - 1) /\ l \in Nat
    BY <1>1, <1>4, <2>1
  <2> QED
    BY <1>1, <2>1, <2>2 DEF TurnedOn
<1>5. ASSUME T[b].cmd \notin {on, off}, TurnedOn(T, a, b - 1, on, off)
      PROVE  TurnedOn(T, a, b, on, off)
  <2>1. PICK l \in (a + 1)..(b - 1) :
               T[l].cmd = on /\ \A k \in (l + 1)..(b - 1) : T[k].cmd # off
    BY <1>5 DEF TurnedOn
  <2>2. l \in (a + 1)..b /\ l \in Nat
    BY <1>1
  <2> QED
    BY <1>1, <1>5, <2>1, <2>2 DEF TurnedOn
<1> QED
  BY <1>2, <1>3, <1>4, <1>5

LEMMA ModesTellFrom ==
  ASSUME NEW m \in Machine, NEW T \in Texts, NEW a \in 0..Len(T), NEW b \in a..Len(T)
  PROVE  /\ ~AtFrom(m, T, a).relative => (AtFrom(m, T, b).relative <=> TurnedOn(T, a, b, "G91", "G90"))
         /\ ~AtFrom(m, T, a).relativeE => (AtFrom(m, T, b).relativeE <=> TurnedOn(T, a, b, "M83", "M82"))
<1> DEFINE Told(i) ==
             /\ ~AtFrom(m, T, a).relative => (AtFrom(m, T, i).relative <=> TurnedOn(T, a, i, "G91", "G90"))
             /\ ~AtFrom(m, T, a).relativeE => (AtFrom(m, T, i).relativeE <=> TurnedOn(T, a, i, "M83", "M82"))
           S == {i \in a..b : Told(i)}
<1>1. a \in Nat /\ b \in Nat /\ a \in a..b /\ \A l \in (a + 1)..a : FALSE
  BY DEF Texts
<1>2. a \in S
  BY <1>1 DEF TurnedOn
<1>3. ASSUME NEW i \in a..(b - 1), i \in S PROVE i + 1 \in S
  <2>1. /\ i + 1 \in 1..Len(T) /\ (i + 1) - 1 = i /\ i \in 0..Len(T) /\ i + 1 \in a..b
        /\ i + 1 \in Nat /\ a < i + 1
    BY DEF Texts
  <2>2. T[i + 1] \in Lines /\ AtFrom(m, T, i) \in Machine
        /\ AtFrom(m, T, i + 1) = Executed(AtFrom(m, T, i), T[i + 1])
    BY <2>1, RunStepsFrom DEF Texts
  <2>3. Told(i)
    BY <1>3
  <2>4. /\ T[i + 1].cmd = "G91" => AtFrom(m, T, i + 1).relative
        /\ T[i + 1].cmd = "G90" => ~AtFrom(m, T, i + 1).relative
        /\ T[i + 1].cmd \notin {"G91", "G90"} => AtFrom(m, T, i + 1).relative = AtFrom(m, T, i).relative
        /\ T[i + 1].cmd = "M83" => AtFrom(m, T, i + 1).relativeE
        /\ T[i + 1].cmd = "M82" => ~AtFrom(m, T, i + 1).relativeE
        /\ T[i + 1].cmd \notin {"M83", "M82"} => AtFrom(m, T, i + 1).relativeE = AtFrom(m, T, i).relativeE
    BY <2>2, LineSets, LineKeeps DEF PositionModes, ExtruderModes
  <2>5. /\ T[i + 1].cmd = "G91" => TurnedOn(T, a, i + 1, "G91", "G90")
        /\ T[i + 1].cmd = "G90" => ~TurnedOn(T, a, i + 1, "G91", "G90")
        /\ T[i + 1].cmd \notin {"G91", "G90"} =>
             (TurnedOn(T, a, i + 1, "G91", "G90") <=> TurnedOn(T, a, i, "G91", "G90"))
    <3>1. "G91" # "G90"
      OBVIOUS
    <3> QED
      BY <1>1, <2>1, <3>1, TurnedOnStep
  <2>6. /\ T[i + 1].cmd = "M83" => TurnedOn(T, a, i + 1, "M83", "M82")
        /\ T[i + 1].cmd = "M82" => ~TurnedOn(T, a, i + 1, "M83", "M82")
        /\ T[i + 1].cmd \notin {"M83", "M82"} =>
             (TurnedOn(T, a, i + 1, "M83", "M82") <=> TurnedOn(T, a, i, "M83", "M82"))
    <3>1. "M83" # "M82"
      OBVIOUS
    <3> QED
      BY <1>1, <2>1, <3>1, TurnedOnStep
  <2>7. Told(i + 1)
    BY <2>3, <2>4, <2>5, <2>6
  <2> HIDE DEF Told
  <2> QED
    BY <2>1, <2>7
<1> HIDE DEF S
<1>4. a..b \subseteq S
  BY <1>1, <1>2, <1>3, IntervalInduction
<1>5. b \in S
  BY <1>1, <1>4
<1> QED
  BY <1>5 DEF S

LEMMA ModesTell ==
  ASSUME NEW T \in Texts, NEW a \in 0..Len(T), NEW b \in a..Len(T)
  PROVE  /\ ~At(T, a).relative => (At(T, b).relative <=> TurnedOn(T, a, b, "G91", "G90"))
         /\ ~At(T, a).relativeE => (At(T, b).relativeE <=> TurnedOn(T, a, b, "M83", "M82"))
<1>1. \A i : At(T, i) = AtFrom(PowerOn, T, i)
  BY DEF At, AtFrom, Run
<1> QED
  BY <1>1, PowerOnType, ModesTellFrom

\* What is printed stays printed.
LEMMA PrintedGrows ==
  ASSUME NEW T \in Texts, NEW a \in 0..Len(T), NEW b \in a..Len(T)
  PROVE  /\ Len(At(T, a).printed) \in Nat /\ Len(At(T, b).printed) \in Nat
         /\ Len(At(T, a).printed) <= Len(At(T, b).printed)
         /\ \A i \in 1..Len(At(T, a).printed) : At(T, b).printed[i] = At(T, a).printed[i]
<1> DEFINE A == At(T, a).printed
           Grown(k) == /\ Len(A) <= Len(At(T, k).printed)
                       /\ \A i \in 1..Len(A) : At(T, k).printed[i] = A[i]
           S == {k \in a..b : Grown(k)}
<1>1. a \in Nat /\ b \in Nat /\ a \in a..b
  BY DEF Texts
<1>2. \A k \in a..b : At(T, k).printed \in Seq([z : Int, amount : Int])
  <2> SUFFICES ASSUME NEW k \in a..b PROVE At(T, k).printed \in Seq([z : Int, amount : Int])
    OBVIOUS
  <2>1. At(T, k) \in Machine
    <3>1. k \in 0..Len(T)
      BY DEF Texts
    <3> QED
      BY <3>1, RunSteps
  <2> QED
    BY <2>1 DEF Machine
<1>3. \A k \in a..b : Len(At(T, k).printed) \in Nat
  BY <1>2
<1>4. a \in S
  BY <1>1, <1>3
<1>5. ASSUME NEW i \in a..(b - 1), i \in S PROVE i + 1 \in S
  <2> DEFINE P == At(T, i).printed
             Q == At(T, i + 1).printed
  <2>1. /\ i + 1 \in 1..Len(T) /\ (i + 1) - 1 = i /\ i \in 0..Len(T) /\ i + 1 \in a..b
        /\ i \in a..b
    BY DEF Texts
  <2>2. T[i + 1] \in Lines /\ At(T, i) \in Machine
        /\ At(T, i + 1) = Executed(At(T, i), T[i + 1])
    BY <2>1, RunSteps DEF Texts
  <2>3. Q = P \/ \E x \in [z : Int, amount : Int] : Q = Append(P, x)
    <3>1. CASE T[i + 1].cmd = "extrude"
      BY <2>2, <3>1, ExtrudeSets
    <3>2. CASE T[i + 1].cmd # "extrude"
      BY <2>2, <3>2, LineKeeps
    <3> QED
      BY <3>1, <3>2
  <2>4. P \in Seq([z : Int, amount : Int]) /\ Len(A) \in Nat
    BY <1>1, <1>2, <1>3, <2>1
  <2>5. Len(A) <= Len(P) /\ \A j \in 1..Len(A) : P[j] = A[j]
    BY <1>5
  <2> HIDE DEF A, P, Q
  <2>6. Len(P) \in Nat /\ Len(P) <= Len(Q) /\ \A j \in 1..Len(P) : Q[j] = P[j]
    <3>1. Len(P) \in Nat
      BY <2>4
    <3>2. CASE Q = P
      BY <3>1, <3>2
    <3>3. ASSUME NEW x \in [z : Int, amount : Int], Q = Append(P, x)
          PROVE  Len(P) <= Len(Q) /\ \A j \in 1..Len(P) : Q[j] = P[j]
      <4> DEFINE X == [z : Int, amount : Int]
      <4>1. P \in Seq(X) /\ x \in X
        BY <2>4
      <4> HIDE DEF X
      <4> QED
        BY <3>3, <4>1
    <3> QED
      BY <2>3, <3>1, <3>2, <3>3
  <2>7. Len(A) <= Len(Q) /\ \A j \in 1..Len(A) : Q[j] = A[j]
    <3>1. Len(Q) \in Nat
      BY <1>3, <2>1 DEF Q
    <3> QED
      BY <2>4, <2>5, <2>6, <3>1
  <2> QED
    BY <2>1, <2>7 DEF A, Q
<1> HIDE DEF S
<1>6. a..b \subseteq S
  BY <1>1, <1>4, <1>5, IntervalInduction
<1>7. b \in S /\ b \in a..b
  BY <1>1, <1>6
<1> QED
  BY <1>1, <1>3, <1>7 DEF S

-----------------------------------------------------------------------------
(* _extract_preamble_state: the modes of the preamble, in the order in      *)
(* which they first occur.                                                  *)

FirstMode(P, i) ==
  /\ P[i].cmd \in PositionModes \cup ExtruderModes
  /\ \A j \in 1..(i - 1) : P[j].cmd # P[i].cmd

ModeLines(P) ==
  FoldLeft(LAMBDA seen, i : IF FirstMode(P, i) THEN Append(seen, P[i]) ELSE seen,
           <<>>, [i \in DOMAIN P |-> i])

Stating(P) ==
  [k \in 1..Len(P) |-> [v \in Texts |-> IF FirstMode(P, k) THEN Append(v, P[k]) ELSE v]]

LEMMA StateTrace ==
  ASSUME NEW P \in Texts
  PROVE  \E t : IsTrace(t, Len(P), Texts, <<>>, Stating(P)) /\ ModeLines(P) = t[Len(P)]
<1> DEFINE n == Len(P)
           Add(v, k) == IF FirstMode(P, k) THEN Append(v, P[k]) ELSE v
           Iter(it) == [s \in SUBSET (1..n) |->
                          IF s = {} THEN <<>>
                          ELSE Add(it[s \ {Max(s)}], [i \in 1..n |-> i][Max(s)])]
           it == CHOOSE f : f = Iter(f)
<1>1. n \in Nat /\ DOMAIN P = 1..n /\ \A k \in 1..n : P[k] \in Lines /\ k \in Nat
  BY DEF Texts
<1>2. Stating(P) \in [1..n -> [Texts -> Texts]]
  <2>1. \A v \in Texts : \A k \in 1..n : Append(v, P[k]) \in Texts
    BY <1>1 DEF Texts
  <2> QED
    BY <2>1 DEF Stating
<1>3. \A s \in SUBSET (1..n) : s # {} => Max(s) \in 1..n
  BY <1>1, MaxIsGreatest, \A s \in SUBSET (1..n) : s \in SUBSET (0..n)
<1>4. <<>> \in Texts
  BY DEF Texts
<1>5. PICK f : Iterates(f, n, Texts, <<>>, Stating(P))
  BY <1>1, <1>2, <1>4, FoldExists
<1>6. f = Iter(f)
  <2>1. \A s \in SUBSET (1..n) : f[s] = Iter(f)[s]
    BY <1>3, <1>5 DEF Iterates, Stating
  <2>2. f \in [SUBSET (1..n) -> Texts] /\ Iter(f) = [s \in SUBSET (1..n) |-> Iter(f)[s]]
    BY <1>5 DEF Iterates
  <2> HIDE DEF Iter
  <2> QED
    BY <2>1, <2>2
<1>7. it = Iter(it)
  <2> HIDE DEF Iter
  <2> QED
    BY <1>6
<1>8. ModeLines(P) = it[1..n]
  BY <1>1 DEF ModeLines, FoldLeft, MapThenFoldSet
<1>9. Folds(it, n, Texts, <<>>, Stating(P))
  <2> HIDE DEF it
  <2> QED
    BY <1>3, <1>7 DEF Folds, Stating
<1> HIDE DEF it, n
<1>10. \E t : IsTrace(t, n, Texts, <<>>, Stating(P)) /\ it[1..n] = t[n]
  BY <1>1, <1>2, <1>4, <1>9, FoldTrace
<1> QED
  BY <1>8, <1>10 DEF n

\* s has the first occurrences of P up to the i-th line; f tells where they are.
Picks(P, i, s, f) ==
  /\ f \in [1..Len(s) -> 1..i]
  /\ \A l \in 1..Len(s) : FirstMode(P, f[l]) /\ s[l] = P[f[l]]
  /\ \A l, m \in 1..Len(s) : l < m => f[l] < f[m]
  /\ \A j \in 1..i : FirstMode(P, j) => \E l \in 1..Len(s) : f[l] = j

LEMMA PicksStep ==
  ASSUME NEW P, NEW i \in Nat, i > 0, NEW s \in Texts, NEW f, Picks(P, i - 1, s, f),
         NEW u, u = IF FirstMode(P, i) THEN Append(s, P[i]) ELSE s, P[i] \in Lines
  PROVE  \E g : Picks(P, i, u, g)
<1> DEFINE n == Len(s)
<1>1. /\ n \in Nat /\ s \in Seq(Lines)
      /\ f \in [1..n -> 1..(i - 1)]
      /\ \A l \in 1..n : FirstMode(P, f[l]) /\ s[l] = P[f[l]]
      /\ \A l, m \in 1..n : l < m => f[l] < f[m]
      /\ \A j \in 1..(i - 1) : FirstMode(P, j) => \E l \in 1..n : f[l] = j
      /\ \A j \in 1..i : j \in 1..(i - 1) \/ j = i
      /\ \A j \in 1..(i - 1) : j \in 1..i /\ j < i
      /\ i \in 1..i
  BY DEF Picks, Texts
<1>2. CASE ~FirstMode(P, i)
  <2>1. u = s
    BY <1>2
  <2> HIDE DEF n
  <2>2. f \in [1..n -> 1..i]
    BY <1>1
  <2>3. \A j \in 1..i : FirstMode(P, j) => \E l \in 1..n : f[l] = j
    BY <1>1, <1>2
  <2>4. Picks(P, i, s, f)
    BY <1>1, <2>2, <2>3 DEF Picks, n
  <2> QED
    BY <2>1, <2>4
<1>3. CASE FirstMode(P, i)
  <2> DEFINE g == [l \in 1..(n + 1) |-> IF l = n + 1 THEN i ELSE f[l]]
  <2>1. /\ u = Append(s, P[i]) /\ Len(u) = n + 1 /\ u[n + 1] = P[i]
        /\ \A l \in 1..n : u[l] = s[l]
    BY <1>1, <1>3
  <2> HIDE DEF n
  <2>2. /\ \A l \in 1..(n + 1) : l \in 1..n \/ l = n + 1
        /\ \A l \in 1..n : l \in 1..(n + 1) /\ l # n + 1
        /\ n + 1 \in 1..(n + 1)
    BY <1>1
  <2>3. /\ g \in [1..(n + 1) -> 1..i] /\ g[n + 1] = i
        /\ \A l \in 1..n : g[l] = f[l]
    BY <1>1, <2>2
  <2> HIDE DEF g
  <2>4. \A l \in 1..(n + 1) : FirstMode(P, g[l]) /\ u[l] = P[g[l]]
    BY <1>1, <1>3, <2>1, <2>2, <2>3
  <2>5. ASSUME NEW l \in 1..(n + 1), NEW m \in 1..(n + 1), l < m
        PROVE  g[l] < g[m]
    <3>1. l \in 1..n
      BY <1>1, <2>5
    <3>2. CASE m \in 1..n
      BY <1>1, <2>3, <2>5, <3>1, <3>2
    <3>3. CASE m = n + 1
      <4>1. f[l] \in 1..(i - 1)
        BY <1>1, <3>1
      <4> QED
        BY <1>1, <2>3, <3>1, <3>3, <4>1
    <3> QED
      BY <2>2, <3>2, <3>3
  <2>6. ASSUME NEW j \in 1..i, FirstMode(P, j)
        PROVE  \E l \in 1..(n + 1) : g[l] = j
    <3>1. CASE j \in 1..(i - 1)
      <4>1. PICK l \in 1..n : f[l] = j
        BY <1>1, <2>6, <3>1
      <4> QED
        BY <2>2, <2>3, <4>1
    <3>2. CASE j = i
      BY <2>2, <2>3, <3>2
    <3> QED
      BY <1>1, <3>1, <3>2
  <2>7. Picks(P, i, u, g)
    BY <2>1, <2>3, <2>4, <2>5, <2>6 DEF Picks
  <2> QED
    BY <2>7
<1> QED
  BY <1>2, <1>3

LEMMA StatesPick ==
  ASSUME NEW P \in Texts
  PROVE  ModeLines(P) \in Texts /\ \E f : Picks(P, Len(P), ModeLines(P), f)
<1> DEFINE n == Len(P)
<1>1. n \in Nat /\ 0 \in Nat /\ \A k \in 1..n : P[k] \in Lines
  BY DEF Texts
<1>2. PICK t : IsTrace(t, n, Texts, <<>>, Stating(P)) /\ ModeLines(P) = t[n]
  BY StateTrace
<1>3. /\ t[0] = <<>> /\ \A i \in 0..n : t[i] \in Texts
      /\ \A i \in 1..n : t[i] = IF FirstMode(P, i) THEN Append(t[i - 1], P[i]) ELSE t[i - 1]
  <2>1. \A i \in 1..n : i - 1 \in 0..n
    BY <1>1
  <2> QED
    BY <1>2, <2>1 DEF IsTrace, Stating
<1> DEFINE Known(i) == \E f : Picks(P, i, t[i], f)
           S == {i \in 0..n : Known(i)}
<1> HIDE DEF n
<1>4. 0 \in S
  <2>1. Len(t[0]) = 0 /\ 1..0 = {} /\ 1..Len(t[0]) = {}
    BY <1>3
  <2>2. Picks(P, 0, t[0], [l \in 1..Len(t[0]) |-> 1])
    BY <2>1 DEF Picks
  <2> QED
    BY <1>1, <2>2
<1>5. ASSUME NEW i \in 0..(n - 1), i \in S PROVE i + 1 \in S
  <2>1. /\ i + 1 \in 1..n /\ (i + 1) - 1 = i /\ i \in 0..n /\ i + 1 \in 0..n
        /\ i + 1 \in Nat /\ i + 1 > 0
    BY <1>1
  <2>2. PICK f : Picks(P, i, t[i], f)
    BY <1>5
  <2>3. t[i + 1] = IF FirstMode(P, i + 1) THEN Append(t[i], P[i + 1]) ELSE t[i]
    BY <1>3, <2>1
  <2>4. t[i] \in Texts /\ P[i + 1] \in Lines /\ Picks(P, (i + 1) - 1, t[i], f)
    BY <1>1, <1>3, <2>1, <2>2
  <2>5. \E g : Picks(P, i + 1, t[i + 1], g)
    BY <2>1, <2>3, <2>4, PicksStep
  <2> QED
    BY <2>1, <2>5
<1> HIDE DEF S
<1>6. 0..n \subseteq S
  BY <1>1, <1>4, <1>5, IntervalInduction
<1>7. n \in S /\ n \in 0..n
  BY <1>1, <1>6
<1> QED
  BY <1>2, <1>3, <1>7 DEF S, n

\* So the state has the modes of the preamble, in order.
LEMMA PreamblePicks ==
  ASSUME NEW T \in Texts, NEW first \in 1..Len(T)
  PROVE  /\ PreambleState(T, first) \in Texts
         /\ \E f : Picks(T, first - 1, PreambleState(T, first), f)
<1> DEFINE P == SubSeq(T, 1, first - 1)
           s == PreambleState(T, first)
<1>1. P \in Texts /\ Len(P) = first - 1 /\ \A i \in 1..(first - 1) : P[i] = T[i]
  BY DEF Texts
<1>2. s = ModeLines(P)
  BY DEF PreambleState, ModeLines, FirstMode
<1>3. s \in Texts /\ \E f : Picks(P, first - 1, s, f)
  BY <1>1, <1>2, StatesPick
<1> HIDE DEF P, s
<1>4. PICK f : Picks(P, first - 1, s, f)
  BY <1>3
<1>5. \A i \in 1..(first - 1) : \A j \in 1..(i - 1) : j \in 1..(first - 1)
  OBVIOUS
<1>6. \A i \in 1..(first - 1) : FirstMode(T, i) <=> FirstMode(P, i)
  BY <1>1, <1>5 DEF FirstMode
<1>7. Picks(T, first - 1, s, f)
  BY <1>1, <1>4, <1>6 DEF Picks
<1> QED
  BY <1>3, <1>7 DEF s

-----------------------------------------------------------------------------
(* _build_init_sequence.                                                    *)

\* The preamble's position modes, each at most once, leave the positioning absolute
\* when they are replayed, as they did where they stand.
LEMMA PositionReplayed ==
  ASSUME NEW T \in Texts, NEW first \in 1..Len(T), NEW s \in Texts, NEW f,
         Picks(T, first - 1, s, f), ~At(T, first - 1).relative,
         \A i, j \in 1..(first - 1) :
           T[i].cmd \in PositionModes /\ T[i].cmd = T[j].cmd => i = j,
         NEW b \in Machine, NEW U \in Texts, Len(s) + 3 <= Len(U), \A l \in 1..Len(s) : U[l + 3] = s[l],
         ~AtFrom(b, U, 3).relative
  PROVE  ~AtFrom(b, U, Len(s) + 3).relative
<1> DEFINE n == Len(s)
<1>1. /\ n \in Nat /\ first \in Nat /\ Len(T) \in Nat /\ Len(U) \in Nat
      /\ 3 \in 0..Len(U) /\ n + 3 \in 3..Len(U)
      /\ 0 \in 0..Len(T) /\ first - 1 \in 0..Len(T)
  BY DEF Texts
<1>2. /\ f \in [1..n -> 1..(first - 1)]
      /\ \A l \in 1..n : s[l] = T[f[l]]
      /\ \A l, m \in 1..n : l < m => f[l] < f[m]
      /\ \A j \in 1..(first - 1) : FirstMode(T, j) => \E l \in 1..n : f[l] = j
  BY DEF Picks
<1> HIDE DEF n
<1>3. ~TurnedOn(T, 0, first - 1, "G91", "G90")
  <2>1. ~At(T, 0).relative
    <3>1. At(T, 0) = PowerOn
      BY RunSteps
    <3> QED
      BY <3>1 DEF PowerOn
  <2> QED
    BY <1>1, <2>1, ModesTell
<1>4. SUFFICES ASSUME TurnedOn(U, 3, n + 3, "G91", "G90") PROVE FALSE
  BY <1>1, ModesTellFrom DEF n
<1>5. PICK l \in 4..(n + 3) :
             U[l].cmd = "G91" /\ \A k \in (l + 1)..(n + 3) : U[k].cmd # "G90"
  BY <1>4 DEF TurnedOn
<1> DEFINE i == f[l - 3]
<1>6. l - 3 \in 1..n /\ (l - 3) + 3 = l
  BY <1>1
<1>7. i \in 1..(first - 1) /\ T[i].cmd = "G91"
  <2>1. U[(l - 3) + 3] = s[l - 3]
    BY <1>6 DEF n
  <2>2. U[l] = s[l - 3]
    BY <1>6, <2>1
  <2>3. s[l - 3] = T[i] /\ i \in 1..(first - 1)
    BY <1>2, <1>6
  <2>4. U[l].cmd = "G91"
    BY <1>5
  <2> HIDE DEF i
  <2>5. U[l] = T[i]
    BY <2>2, <2>3
  <2> QED
    BY <2>3, <2>4, <2>5
<1> HIDE DEF i
<1>8. PICK k \in (i + 1)..(first - 1) : T[k].cmd = "G90"
  <2>1. i \in (0 + 1)..(first - 1)
    BY <1>7
  <2> QED
    BY <1>3, <1>7, <2>1 DEF TurnedOn
<1> USE DEF i
<1>9. FirstMode(T, k)
  <2>1. k \in 1..(first - 1) /\ \A j \in 1..(k - 1) : j \in 1..(first - 1) /\ j # k
    BY <1>1, <1>7
  <2> QED
    BY <1>8, <2>1 DEF FirstMode, PositionModes
<1>10. PICK m \in 1..n : f[m] = k
  BY <1>1, <1>2, <1>7, <1>8, <1>9
<1>11. m > l - 3
  <2>1. f[m] > f[l - 3] /\ f[m] \in Nat /\ f[l - 3] \in Nat
    <3>1. f[m] = k /\ f[l - 3] = i
      BY <1>10
    <3> HIDE DEF i
    <3>2. k > i /\ k \in Nat /\ i \in Nat
      BY <1>1, <1>7, <1>8
    <3> QED
      BY <3>1, <3>2
  <2>2. CASE m = l - 3
    BY <2>1, <2>2
  <2>3. CASE m < l - 3
    <3>1. f[m] < f[l - 3]
      BY <1>2, <1>6, <2>3
    <3> QED
      BY <2>1, <3>1
  <2> QED
    BY <1>1, <2>2, <2>3
<1>12. m + 3 \in (l + 1)..(n + 3) /\ U[m + 3].cmd = "G90"
  <2>1. U[m + 3] = s[m] /\ s[m] = T[k]
    BY <1>2, <1>10 DEF n
  <2> QED
    BY <1>1, <1>8, <1>11, <2>1
<1> QED
  BY <1>5, <1>12

\* One extruder mode in the preamble and none after it: the mode that is restored
\* is the one in force where the file is taken up again.
LEMMA ExtruderReplayed ==
  ASSUME NEW T \in Texts, NEW start \in 1..Len(T), NEW first \in 1..start, NEW s \in Texts,
         NEW f, Picks(T, first - 1, s, f),
         \A i \in 1..(start - 1) : T[i].cmd \in ExtruderModes => i \in 1..(first - 1),
         \A i, j \in 1..(start - 1) :
           T[i].cmd \in ExtruderModes /\ T[j].cmd \in ExtruderModes => T[i] = T[j]
  PROVE  /\ OrigEMode(s) \in Lines /\ OrigEMode(s).cmd \in ExtruderModes
         /\ OrigEMode(s).cmd = "M83" <=> At(T, start - 1).relativeE
<1> DEFINE n == Len(s)
           modes == {i \in DOMAIN s : s[i].cmd \in ExtruderModes}
<1>1. /\ n \in Nat /\ DOMAIN s = 1..n /\ first \in Nat /\ start \in Nat /\ first <= start
      /\ Len(T) \in Nat /\ 0 \in 0..Len(T) /\ start - 1 \in 0..Len(T)
      /\ \A i \in 1..(first - 1) : i \in 1..(start - 1) /\ i \in Nat
      /\ \A i \in 1..n : s[i] \in Lines
  BY DEF Texts
<1>2. /\ f \in [1..n -> 1..(first - 1)]
      /\ \A l \in 1..n : s[l] = T[f[l]]
      /\ \A j \in 1..(first - 1) : FirstMode(T, j) => \E l \in 1..n : f[l] = j
  BY DEF Picks
<1> HIDE DEF n
<1>3. At(T, start - 1).relativeE <=> TurnedOn(T, 0, start - 1, "M83", "M82")
  <2>1. ~At(T, 0).relativeE
    <3>1. At(T, 0) = PowerOn
      BY RunSteps
    <3> QED
      BY <3>1 DEF PowerOn
  <2> QED
    BY <1>1, <2>1, ModesTell
<1>4. CASE \A i \in 1..(start - 1) : T[i].cmd \notin ExtruderModes
  <2>1. modes = {}
    BY <1>1, <1>2, <1>4
  <2>2. OrigEMode(s) = Mode("M82")
    BY <2>1 DEF OrigEMode
  <2>3. ~TurnedOn(T, 0, start - 1, "M83", "M82")
    BY <1>4 DEF TurnedOn, ExtruderModes
  <2>4. Mode("M82") \in Lines /\ Mode("M82").cmd = "M82" /\ "M82" \in ExtruderModes
    BY LineInLines DEF Mode, Line, ExtruderModes
  <2> HIDE DEF modes
  <2> QED
    BY <1>3, <2>2, <2>3, <2>4
<1>5. ASSUME NEW i \in 1..(start - 1), T[i].cmd \in ExtruderModes
      PROVE  /\ OrigEMode(s) \in Lines /\ OrigEMode(s).cmd \in ExtruderModes
             /\ OrigEMode(s).cmd = "M83" <=> At(T, start - 1).relativeE
  <2> DEFINE S == {j \in 1..(first - 1) : T[j].cmd = T[i].cmd}
  <2>1. i \in S
    BY <1>5
  <2>2. S \in SUBSET Nat
    BY <1>1
  <2>3. PICK j \in S : \A k \in S : j <= k
    BY <2>1, <2>2, LeastNatural
  <2>4. j \in 1..(first - 1) /\ T[j].cmd = T[i].cmd
    BY <2>3
  <2>5. FirstMode(T, j)
    <3>1. ASSUME NEW k \in 1..(j - 1) PROVE T[k].cmd # T[j].cmd
      <4>1. k \in 1..(first - 1) /\ ~(j <= k)
        BY <1>1, <2>4
      <4> QED
        BY <2>3, <2>4, <4>1
    <3> QED
      BY <1>5, <2>4, <3>1 DEF FirstMode
  <2>6. PICK l \in 1..n : f[l] = j
    BY <1>2, <2>4, <2>5
  <2>7. l \in modes
    BY <1>1, <1>2, <1>5, <2>4, <2>6
  <2>8. modes \in SUBSET Nat
    BY <1>1
  <2>9. OrigEMode(s) = s[Min(modes)]
    BY <2>7 DEF OrigEMode
  <2>10. \A m \in modes : m \in 1..n /\ s[m].cmd \in ExtruderModes
    BY <1>1
  <2> HIDE DEF modes, S
  <2>11. Min(modes) \in modes
    BY <2>7, <2>8, MinIsLeast
  <2>12. OrigEMode(s) = T[i] /\ OrigEMode(s) \in Lines
    <3>1. Min(modes) \in 1..n /\ s[Min(modes)].cmd \in ExtruderModes
      BY <2>10, <2>11
    <3>2. f[Min(modes)] \in 1..(first - 1) /\ s[Min(modes)] = T[f[Min(modes)]]
      BY <1>2, <3>1
    <3> QED
      BY <1>1, <1>5, <2>9, <3>1, <3>2
  <2>13. T[i].cmd = "M83" <=> TurnedOn(T, 0, start - 1, "M83", "M82")
    <3>1. ASSUME T[i].cmd = "M83" PROVE TurnedOn(T, 0, start - 1, "M83", "M82")
      <4>1. \A k \in (i + 1)..(start - 1) : k \in 1..(start - 1)
        BY <1>1
      <4>2. \A k \in (i + 1)..(start - 1) : T[k].cmd # "M82"
        BY <1>5, <3>1, <4>1 DEF ExtruderModes
      <4>3. i \in (0 + 1)..(start - 1)
        OBVIOUS
      <4> QED
        BY <3>1, <4>2, <4>3 DEF TurnedOn
    <3>2. ASSUME TurnedOn(T, 0, start - 1, "M83", "M82") PROVE T[i].cmd = "M83"
      <4>1. PICK k \in (0 + 1)..(start - 1) : T[k].cmd = "M83"
        BY <3>2 DEF TurnedOn
      <4>2. k \in 1..(start - 1) /\ T[k].cmd \in ExtruderModes
        BY <4>1 DEF ExtruderModes
      <4> QED
        BY <1>5, <4>1, <4>2
    <3> QED
      BY <3>1, <3>2
  <2> QED
    BY <1>3, <1>5, <2>12, <2>13
<1> QED
  BY <1>4, <1>5

LEMMA InitText ==
  ASSUME NEW s \in Texts, NEW z \in Int, OrigEMode(s) \in Lines
  PROVE  LET U == BuildInitSequence(s, z)
             n == Len(s)
         IN  /\ U \in Texts /\ Len(U) = n + 9 /\ n \in Nat
             /\ U[3] = Mode("G90") /\ \A l \in 1..n : U[l + 3] = s[l]
             /\ U[n + 4] = Mode("M83") /\ U[n + 5] = Line("extrude", 20)
             /\ U[n + 6] = Line("extrude", -1) /\ U[n + 7] = Line("z", z)
             /\ U[n + 8] = OrigEMode(s) /\ U[n + 9] = Line("G92", 0)
<1> DEFINE A == <<Mode("G91"), Line("z", 2), Mode("G90")>>
           B == <<Mode("M83"), Line("extrude", 20), Line("extrude", -1), Line("z", z),
                  OrigEMode(s), Line("G92", 0)>>
           U == BuildInitSequence(s, z)
           n == Len(s)
<1>1. /\ Mode("G91") \in Lines /\ Mode("G90") \in Lines /\ Mode("M83") \in Lines
      /\ Line("z", 2) \in Lines /\ Line("z", z) \in Lines /\ Line("G92", 0) \in Lines
      /\ Line("extrude", 20) \in Lines /\ Line("extrude", -1) \in Lines
  BY LineInLines DEF PositionModes, ExtruderModes, ZMoves
<1>2. A \in Texts /\ Len(A) = 3 /\ A[3] = Mode("G90")
  BY <1>1 DEF Texts
<1>3. /\ B \in Texts /\ Len(B) = 6
      /\ B[1] = Mode("M83") /\ B[2] = Line("extrude", 20) /\ B[3] = Line("extrude", -1)
      /\ B[4] = Line("z", z) /\ B[5] = OrigEMode(s) /\ B[6] = Line("G92", 0)
  BY <1>1 DEF Texts
<1>4. U = (A \o s) \o B
  BY DEF BuildInitSequence
<1> HIDE DEF A, B, U
<1>5. Extends(A \o s, A, s) /\ A \o s \in Texts
  BY <1>2, ConcatExtends DEF Extends
<1>6. Extends((A \o s) \o B, A \o s, B)
  BY <1>3, <1>5, ConcatExtends
<1>7. /\ U \in Texts /\ Len(A \o s) = n + 3 /\ n \in Nat /\ Len(U) = n + 9
      /\ \A i \in 1..(n + 3) : U[i] = (A \o s)[i]
      /\ \A i \in 1..6 : U[(n + 3) + i] = B[i]
      /\ \A i \in 1..3 : (A \o s)[i] = A[i]
      /\ \A i \in 1..n : (A \o s)[3 + i] = s[i]
  <2>1. n \in Nat
    BY DEF Texts
  <2> HIDE DEF n
  <2>2. Len(A \o s) = 3 + n
    BY <1>2, <1>5 DEF Extends, n
  <2>3. Len(A \o s) = n + 3
    BY <2>1, <2>2
  <2>4. U \in Texts /\ Len(U) = Len(A \o s) + Len(B)
    BY <1>4, <1>6 DEF Extends
  <2>5. Len(U) = n + 9
    BY <1>3, <2>1, <2>3, <2>4
  <2>6. /\ \A i \in 1..Len(A \o s) : U[i] = (A \o s)[i]
        /\ \A i \in 1..Len(B) : U[Len(A \o s) + i] = B[i]
    BY <1>4, <1>6 DEF Extends
  <2>7. /\ \A i \in 1..Len(A) : (A \o s)[i] = A[i]
        /\ \A i \in 1..n : (A \o s)[Len(A) + i] = s[i]
    BY <1>5 DEF Extends, n
  <2> QED
    BY <1>2, <1>3, <2>1, <2>3, <2>4, <2>5, <2>6, <2>7
<1> HIDE DEF n
<1>8. U[3] = Mode("G90")
  <2>1. 3 \in 1..(n + 3) /\ 3 \in 1..3
    BY <1>7
  <2> QED
    BY <1>2, <1>7, <2>1
<1>9. ASSUME NEW l \in 1..n PROVE U[l + 3] = s[l]
  <2>1. l + 3 \in 1..(n + 3) /\ l + 3 = 3 + l
    BY <1>7
  <2> QED
    BY <1>7, <2>1
<1>10. /\ U[(n + 3) + 1] = B[1] /\ U[(n + 3) + 2] = B[2] /\ U[(n + 3) + 3] = B[3]
       /\ U[(n + 3) + 4] = B[4] /\ U[(n + 3) + 5] = B[5] /\ U[(n + 3) + 6] = B[6]
  BY <1>7
<1>11. /\ (n + 3) + 1 = n + 4 /\ (n + 3) + 2 = n + 5 /\ (n + 3) + 3 = n + 6
       /\ (n + 3) + 4 = n + 7 /\ (n + 3) + 5 = n + 8 /\ (n + 3) + 6 = n + 9
  BY <1>7
<1> QED
  BY <1>3, <1>7, <1>8, <1>9, <1>10, <1>11 DEF U, n

\* The modes before line start that the code carries over (ModesCarried).
Carries(T, start, first) ==
  /\ \A i \in 1..(start - 1) : T[i].cmd \in ExtruderModes => i \in 1..(first - 1)
  /\ \A i, j \in 1..(start - 1) :
       T[i].cmd \in ExtruderModes /\ T[j].cmd \in ExtruderModes => T[i] = T[j]
  /\ \A i, j \in 1..(first - 1) :
       T[i].cmd \in PositionModes /\ T[i].cmd = T[j].cmd => i = j

\* What the firmware is set to by the sequence before the rest, whatever it was before.
LEMMA InitRestores ==
  ASSUME NEW T \in Texts, NEW start \in 1..Len(T), NEW first \in 1..start, NEW z \in Int,
         ~At(T, first - 1).relative, Carries(T, start, first), NEW b \in Machine
  PROVE  LET U == BuildInitSequence(PreambleState(T, first), z)
         IN  /\ U \in Texts /\ RunFrom(b, U) \in Machine
             /\ ~RunFrom(b, U).relative /\ RunFrom(b, U).z = z /\ RunFrom(b, U).e = 0
             /\ RunFrom(b, U).relativeE <=> At(T, start - 1).relativeE
<1> DEFINE s == PreambleState(T, first)
           U == BuildInitSequence(s, z)
           n == Len(s)
<1>1. /\ first \in 1..Len(T) /\ Len(T) \in Nat /\ start \in Nat /\ first \in Nat
      /\ \A i \in 1..(first - 1) : i \in 1..(start - 1)
  BY DEF Texts
<1>2. s \in Texts /\ \E f : Picks(T, first - 1, s, f)
  BY <1>1, PreamblePicks
<1>3. PICK f : Picks(T, first - 1, s, f)
  BY <1>2
<1> HIDE DEF s
<1>4. /\ OrigEMode(s) \in Lines /\ OrigEMode(s).cmd \in ExtruderModes
      /\ OrigEMode(s).cmd = "M83" <=> At(T, start - 1).relativeE
  BY <1>2, <1>3, ExtruderReplayed DEF Carries
<1>5. /\ U \in Texts /\ Len(U) = n + 9 /\ n \in Nat
      /\ U[3] = Mode("G90") /\ \A l \in 1..n : U[l + 3] = s[l]
      /\ U[n + 4] = Mode("M83") /\ U[n + 5] = Line("extrude", 20)
      /\ U[n + 6] = Line("extrude", -1) /\ U[n + 7] = Line("z", z)
      /\ U[n + 8] = OrigEMode(s) /\ U[n + 9] = Line("G92", 0)
  BY <1>2, <1>4, InitText
<1> HIDE DEF U, n
<1>len. U \in Texts /\ Len(U) = n + 9 /\ n \in Nat
  BY <1>5
<1>6. /\ AtFrom(b, U, n + 9) = RunFrom(b, U)
      /\ \A i \in 0..(n + 9) : AtFrom(b, U, i) \in Machine
      /\ \A i \in 1..(n + 9) : AtFrom(b, U, i) = Executed(AtFrom(b, U, i - 1), U[i]) /\ U[i] \in Lines
  <2>1. /\ AtFrom(b, U, Len(U)) = RunFrom(b, U) /\ \A i \in 0..Len(U) : AtFrom(b, U, i) \in Machine
        /\ \A i \in 1..Len(U) : AtFrom(b, U, i) = Executed(AtFrom(b, U, i - 1), U[i])
    BY <1>len, RunStepsFrom
  <2>2. \A i \in 1..Len(U) : U[i] \in Lines
    BY <1>len DEF Texts
  <2> QED
    BY <1>len, <2>1, <2>2
<1>7. /\ 3 \in 1..(n + 9) /\ 3 - 1 \in 0..(n + 9) /\ 3 \in 0..(n + 9)
      /\ n + 3 \in 0..(n + 9)
      /\ n + 6 \in (n + 3)..(n + 9)
      /\ n + 7 \in 1..(n + 9) /\ (n + 7) - 1 = n + 6 /\ n + 6 \in 0..(n + 9)
      /\ n + 8 \in 1..(n + 9) /\ (n + 8) - 1 = n + 7 /\ n + 7 \in 0..(n + 9)
      /\ n + 9 \in 1..(n + 9) /\ (n + 9) - 1 = n + 8 /\ n + 8 \in 0..(n + 9)
  BY <1>len
<1>8. ~AtFrom(b, U, 3).relative
  <2>1. U[3].cmd = "G90"
    BY <1>5 DEF Mode, Line
  <2>2. AtFrom(b, U, 3 - 1) \in Machine /\ U[3] \in Lines /\ AtFrom(b, U, 3) = Executed(AtFrom(b, U, 3 - 1), U[3])
    BY <1>6, <1>7
  <2> QED
    BY <2>1, <2>2, LineSets
<1>9. ~AtFrom(b, U, n + 3).relative
  <2>1. \A i, j \in 1..(first - 1) :
          T[i].cmd \in PositionModes /\ T[i].cmd = T[j].cmd => i = j
    BY DEF Carries
  <2>2. n + 3 <= Len(U)
    BY <1>5
  <2>3. Len(s) + 3 <= Len(U) /\ \A l \in 1..Len(s) : U[l + 3] = s[l]
    BY <1>5, <2>2 DEF n
  <2>4. ~AtFrom(b, U, Len(s) + 3).relative
    BY <1>1, <1>2, <1>3, <1>5, <1>8, <2>1, <2>3, PositionReplayed
  <2> QED
    BY <2>4 DEF n
<1>10. ~AtFrom(b, U, n + 6).relative
  <2>1. \A i \in ((n + 3) + 1)..(n + 6) : i = n + 4 \/ i = n + 5 \/ i = n + 6
    BY <1>len
  <2>2. /\ U[n + 4].cmd = "M83" /\ U[n + 5].cmd = "extrude" /\ U[n + 6].cmd = "extrude"
    BY <1>5 DEF Mode, Line
  <2>3. \A i \in ((n + 3) + 1)..(n + 6) : U[i].cmd \notin PositionModes
    BY <2>1, <2>2 DEF PositionModes
  <2>4. n + 3 \in 0..Len(U) /\ n + 6 \in (n + 3)..Len(U)
    BY <1>5, <1>7
  <2> QED
    BY <1>5, <1>9, <2>3, <2>4, LinesKeepFrom
<1>11. AtFrom(b, U, n + 7).z = z /\ ~AtFrom(b, U, n + 7).relative
  <2>1. U[n + 7].cmd = "z" /\ U[n + 7].arg = z /\ U[n + 7].cmd \notin PositionModes
    BY <1>5 DEF Line, PositionModes
  <2>2. /\ AtFrom(b, U, n + 6) \in Machine /\ U[n + 7] \in Lines
        /\ AtFrom(b, U, n + 7) = Executed(AtFrom(b, U, n + 6), U[n + 7])
    BY <1>6, <1>7
  <2> QED
    BY <1>10, <2>1, <2>2, LineSets, LineKeeps DEF ZMoves
<1>12. /\ AtFrom(b, U, n + 8).z = z /\ ~AtFrom(b, U, n + 8).relative
       /\ AtFrom(b, U, n + 8).relativeE <=> At(T, start - 1).relativeE
  <2>1. /\ U[n + 8].cmd = OrigEMode(s).cmd /\ U[n + 8].cmd \in {"M82", "M83"}
        /\ U[n + 8].cmd \notin PositionModes /\ U[n + 8].cmd \notin ZMoves
    BY <1>4, <1>5 DEF ExtruderModes, PositionModes, ZMoves
  <2>2. /\ AtFrom(b, U, n + 7) \in Machine /\ U[n + 8] \in Lines
        /\ AtFrom(b, U, n + 8) = Executed(AtFrom(b, U, n + 7), U[n + 8])
    BY <1>6, <1>7
  <2>3. AtFrom(b, U, n + 8).z = z /\ ~AtFrom(b, U, n + 8).relative
    BY <1>11, <2>1, <2>2, LineKeeps
  <2>4. AtFrom(b, U, n + 8).relativeE <=> U[n + 8].cmd = "M83"
    BY <2>1, <2>2, LineSets
  <2> QED
    BY <1>4, <2>1, <2>3, <2>4
<1>13. /\ AtFrom(b, U, n + 9).z = z /\ ~AtFrom(b, U, n + 9).relative /\ AtFrom(b, U, n + 9).e = 0
       /\ AtFrom(b, U, n + 9).relativeE <=> At(T, start - 1).relativeE
  <2>1. /\ U[n + 9].cmd = "G92" /\ U[n + 9].arg = 0
        /\ U[n + 9].cmd \notin PositionModes /\ U[n + 9].cmd \notin ExtruderModes
        /\ U[n + 9].cmd \notin ZMoves
    BY <1>5 DEF Line, PositionModes, ExtruderModes, ZMoves
  <2>2. /\ AtFrom(b, U, n + 8) \in Machine /\ U[n + 9] \in Lines
        /\ AtFrom(b, U, n + 9) = Executed(AtFrom(b, U, n + 8), U[n + 9])
    BY <1>6, <1>7
  <2>3. /\ AtFrom(b, U, n + 9).z = AtFrom(b, U, n + 8).z /\ AtFrom(b, U, n + 9).relative = AtFrom(b, U, n + 8).relative
        /\ AtFrom(b, U, n + 9).relativeE = AtFrom(b, U, n + 8).relativeE
    BY <2>1, <2>2, LineKeeps
  <2>4. AtFrom(b, U, n + 9).e = 0
    BY <2>1, <2>2, LineSets
  <2> QED
    BY <1>12, <2>3, <2>4
<1>14. RunFrom(b, U) \in Machine
  <2>1. n + 9 \in 0..(n + 9)
    BY <1>len
  <2> QED
    BY <1>6, <2>1
<1>15. AtFrom(b, U, n + 9) = RunFrom(b, U)
  BY <1>6
<1> QED
  BY <1>len, <1>13, <1>14, <1>15 DEF U, s

\* After the line at which a layer begins, what is printed first.
LEMMA FirstPrinted ==
  ASSUME NEW st, NEW T \in Texts, T # <<>>, T[Len(T)].cmd = "extrude",
         NEW start \in 1..Len(T), NEW k \in Nat, Tells(st, T, start, k),
         st = "heights" \/ ~At(T, k - 1).relative
  PROVE  LET p == Len(At(T, start - 1).printed) IN
         /\ p \in Nat /\ p < Len(Run(T).printed)
         /\ Run(T).printed[p + 1].z <= IF st = "heights" THEN T[start].arg ELSE T[k].arg
<1> DEFINE n == Len(T)
           S == {i \in k..n : T[i].cmd = "extrude"}
<1>1. /\ n \in Nat /\ DOMAIN T = 1..n /\ k \in 1..n /\ start <= k
      /\ T[k].cmd # "extrude" /\ \A j \in start..(k - 1) : T[j].cmd # "extrude"
  BY DEF Tells, Texts, ZMoves
<1>2. n \in S /\ S \in SUBSET Nat
  BY <1>1
<1>3. PICK m \in S : \A i \in S : m <= i
  BY <1>2, LeastNatural
<1>4. m \in k..n /\ T[m].cmd = "extrude"
  BY <1>3
<1>5. m > k /\ m \in 1..n
  <2>1. m # k
    BY <1>1, <1>4
  <2> QED
    BY <1>1, <1>4, <2>1
<1>6. \A j \in k..(m - 1) : T[j].cmd # "extrude"
  <2>1. \A j \in k..(m - 1) : j \in k..n /\ ~(m <= j)
    BY <1>1, <1>5
  <2> QED
    BY <1>3, <2>1
<1> HIDE DEF S, n
<1>7. At(T, m - 1).z <= IF st = "heights" THEN T[start].arg ELSE T[k].arg
  BY <1>1, <1>4, <1>5, <1>6 DEF Tells
<1>8. At(T, m - 1).printed = At(T, start - 1).printed
  <2>1. \A j \in ((start - 1) + 1)..(m - 1) : j \in start..(k - 1) \/ j \in k..(m - 1)
    BY <1>1, <1>5
  <2>2. \A j \in ((start - 1) + 1)..(m - 1) : T[j].cmd # "extrude"
    BY <1>1, <1>6, <2>1
  <2>3. start - 1 \in 0..Len(T) /\ m - 1 \in (start - 1)..Len(T)
    BY <1>1, <1>5 DEF n
  <2> QED
    BY <2>2, <2>3, LinesKeep
<1>9. /\ m \in 1..Len(T) /\ m - 1 \in 0..Len(T) /\ m \in 0..Len(T)
      /\ Len(T) \in m..Len(T)
  BY <1>1, <1>5 DEF n
<1>10. /\ At(T, m - 1) \in Machine /\ T[m] \in Lines
       /\ At(T, m) = Executed(At(T, m - 1), T[m]) /\ At(T, Len(T)) = Run(T)
  BY <1>9, RunSteps DEF Texts
<1> DEFINE P == At(T, start - 1).printed
           x == [z |-> At(T, m - 1).z, amount |-> Amount(At(T, m - 1), T[m])]
<1>11. /\ At(T, m).printed = Append(P, x) /\ P \in Seq([z : Int, amount : Int])
       /\ x.z = At(T, m - 1).z
  BY <1>4, <1>8, <1>10, ExtrudeSets
<1> HIDE DEF P, x
<1>12. Len(At(T, m).printed) = Len(P) + 1 /\ At(T, m).printed[Len(P) + 1] = x
       /\ Len(P) \in Nat
  BY <1>11
<1>13. Run(T).printed[Len(P) + 1] = At(T, m).printed[Len(P) + 1]
  <2>1. Len(P) + 1 \in 1..Len(At(T, m).printed)
    BY <1>12
  <2> QED
    BY <1>9, <1>10, <2>1, PrintedGrows
<1>14. Run(T).printed[Len(P) + 1].z = At(T, m - 1).z
  BY <1>11, <1>12, <1>13
<1>15. Len(P) < Len(Run(T).printed)
  <2>1. Len(At(T, m).printed) <= Len(Run(T).printed) /\ Len(Run(T).printed) \in Nat
    BY <1>9, <1>10, PrintedGrows
  <2> QED
    BY <1>12, <2>1
<1> QED
  BY <1>7, <1>12, <1>14, <1>15 DEF P

\* ModesCarried tells lines apart, and mode lines differ in their command alone.
LEMMA CarriedModes ==
  ASSUME text \in Texts, ModesCarried, result.start \in 1..Len(text),
         result.first \in 1..result.start
  PROVE  Carries(text, result.start, result.first)
<1> DEFINE start == result.start
           first == result.first
<1>1. /\ \A i \in 1..(start - 1) : i \in 1..Len(text) /\ text[i] \in Lines
      /\ \A i \in 1..(first - 1) : i \in 1..(start - 1)
      /\ start \in Nat /\ first \in Nat
  BY DEF Texts
<1>2. /\ \A i \in 1..(start - 1) : text[i].cmd \in ExtruderModes => i \in 1..(first - 1)
      /\ \A i, j \in 1..(start - 1) :
           text[i].cmd \in ExtruderModes /\ text[j].cmd \in ExtruderModes => text[i] = text[j]
      /\ \A i, j \in 1..(start - 1) :
           /\ text[i].cmd \in PositionModes /\ text[j].cmd \in PositionModes
           /\ i \in 1..(first - 1) /\ j \in 1..(first - 1) /\ text[i] = text[j]
           => i = j
  BY DEF ModesCarried
<1> HIDE DEF start, first
<1>3. ASSUME NEW i \in 1..(first - 1), NEW j \in 1..(first - 1),
             text[i].cmd \in PositionModes, text[i].cmd = text[j].cmd
      PROVE  i = j
  <2>1. text[i] \in Lines /\ text[j] \in Lines
    BY <1>1
  <2>2. text[i].arg = 0 /\ text[j].arg = 0
    BY <1>3, <2>1 DEF Lines
  <2>3. text[i] = text[j]
    BY <1>3, <2>1, <2>2 DEF Lines
  <2> QED
    BY <1>1, <1>2, <1>3, <2>3
<1> QED
  BY <1>2, <1>3 DEF Carries, start, first

\* What the failed print has printed is left out.
LEMMA RestingType ==
  \A m \in Machine :
    /\ Resting(m) \in Machine /\ Resting(m).printed = <<>>
    /\ Resting(m).z = m.z /\ Resting(m).e = m.e
    /\ Resting(m).relative = m.relative /\ Resting(m).relativeE = m.relativeE
<1>1. <<>> \in Seq([z : Int, amount : Int])
  OBVIOUS
<1> QED
  BY <1>1 DEF Resting, Machine

Recording(T) ==
  [k \in 1..Len(T) |-> [v \in Seq(Machine) \ {<<>>} |-> Append(v, Executed(Last(v), T[k]))]]

\* All the states a print may stop in are the firmware's.
LEMMA StatesType ==
  ASSUME NEW T \in Texts
  PROVE  States(T) \in Seq(Machine)
<1> DEFINE n == Len(T)
           R == Seq(Machine) \ {<<>>}
           Add(v, line) == Append(v, Executed(Last(v), line))
           Iter(it) == [s \in SUBSET (1..n) |->
                          IF s = {} THEN <<PowerOn>>
                          ELSE Add(it[s \ {Max(s)}], T[Max(s)])]
           it == CHOOSE f : f = Iter(f)
<1>1. n \in Nat /\ DOMAIN T = 1..n /\ \A k \in 1..n : T[k] \in Lines
  BY DEF Texts
<1>2. Recording(T) \in [1..n -> [R -> R]]
  <2>1. ASSUME NEW v \in R, NEW k \in 1..n PROVE Append(v, Executed(Last(v), T[k])) \in R
    <3>1. v \in Seq(Machine) /\ v # <<>> /\ Len(v) \in 1..Len(v)
      OBVIOUS
    <3>2. Last(v) \in Machine
      BY <3>1 DEF Last
    <3>3. Executed(Last(v), T[k]) \in Machine
      BY <1>1, <3>2, ExecutedType
    <3> QED
      BY <3>1, <3>3
  <2> HIDE DEF R
  <2> QED
    BY <2>1 DEF Recording, R
<1>3. \A s \in SUBSET (1..n) : s # {} => Max(s) \in 1..n
  BY <1>1, MaxIsGreatest, \A s \in SUBSET (1..n) : s \in SUBSET (0..n)
<1>4. <<PowerOn>> \in R
  BY PowerOnType
<1>5. PICK f : Iterates(f, n, R, <<PowerOn>>, Recording(T))
  <2> HIDE DEF R
  <2> QED
    BY <1>1, <1>2, <1>4, FoldExists
<1>6. f = Iter(f)
  <2>1. \A s \in SUBSET (1..n) : f[s] = Iter(f)[s]
    <3>1. \A k \in 1..n : \A v \in R : Recording(T)[k][v] = Append(v, Executed(Last(v), T[k]))
      BY DEF Recording
    <3> HIDE DEF R
    <3> QED
      BY <1>3, <1>5, <3>1 DEF Iterates
  <2>2. f \in [SUBSET (1..n) -> R] /\ Iter(f) = [s \in SUBSET (1..n) |-> Iter(f)[s]]
    BY <1>5 DEF Iterates
  <2> HIDE DEF Iter, R
  <2> QED
    BY <2>1, <2>2
<1>7. it = Iter(it)
  <2> HIDE DEF Iter
  <2> QED
    BY <1>6
<1>8. States(T) = it[1..n]
  BY <1>1 DEF States, FoldLeft, MapThenFoldSet
<1>9. Folds(it, n, R, <<PowerOn>>, Recording(T))
  <2>1. \A k \in 1..n : \A v \in R : Recording(T)[k][v] = Append(v, Executed(Last(v), T[k]))
    BY DEF Recording
  <2> HIDE DEF it, R
  <2> QED
    BY <1>3, <1>7, <2>1 DEF Folds
<1> HIDE DEF it, n, R
<1>10. \E t : IsTrace(t, n, R, <<PowerOn>>, Recording(T)) /\ it[1..n] = t[n]
  BY <1>1, <1>2, <1>4, <1>9, FoldTrace
<1>11. n \in 0..n
  BY <1>1
<1>12. it[1..n] \in R
  BY <1>10, <1>11 DEF IsTrace
<1> QED
  BY <1>8, <1>12 DEF R

LEMMA StoppedType ==
  ASSUME text \in Texts
  PROVE  Stopped \subseteq Machine
<1>1. States(text) \in Seq(Machine)
  BY StatesType
<1>2. \A m \in Range(States(text)) : m \in Machine
  BY <1>1 DEF Range
<1> QED
  BY <1>2, RestingType DEF Stopped

\* Where the rest of an unfinished print begins, and what the firmware is set to,
\* whatever it was set to before.
LEMMA RestBegins ==
  ASSUME IInv, ResumedMidPrint
  PROVE  /\ text \in Texts /\ text # <<>> /\ text[Len(text)].cmd = "extrude"
         /\ ModesFirst(text)
         /\ result.start \in 1..Len(text)
         /\ \E j \in 1..(result.start - 1) : text[j].cmd = "extrude"
         /\ result.rest = SubSeq(text, result.start, Len(text))
         /\ Original = At(text, result.start - 1) /\ ~Original.relative
         /\ \A m \in Machine :
              /\ RestoredFrom(m) \in Machine /\ RestoredFrom(m).printed = <<>>
              /\ ~RestoredFrom(m).relative /\ RestoredFrom(m).e = 0
              /\ RestoredFrom(m).relativeE <=> Original.relativeE
         /\ \E k \in Nat :
              /\ Tells(style, text, result.start, k)
              /\ Min(Telling(text, result.start))
                   = IF style = "heights" THEN result.start ELSE k
              /\ \A m \in Machine :
                   RestoredFrom(m).z = IF style = "heights" THEN text[result.start].arg
                                                            ELSE text[k].arg
         /\ \E l \in Nat : Settles(text, result.start, l)
<1> DEFINE start == rows[RowOf(lastGood) + 1].at
           first == rows[1].at
           z     == ZOfLayer(text, start)
           Z(k)  == IF style = "heights" THEN text[start].arg ELSE text[k].arg
           T(k)  == Min(Telling(text, start)) = IF style = "heights" THEN start ELSE k
<1>r. Resumed /\ ModesCarried /\ ZMovesAgree /\ RowOf(lastGood) < Len(rows)
  BY DEF ResumedMidPrint
<1>1. /\ result = [refused |-> FALSE, start |-> start, first |-> first,
                   init |-> BuildInitSequence(PreambleState(text, first), z),
                   rest |-> SubSeq(text, start, Len(text))]
      /\ start \in 1..Len(text) /\ first \in 1..(start - 1)
      /\ \E j \in 1..(start - 1) : text[j].cmd = "extrude"
      /\ z \in Int
      /\ \E k \in Nat : Tells(style, text, start, k) /\ T(k) /\ z = Z(k)
      /\ \E l \in Nat : Settles(text, start, l)
      /\ ~At(text, start - 1).relative /\ ~At(text, first - 1).relative
  BY <1>r, ResumedAt DEF Resumed
<1>2. layer > 0
  BY <1>r, ResumedRows DEF Resumed
<1>3. text \in Texts /\ text # <<>> /\ text[Len(text)].cmd = "extrude" /\ ModesFirst(text)
  BY <1>2 DEF IInv, Written, LinesOk, LayersOk
<1> HIDE DEF start, first, z, Z, T
<1>4. /\ result.start = start /\ result.first = first
      /\ result.init = BuildInitSequence(PreambleState(text, first), z)
      /\ result.rest = SubSeq(text, start, Len(text))
  BY <1>1
<1>5. first \in 1..start /\ Len(text) \in Nat
  BY <1>1, <1>3 DEF Texts
<1>6. Carries(text, start, first)
  BY <1>1, <1>3, <1>4, <1>5, <1>r, CarriedModes
<1> DEFINE U == BuildInitSequence(PreambleState(text, first), z)
<1>7. \A m \in Machine :
        /\ RunFrom(m, U) \in Machine
        /\ ~RunFrom(m, U).relative /\ RunFrom(m, U).z = z /\ RunFrom(m, U).e = 0
        /\ RunFrom(m, U).relativeE <=> At(text, start - 1).relativeE
  BY <1>1, <1>3, <1>5, <1>6, InitRestores
<1> HIDE DEF U
<1>8. result.init = U /\ \A m : RestoredFrom(m) = Resting(RunFrom(m, U))
  BY <1>4 DEF RestoredFrom, U
<1>9. Original = At(text, start - 1)
  BY <1>4 DEF Original, At
<1>10. \A m \in Machine :
         /\ RestoredFrom(m) \in Machine /\ RestoredFrom(m).printed = <<>>
         /\ ~RestoredFrom(m).relative /\ RestoredFrom(m).e = 0
         /\ RestoredFrom(m).relativeE <=> Original.relativeE
         /\ RestoredFrom(m).z = z
  BY <1>7, <1>8, <1>9, RestingType
<1>11. \E k \in Nat : /\ Tells(style, text, start, k) /\ T(k)
                      /\ \A m \in Machine : RestoredFrom(m).z = Z(k)
  BY <1>1, <1>10
<1>12. /\ start \in 1..Len(text) /\ ~At(text, start - 1).relative
       /\ \E j \in 1..(start - 1) : text[j].cmd = "extrude"
       /\ \E l \in Nat : Settles(text, start, l)
  BY <1>1
<1> QED
  BY <1>3, <1>4, <1>9, <1>10, <1>11, <1>12 DEF Z, T

\* What is left to print.
LEMMA RemainderBegins ==
  ASSUME IInv, text \in Texts, result.start \in 1..Len(text),
         Original = At(text, result.start - 1)
  PROVE  LET all == Run(text).printed
             p   == Len(Original.printed)
         IN  /\ all \in Seq([z : Int, amount : Int]) /\ p \in 0..Len(all)
             /\ p < Len(all) => Head(Remainder) = all[p + 1]
<1> DEFINE S   == [z : Int, amount : Int]
           all == Run(text).printed
           p   == Len(Original.printed)
           a   == result.start - 1
<1>1. Len(text) \in Nat /\ a \in 0..Len(text) /\ Len(text) \in a..Len(text)
      /\ Len(text) \in 0..Len(text)
  BY DEF Texts
<1>2. At(text, Len(text)) = Run(text) /\ Run(text) \in Machine
  BY <1>1, RunSteps
<1>3. all \in Seq(S)
  BY <1>2 DEF Machine
<1>4. p \in Nat /\ p <= Len(all) /\ Len(all) \in Nat
  BY <1>1, <1>2, PrintedGrows
<1>5. Remainder = SubSeq(all, p + 1, Len(all))
  BY DEF Remainder
<1> HIDE DEF S, all, p
<1>6. p < Len(all) => Head(SubSeq(all, p + 1, Len(all))) = all[p + 1]
  <2>1. SUFFICES ASSUME p < Len(all) PROVE Head(SubSeq(all, p + 1, Len(all))) = all[p + 1]
    OBVIOUS
  <2>2. p + 1 \in 1..Len(all)
    BY <1>4, <2>1
  <2> QED
    BY <1>3, <1>4, <2>2
<1>7. p \in 0..Len(all)
  BY <1>4
<1> QED
  BY <1>3, <1>5, <1>6, <1>7 DEF S, all, p

LEMMA NeverLowered == IInv => NeverLoweredIntoPrint
<1> SUFFICES ASSUME IInv, ResumedMidPrint, HeightTold, NEW b \in Restored
             PROVE  b.z >= Head(Remainder).z
  BY DEF NeverLoweredIntoPrint
<1> DEFINE start == result.start
           p     == Len(Original.printed)
           all   == Run(text).printed
           Z(k)  == IF style = "heights" THEN text[start].arg ELSE text[k].arg
<1>1. /\ text \in Texts /\ text # <<>> /\ text[Len(text)].cmd = "extrude"
      /\ start \in 1..Len(text) /\ Original = At(text, start - 1)
      /\ \E k \in Nat :
           /\ Tells(style, text, start, k)
           /\ Min(Telling(text, start)) = IF style = "heights" THEN start ELSE k
           /\ \A m \in Machine : RestoredFrom(m).z = Z(k)
  BY RestBegins
<1>2. PICK k \in Nat :
             /\ Tells(style, text, start, k)
             /\ Min(Telling(text, start)) = IF style = "heights" THEN start ELSE k
             /\ \A m \in Machine : RestoredFrom(m).z = Z(k)
  BY <1>1
<1>3. b.z = Z(k)
  <2>1. PICK m \in Stopped : b = RestoredFrom(m)
    BY DEF Restored
  <2>2. m \in Machine
    BY <1>1, <2>1, StoppedType
  <2> QED
    BY <1>2, <2>1, <2>2
<1>4. style = "heights" \/ ~At(text, k - 1).relative
  <2>1. SUFFICES ASSUME style # "heights" PROVE ~At(text, k - 1).relative
    OBVIOUS
  <2>2. Min(Telling(text, start)) = k
    BY <1>2, <2>1
  <2>3. text[k].cmd = "height" \/ ~Run(SubSeq(text, 1, k - 1)).relative
    BY <2>2 DEF HeightTold
  <2>4. text[k].cmd # "height"
    BY <1>2 DEF Tells, ZMoves
  <2> QED
    BY <2>3, <2>4 DEF At
<1>5. p < Len(all) /\ all[p + 1].z <= Z(k)
  BY <1>1, <1>2, <1>4, FirstPrinted
<1>6. Head(Remainder) = all[p + 1]
  BY <1>1, <1>5, RemainderBegins
<1> QED
  <2>1. Z(k) \in Int /\ all[p + 1].z \in Int
    <3>1. k \in 1..Len(text) /\ \A i \in 1..Len(text) : text[i].arg \in Int
      BY <1>1, <1>2 DEF Tells, Texts, Lines
    <3> DEFINE S == [z : Int, amount : Int]
    <3>2. all \in Seq(S) /\ p \in 0..Len(all)
      BY <1>1, RemainderBegins
    <3> HIDE DEF S, all, p
    <3>3. p + 1 \in 1..Len(all)
      BY <1>5, <3>2
    <3>4. all[p + 1] \in S
      BY <3>2, <3>3
    <3> QED
      BY <1>1, <3>1, <3>4 DEF S
  <2> HIDE DEF Z, all, p
  <2> QED
    BY <1>3, <1>5, <1>6, <2>1

\* Wherever the failed print stopped, the nozzle is lowered to the height of the layer
\* that follows or to a hop above it, never into what is printed, when the preamble's
\* modes are carried over and the first line after the layer's that tells a height tells
\* one (HeightTold): that is the comment or the first Z move, and what is printed next
\* is no higher.
THEOREM SpecNeverLoweredIntoPrint == Spec => []NeverLoweredIntoPrint
<1> QED
  BY SpecIInv, NeverLowered, PTL

-----------------------------------------------------------------------------
(* The rest, executed after the original's layers and after the sequence.   *)

\* Both extrude the same amounts.
SameE(b, c) == b.relativeE \/ b.e = c.e

\* What B has after its first p elements, C has after its first q.
SuffixAlike(B, C, p, q) ==
  /\ Len(C) - q = Len(B) - p
  /\ \A i \in 1..(Len(B) - p) : B[p + i] = C[q + i]

LEMMA SuffixAppend ==
  ASSUME NEW S, NEW B \in Seq(S), NEW C \in Seq(S), NEW x \in S,
         NEW p \in 0..Len(B), NEW q \in Nat, SuffixAlike(B, C, p, q)
  PROVE  SuffixAlike(Append(B, x), Append(C, x), p, q)
<1> DEFINE BB == Append(B, x)
           CC == Append(C, x)
           lb == Len(B)
           lc == Len(C)
<1>1. /\ Len(BB) = lb + 1 /\ Len(CC) = lc + 1
      /\ \A i \in 1..lb : BB[i] = B[i]
      /\ \A i \in 1..lc : CC[i] = C[i]
      /\ BB[lb + 1] = x /\ CC[lc + 1] = x
      /\ lb \in Nat /\ lc \in Nat /\ p \in 0..lb
  OBVIOUS
<1>2. lc - q = lb - p /\ \A i \in 1..(lb - p) : B[p + i] = C[q + i]
  BY DEF SuffixAlike
<1> HIDE DEF BB, CC, lb, lc
<1>3. /\ p \in Int /\ q \in Int /\ lb \in Int /\ lc \in Int
      /\ lc + 1 - q = lb + 1 - p
  BY <1>1, <1>2
<1>4. ASSUME NEW i \in 1..(lb + 1 - p) PROVE BB[p + i] = CC[q + i]
  <2>1. CASE i \in 1..(lb - p)
    <3>1. p + i \in 1..lb /\ q + i \in 1..lc
      BY <1>1, <1>2, <2>1
    <3> QED
      BY <1>1, <1>2, <2>1, <3>1
  <2>2. CASE i = lb + 1 - p
    <3>1. p + i = lb + 1 /\ q + i = lc + 1
      BY <1>2, <1>3, <2>2
    <3> QED
      BY <1>1, <3>1
  <2> QED
    BY <1>3, <2>1, <2>2
<1>5. Len(CC) - q = Len(BB) - p /\ Len(BB) - p = lb + 1 - p
  BY <1>1, <1>3
<1>6. SuffixAlike(BB, CC, p, q)
  BY <1>4, <1>5 DEF SuffixAlike
<1> QED
  BY <1>6 DEF BB, CC

\* One line, executed by both.
LEMMA LineAlike ==
  ASSUME NEW b \in Machine, NEW c \in Machine, NEW line \in Lines,
         b.relative = c.relative, b.relativeE = c.relativeE
  PROVE  LET d == Executed(b, line)
             f == Executed(c, line)
         IN  /\ d.relative = f.relative /\ d.relativeE = f.relativeE
             /\ b.z = c.z \/ (line.cmd \in ZMoves /\ ~b.relative) => d.z = f.z
             /\ line.cmd = "G92" => d.e = f.e
             /\ SameE(b, c) /\ line.cmd \notin ExtruderModes => SameE(d, f)
             /\ \A p \in 0..Len(b.printed) : \A q \in Nat :
                  /\ SuffixAlike(b.printed, c.printed, p, q)
                  /\ line.cmd = "extrude" => b.z = c.z /\ SameE(b, c)
                  => SuffixAlike(d.printed, f.printed, p, q)
<1> DEFINE d == Executed(b, line)
           f == Executed(c, line)
<1>1. d.relative = f.relative
  <2>1. CASE line.cmd \in PositionModes
    <3>1. CASE line.cmd = "G91"
      <4>1. d.relative /\ f.relative /\ d \in Machine /\ f \in Machine
        BY <3>1, LineSets, ExecutedType
      <4> QED
        BY <4>1 DEF Machine
    <3>2. CASE line.cmd = "G90"
      <4>1. ~d.relative /\ ~f.relative /\ d \in Machine /\ f \in Machine
        BY <3>2, LineSets, ExecutedType
      <4> QED
        BY <4>1 DEF Machine
    <3> QED
      BY <2>1, <3>1, <3>2 DEF PositionModes
  <2>2. CASE line.cmd \notin PositionModes
    BY <2>2, LineKeeps
  <2> QED
    BY <2>1, <2>2
<1>2. d.relativeE = f.relativeE
  <2>1. CASE line.cmd \in ExtruderModes
    <3>1. CASE line.cmd = "M83"
      <4>1. d.relativeE /\ f.relativeE /\ d \in Machine /\ f \in Machine
        BY <3>1, LineSets, ExecutedType
      <4> QED
        BY <4>1 DEF Machine
    <3>2. CASE line.cmd = "M82"
      <4>1. ~d.relativeE /\ ~f.relativeE /\ d \in Machine /\ f \in Machine
        BY <3>2, LineSets, ExecutedType
      <4> QED
        BY <4>1 DEF Machine
    <3> QED
      BY <2>1, <3>1, <3>2 DEF ExtruderModes
  <2>2. CASE line.cmd \notin ExtruderModes
    BY <2>2, LineKeeps
  <2> QED
    BY <2>1, <2>2
<1>3. b.z = c.z \/ (line.cmd \in ZMoves /\ ~b.relative) => d.z = f.z
  <2>1. CASE line.cmd \in ZMoves
    <3>1. /\ d.z = IF b.relative THEN b.z + line.arg ELSE line.arg
          /\ f.z = IF c.relative THEN c.z + line.arg ELSE line.arg
      BY <2>1, LineSets
    <3> HIDE DEF d, f
    <3> QED
      BY <3>1
  <2>2. CASE line.cmd \notin ZMoves
    <3>1. d.z = b.z /\ f.z = c.z
      BY <2>2, LineKeeps
    <3> HIDE DEF d, f
    <3> QED
      BY <2>2, <3>1
  <2> QED
    BY <2>1, <2>2
<1>4. line.cmd = "G92" => d.e = f.e
  <2>1. line.cmd = "G92" => d.e = line.arg /\ f.e = line.arg
    BY LineSets
  <2> QED
    BY <2>1
<1>5. ASSUME SameE(b, c), line.cmd \notin ExtruderModes PROVE SameE(d, f)
  <2>1. d.relativeE = b.relativeE
    BY <1>5, LineKeeps
  <2>2. CASE b.relativeE
    BY <2>1, <2>2 DEF SameE
  <2>3. CASE ~b.relativeE
    <3>1. b.e = c.e /\ ~c.relativeE
      BY <1>5, <2>3 DEF SameE
    <3>2. CASE line.cmd = "G92"
      BY <1>4, <3>2 DEF SameE
    <3>3. CASE line.cmd = "extrude"
      <4>1. d.e = b.e + Amount(b, line) /\ f.e = c.e + Amount(c, line)
        BY <3>3, ExtrudeSets
      <4>2. Amount(b, line) = Amount(c, line)
        BY <2>3, <3>1 DEF Amount
      <4> QED
        BY <3>1, <4>1, <4>2 DEF SameE
    <3>4. CASE line.cmd \notin {"G92", "extrude"}
      <4>1. d.e = b.e /\ f.e = c.e
        BY <3>4, LineKeeps
      <4> QED
        BY <3>1, <4>1 DEF SameE
    <3> QED
      BY <3>2, <3>3, <3>4
  <2> QED
    BY <2>2, <2>3
<1>6. ASSUME NEW p \in 0..Len(b.printed), NEW q \in Nat, SuffixAlike(b.printed, c.printed, p, q),
             line.cmd = "extrude" => b.z = c.z /\ SameE(b, c)
      PROVE  SuffixAlike(d.printed, f.printed, p, q)
  <2>1. CASE line.cmd = "extrude"
    <3> DEFINE x == [z |-> b.z, amount |-> Amount(b, line)]
               S == [z : Int, amount : Int]
    <3>1. Amount(b, line) = Amount(c, line) /\ b.z = c.z
      BY <1>6, <2>1 DEF Amount, SameE
    <3>2. /\ d.printed = Append(b.printed, x) /\ x \in S
          /\ b.printed \in Seq(S) /\ c.printed \in Seq(S)
      BY <2>1, ExtrudeSets
    <3>3. f.printed = Append(c.printed, [z |-> c.z, amount |-> Amount(c, line)])
      BY <2>1, ExtrudeSets
    <3>4. f.printed = Append(c.printed, x)
      BY <3>1, <3>3
    <3> HIDE DEF x, S, d, f
    <3>5. SuffixAlike(Append(b.printed, x), Append(c.printed, x), p, q)
      BY <1>6, <3>2, SuffixAppend
    <3> QED
      BY <3>2, <3>4, <3>5
  <2>2. CASE line.cmd # "extrude"
    <3>1. d.printed = b.printed /\ f.printed = c.printed
      BY <2>2, LineKeeps
    <3> HIDE DEF d, f
    <3> QED
      BY <1>6, <3>1
  <2> QED
    BY <2>1, <2>2
<1> HIDE DEF d, f
<1>7. SameE(b, c) /\ line.cmd \notin ExtruderModes => SameE(d, f)
  BY <1>5
<1>8. \A p \in 0..Len(b.printed) : \A q \in Nat :
        /\ SuffixAlike(b.printed, c.printed, p, q)
        /\ line.cmd = "extrude" => b.z = c.z /\ SameE(b, c)
        => SuffixAlike(d.printed, f.printed, p, q)
  BY <1>6
<1> QED
  BY <1>1, <1>2, <1>3, <1>4, <1>7, <1>8 DEF d, f

\* T from line a on is R.
SameRest(T, R, a, r) ==
  /\ a \in Nat /\ r \in Nat /\ Len(T) = a + r /\ Len(R) = r
  /\ \A j \in 1..r : R[j] = T[a + j]

\* The rest settles at its line k, by an absolute move, before it extrudes.
Settled(T, a, r, k) ==
  /\ k \in 1..r /\ T[a + k].cmd \in ZMoves /\ ~At(T, a + k - 1).relative
  /\ \A j \in 1..(k - 1) : T[a + j].cmd # "extrude"

\* A reset follows before anything is extruded.
ResetAhead(T, a, j, r) ==
  \E g \in (j + 1)..r :
    /\ T[a + g].cmd = "G92"
    /\ \A i \in (j + 1)..(g - 1) : T[a + i].cmd # "extrude"

\* The same lines print alike, though they begin at different heights, after
\* different extrusions and at different positions of the extruder.
LEMMA RestAlike ==
  ASSUME NEW T \in Texts, NEW R \in Texts, NEW a, NEW r, SameRest(T, R, a, r),
         NEW m \in Machine, m.printed = <<>>,
         ~At(T, a).relative, ~m.relative,
         m.relativeE <=> At(T, a).relativeE,
         \A j \in 1..r : T[a + j].cmd \notin ExtruderModes,
         NEW k, Settled(T, a, r, k),
         SameE(At(T, a), m) \/ ResetAhead(T, a, 0, r)
  PROVE  SuffixAlike(Run(T).printed, RunFrom(m, R).printed, Len(At(T, a).printed), 0)
<1> DEFINE b(j) == At(T, a + j)
           c(j) == AtFrom(m, R, j)
           p == Len(At(T, a).printed)
           Alike(j) ==
             /\ b(j).relative = c(j).relative /\ b(j).relativeE = c(j).relativeE
             /\ j >= k => b(j).z = c(j).z
             /\ SameE(b(j), c(j)) \/ ResetAhead(T, a, j, r)
             /\ SuffixAlike(b(j).printed, c(j).printed, p, 0)
           S == {j \in 0..r : Alike(j)}
<1>1. /\ a \in Nat /\ r \in Nat /\ Len(T) = a + r /\ Len(R) = r
      /\ \A j \in 1..r : R[j] = T[a + j]
      /\ k \in 1..r
  BY DEF SameRest, Settled
<1>2. \A j \in 0..r : b(j) \in Machine /\ c(j) \in Machine
  <2>1. \A j \in 0..r : a + j \in 0..Len(T) /\ j \in 0..Len(R)
    BY <1>1
  <2> QED
    BY <2>1, RunSteps, RunStepsFrom
<1>3. /\ b(0) = At(T, a) /\ c(0) = m /\ 0 \in 0..r /\ r \in 0..r
      /\ b(r) = Run(T) /\ c(r) = RunFrom(m, R)
  <2>1. a + 0 = a /\ 0 \in 0..r /\ r \in 0..r
    BY <1>1
  <2>2. /\ At(T, Len(T)) = Run(T) /\ AtFrom(m, R, Len(R)) = RunFrom(m, R)
        /\ AtFrom(m, R, 0) = m
    BY RunSteps, RunStepsFrom
  <2> QED
    BY <1>1, <2>1, <2>2
<1>4. p \in Nat /\ 0 \in Nat
  BY <1>2, <1>3 DEF Machine
<1>5. \A j \in 0..r : p \in 0..Len(b(j).printed)
  <2> SUFFICES ASSUME NEW j \in 0..r PROVE p \in 0..Len(b(j).printed)
    OBVIOUS
  <2>1. a \in 0..Len(T) /\ a + j \in a..Len(T)
    BY <1>1
  <2>2. /\ Len(At(T, a).printed) <= Len(At(T, a + j).printed)
        /\ Len(At(T, a + j).printed) \in Nat
    BY <2>1, PrintedGrows
  <2> QED
    BY <1>4, <2>2
<1>6. Alike(0)
  <2>1. b(0).relative = c(0).relative /\ b(0).relativeE = c(0).relativeE
    BY <1>2, <1>3 DEF Machine
  <2>2. SuffixAlike(b(0).printed, c(0).printed, p, 0)
    <3>1. p - p = 0 /\ 0 - 0 = 0 /\ 1..0 = {}
      BY <1>4
    <3> HIDE DEF b, c
    <3>2. Len(b(0).printed) = p /\ Len(c(0).printed) = 0
      BY <1>3
    <3> HIDE DEF p
    <3> QED
      BY <3>1, <3>2 DEF SuffixAlike
  <2>3. ~(0 >= k)
    BY <1>1
  <2>4. SameE(b(0), c(0)) \/ ResetAhead(T, a, 0, r)
    BY <1>3
  <2> HIDE DEF b, c, p
  <2> QED
    BY <2>1, <2>2, <2>3, <2>4
<1>7. ASSUME NEW j \in 0..(r - 1), Alike(j) PROVE Alike(j + 1)
  <2> DEFINE line == T[a + (j + 1)]
  <2>1. /\ j + 1 \in 1..r /\ j \in 0..r /\ j \in Nat /\ (j + 1) - 1 = j
        /\ a + (j + 1) \in 1..Len(T) /\ j + 1 \in 1..Len(R)
        /\ (a + (j + 1)) - 1 = a + j
    BY <1>1
  <2>2. /\ line \in Lines /\ b(j) \in Machine /\ c(j) \in Machine
        /\ b(j + 1) = Executed(b(j), line) /\ c(j + 1) = Executed(c(j), line)
    <3>1. R[j + 1] = T[a + (j + 1)]
      BY <1>1, <2>1
    <3>2. T[a + (j + 1)] \in Lines
      BY <2>1 DEF Texts
    <3>3. /\ At(T, a + (j + 1)) = Executed(At(T, (a + (j + 1)) - 1), T[a + (j + 1)])
          /\ AtFrom(m, R, j + 1) = Executed(AtFrom(m, R, (j + 1) - 1), R[j + 1])
      BY <2>1, RunSteps, RunStepsFrom
    <3> QED
      BY <1>2, <2>1, <3>1, <3>2, <3>3
  <2>3. line.cmd \notin ExtruderModes
    BY <2>1
  <2>4. /\ j + 1 < k => line.cmd # "extrude"
        /\ j + 1 = k => line.cmd \in ZMoves /\ ~b(j).relative
    <3>1. /\ \A i \in 1..(k - 1) : T[a + i].cmd # "extrude"
          /\ T[a + k].cmd \in ZMoves /\ ~At(T, a + k - 1).relative
      BY DEF Settled
    <3>2. j + 1 < k => j + 1 \in 1..(k - 1)
      BY <1>1, <2>1
    <3>3. j + 1 = k => a + k - 1 = a + j
      BY <1>1, <2>1
    <3> QED
      BY <3>1, <3>2, <3>3
  <2>5. /\ b(j).relative = c(j).relative /\ b(j).relativeE = c(j).relativeE
        /\ j >= k => b(j).z = c(j).z
        /\ SameE(b(j), c(j)) \/ ResetAhead(T, a, j, r)
        /\ SuffixAlike(b(j).printed, c(j).printed, p, 0)
        /\ p \in 0..Len(b(j).printed) /\ 0 \in Nat
    BY <1>4, <1>5, <1>7, <2>1
  <2>6. /\ ResetAhead(T, a, j, r) /\ line.cmd # "G92" =>
             ResetAhead(T, a, j + 1, r) /\ line.cmd # "extrude"
    <3>1. SUFFICES ASSUME ResetAhead(T, a, j, r), line.cmd # "G92"
                   PROVE  ResetAhead(T, a, j + 1, r) /\ line.cmd # "extrude"
      OBVIOUS
    <3>2. PICK g \in (j + 1)..r : /\ T[a + g].cmd = "G92"
                                  /\ \A i \in (j + 1)..(g - 1) : T[a + i].cmd # "extrude"
      BY <3>1 DEF ResetAhead
    <3>3. g # j + 1
      BY <3>1, <3>2
    <3>4. /\ g \in ((j + 1) + 1)..r /\ j + 1 \in (j + 1)..(g - 1)
          /\ \A i \in ((j + 1) + 1)..(g - 1) : i \in (j + 1)..(g - 1)
      BY <1>1, <2>1, <3>3
    <3> QED
      BY <3>2, <3>4 DEF ResetAhead
  <2> HIDE DEF b, c, p, line
  <2>7. /\ b(j + 1).relative = c(j + 1).relative /\ b(j + 1).relativeE = c(j + 1).relativeE
        /\ b(j).z = c(j).z \/ (line.cmd \in ZMoves /\ ~b(j).relative) =>
             b(j + 1).z = c(j + 1).z
        /\ line.cmd = "G92" => b(j + 1).e = c(j + 1).e
        /\ SameE(b(j), c(j)) /\ line.cmd \notin ExtruderModes => SameE(b(j + 1), c(j + 1))
    BY <2>2, <2>5, LineAlike
  <2>8. line.cmd = "extrude" => b(j).z = c(j).z /\ SameE(b(j), c(j))
    <3>1. ASSUME line.cmd = "extrude" PROVE b(j).z = c(j).z /\ SameE(b(j), c(j))
      <4>1. ~(j + 1 < k) /\ j + 1 # k
        BY <2>4, <3>1 DEF ZMoves
      <4>2. j >= k
        BY <1>1, <2>1, <4>1
      <4> QED
        BY <2>5, <2>6, <3>1, <4>2
    <3> QED
      BY <3>1
  <2>9. SuffixAlike(b(j + 1).printed, c(j + 1).printed, p, 0)
    BY <2>2, <2>5, <2>8, LineAlike
  <2>11. j + 1 >= k => b(j + 1).z = c(j + 1).z
    <3>1. j + 1 >= k => j >= k \/ j + 1 = k
      BY <1>1, <2>1
    <3> QED
      BY <2>4, <2>5, <2>7, <3>1
  <2>12. SameE(b(j + 1), c(j + 1)) \/ ResetAhead(T, a, j + 1, r)
    <3>1. line.cmd = "G92" => SameE(b(j + 1), c(j + 1))
      BY <2>7 DEF SameE
    <3> QED
      BY <2>3, <2>5, <2>6, <2>7, <3>1
  <2> QED
    BY <2>7, <2>9, <2>11, <2>12
<1>8. r \in S
  <2> HIDE DEF Alike
  <2>1. 0 \in S /\ 0 \in Nat /\ \A j \in 0..(r - 1) : j \in S => j + 1 \in S
    BY <1>1, <1>3, <1>6, <1>7
  <2> HIDE DEF S
  <2>2. 0..r \subseteq S
    BY <1>1, <2>1, IntervalInduction
  <2> QED
    BY <1>3, <2>2
<1>9. SuffixAlike(b(r).printed, c(r).printed, p, 0)
  BY <1>8
<1> QED
  BY <1>3, <1>9

\* Equal from there on.
LEMMA SuffixEqual ==
  ASSUME NEW S, NEW B \in Seq(S), NEW C \in Seq(S), NEW p \in 0..Len(B), NEW q \in Nat,
         SuffixAlike(B, C, p, q)
  PROVE  SubSeq(C, q + 1, Len(C)) = SubSeq(B, p + 1, Len(B))
<1> DEFINE b == SubSeq(B, p + 1, Len(B))
           c == SubSeq(C, q + 1, Len(C))
           n == Len(B) - p
<1>1. /\ Len(B) \in Nat /\ Len(C) \in Nat /\ p \in Nat /\ n \in Nat
      /\ Len(C) - q = n /\ \A i \in 1..n : B[p + i] = C[q + i]
  BY DEF SuffixAlike
<1>2. b \in Seq(S) /\ Len(b) = n /\ \A i \in 1..n : b[i] = B[p + i]
  <2>1. p + 1 \in 1..(Len(B) + 1) /\ Len(B) \in (p + 1 - 1)..Len(B)
    BY <1>1
  <2>2. /\ b \in Seq(S) /\ Len(b) = (IF p + 1 <= Len(B) THEN Len(B) - (p + 1) + 1 ELSE 0)
        /\ \A i \in 1..Len(b) : b[i] = B[(p + 1) + i - 1]
    BY <2>1
  <2> HIDE DEF b
  <2>3. Len(b) = n
    BY <1>1, <2>2
  <2> HIDE DEF n
  <2>4. \A i \in 1..n : (p + 1) + i - 1 = p + i
    BY <1>1
  <2> QED
    BY <2>2, <2>3, <2>4
<1>3. c \in Seq(S) /\ Len(c) = n /\ \A i \in 1..n : c[i] = C[q + i]
  <2>1. q + 1 \in 1..(Len(C) + 1) /\ Len(C) \in (q + 1 - 1)..Len(C)
    BY <1>1
  <2>2. /\ c \in Seq(S) /\ Len(c) = (IF q + 1 <= Len(C) THEN Len(C) - (q + 1) + 1 ELSE 0)
        /\ \A i \in 1..Len(c) : c[i] = C[(q + 1) + i - 1]
    BY <2>1
  <2> HIDE DEF c
  <2>3. Len(c) = n
    BY <1>1, <2>2
  <2> HIDE DEF n
  <2>4. \A i \in 1..n : (q + 1) + i - 1 = q + i
    BY <1>1
  <2> QED
    BY <2>2, <2>3, <2>4
<1> HIDE DEF b, c, n
<1>4. b = c
  BY <1>1, <1>2, <1>3, SeqEqual
<1> QED
  BY <1>4 DEF b, c

\* The text from line i on.
LEMMA TextFrom ==
  ASSUME NEW T \in Texts, NEW i \in 1..Len(T)
  PROVE  LET a    == i - 1
             r    == Len(T) - a
             rest == SubSeq(T, i, Len(T))
         IN  /\ Len(T) \in Nat /\ DOMAIN T = 1..Len(T) /\ i \in Nat /\ a \in Nat /\ r \in Nat
             /\ r >= 1 /\ Len(T) = a + r /\ i = a + 1 /\ a \in 0..Len(T)
             /\ rest \in Texts /\ Len(rest) = r /\ DOMAIN rest = 1..r
             /\ \A j \in 1..r : rest[j] = T[a + j]
<1> DEFINE a    == i - 1
           r    == Len(T) - a
           rest == SubSeq(T, i, Len(T))
<1>1. Len(T) \in Nat /\ DOMAIN T = 1..Len(T) /\ i \in Nat
  BY DEF Texts
<1>2. /\ a \in Nat /\ r \in Nat /\ r >= 1 /\ Len(T) = a + r /\ i = a + 1 /\ a \in 0..Len(T)
  BY <1>1
<1>3. /\ rest \in Texts /\ DOMAIN rest = 1..Len(rest) /\ Len(rest) = Len(T) - i + 1
      /\ \A j \in 1..Len(rest) : rest[j] = T[i + j - 1]
  BY <1>1 DEF Texts
<1> HIDE DEF rest
<1>4. Len(rest) = r /\ \A j \in 1..r : i + j - 1 = a + j
  BY <1>1, <1>3
<1> HIDE DEF a, r
<1>5. rest \in Texts /\ Len(rest) = r /\ DOMAIN rest = 1..r /\ \A j \in 1..r : rest[j] = T[a + j]
  BY <1>3, <1>4
<1> QED
  BY <1>1, <1>2, <1>5 DEF a, r, rest

LEMMA PrintedAsBefore == IInv => RestPrintedAsBefore
<1> SUFFICES ASSUME IInv, ResumedMidPrint, ExtruderAgrees, NEW b \in Restored
             PROVE  RunFrom(b, result.rest).printed = Remainder
  BY DEF RestPrintedAsBefore
<1> DEFINE R == result.rest
           start == result.start
           a == start - 1
           r == Len(text) - a
           run == RunFrom(b, R).printed
           all == Run(text).printed
           p == Len(Original.printed)
<1>1. /\ text \in Texts /\ ModesFirst(text)
      /\ start \in 1..Len(text)
      /\ \E j \in 1..(start - 1) : text[j].cmd = "extrude"
      /\ R = SubSeq(text, start, Len(text))
      /\ Original = At(text, a) /\ ~Original.relative
      /\ \A m \in Machine :
           /\ RestoredFrom(m) \in Machine /\ RestoredFrom(m).printed = <<>>
           /\ ~RestoredFrom(m).relative /\ RestoredFrom(m).e = 0
           /\ RestoredFrom(m).relativeE <=> Original.relativeE
      /\ \E l \in Nat : Settles(text, start, l)
  BY RestBegins
<1>b. /\ b \in Machine /\ b.printed = <<>> /\ ~b.relative /\ b.e = 0
      /\ b.relativeE <=> Original.relativeE
  <2>1. PICK m \in Stopped : b = RestoredFrom(m)
    BY DEF Restored
  <2>2. m \in Machine
    BY <1>1, <2>1, StoppedType
  <2> QED
    BY <1>1, <2>1, <2>2
<1>2. /\ Len(text) \in Nat /\ DOMAIN text = 1..Len(text)
      /\ start \in Nat /\ a \in Nat /\ r \in Nat
      /\ r >= 1 /\ Len(text) = a + r /\ start = a + 1 /\ a \in 0..Len(text)
  BY <1>1, TextFrom
<1>3. /\ R \in Texts /\ Len(R) = r /\ DOMAIN R = 1..r
      /\ \A j \in 1..r : R[j] = text[a + j]
  BY <1>1, TextFrom
<1> HIDE DEF a, r
<1>6. SameRest(text, R, a, r)
  BY <1>2, <1>3 DEF SameRest
<1>7. \A j \in 1..r : text[a + j].cmd \notin ExtruderModes
  <2>1. PICK i \in 1..(start - 1) : text[i].cmd = "extrude"
    BY <1>1
  <2>2. \A j \in 1..r : a + j \in DOMAIN text /\ i \in DOMAIN text /\ ~(a + j < i)
    BY <1>2
  <2> QED
    BY <1>1, <2>1, <2>2 DEF ModesFirst
<1>8. PICK l \in Nat : Settles(text, start, l)
  BY <1>1
<1> DEFINE k == l - a
<1>9. Settled(text, a, r, k)
  <2>1. /\ l \in 1..Len(text) /\ start <= l /\ text[l].cmd \in ZMoves
        /\ ~At(text, l - 1).relative
        /\ \A j \in start..(l - 1) : text[j].cmd # "extrude"
    BY <1>2, <1>8 DEF Settles
  <2>2. /\ k \in 1..r /\ a + k = l /\ a + k - 1 = l - 1
        /\ \A j \in 1..(k - 1) : a + j \in start..(l - 1)
    BY <1>2, <2>1
  <2>3. \A j \in 1..(k - 1) : text[a + j].cmd # "extrude"
    BY <2>1, <2>2
  <2> HIDE DEF k
  <2> QED
    BY <2>1, <2>2, <2>3 DEF Settled
<1> HIDE DEF k
<1>10. SameE(Original, b) \/ ResetAhead(text, a, 0, r)
  <2>1. CASE Original.relativeE \/ Original.e = 0
    BY <1>b, <2>1 DEF SameE
  <2>2. ASSUME NEW i \in DOMAIN R, R[i].cmd = "G92",
               \A j \in 1..(i - 1) : R[j].cmd # "extrude"
        PROVE  ResetAhead(text, a, 0, r)
    <3>1. i \in (0 + 1)..r /\ \A j \in (0 + 1)..(i - 1) : j \in 1..(i - 1) /\ j \in 1..r
      BY <1>2, <1>3
    <3>2. text[a + i].cmd = "G92" /\ \A j \in (0 + 1)..(i - 1) : text[a + j].cmd # "extrude"
      BY <1>3, <2>2, <3>1
    <3> QED
      BY <3>1, <3>2 DEF ResetAhead
  <2> QED
    BY <2>1, <2>2 DEF ExtruderAgrees
<1>11. SuffixAlike(all, run, p, 0)
  <2>1. SuffixAlike(Run(text).printed, RunFrom(b, R).printed, Len(At(text, a).printed), 0)
    BY <1>1, <1>b, <1>3, <1>6, <1>7, <1>9, <1>10, RestAlike
  <2> QED
    BY <1>1, <2>1
<1> DEFINE S == [z : Int, amount : Int]
<1>12. all \in Seq(S) /\ p \in 0..Len(all)
  BY <1>1, RemainderBegins DEF a
<1>13. run \in Seq(S)
  <2>1. Len(R) \in 0..Len(R)
    BY <1>3 DEF Texts
  <2>2. RunFrom(b, R) \in Machine
    BY <1>b, <1>3, <2>1, RunStepsFrom
  <2> QED
    BY <2>2 DEF Machine
<1>14. Remainder = SubSeq(all, p + 1, Len(all))
  BY DEF Remainder
<1> HIDE DEF S, run, all, p
<1>15. SubSeq(run, 0 + 1, Len(run)) = SubSeq(all, p + 1, Len(all))
  BY <1>11, <1>12, <1>13, SuffixEqual
<1>16. SubSeq(run, 0 + 1, Len(run)) = run
  <2>1. SubSeq(run, 0 + 1, Len(run)) \in Seq(S)
        /\ Len(SubSeq(run, 0 + 1, Len(run))) = Len(run)
        /\ \A i \in 1..Len(run) : SubSeq(run, 0 + 1, Len(run))[i] = run[i]
    BY <1>13
  <2> QED
    BY <1>13, <2>1, SeqEqual
<1> QED
  BY <1>14, <1>15, <1>16 DEF run

\* Wherever the failed print stopped, and whatever the firmware was set to there, the
\* rest of an unfinished print is printed as it would have been, at the same heights and
\* with the same amounts of filament, when the preamble's modes are carried over and
\* the reset of the extruder does not mislead it (ExtruderAgrees).
THEOREM SpecRestPrintedAsBefore == Spec => []RestPrintedAsBefore
<1> QED
  BY SpecIInv, PrintedAsBefore, PTL
=============================================================================
