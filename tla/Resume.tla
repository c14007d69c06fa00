-------------------------------- MODULE Resume --------------------------------
(***************************************************************************)
(* Where a failed print is taken up again.  Encoding names the layers of a *)
(* G-code file by parse_gcode (core/gcode_parser.py); after a failure the  *)
(* plugin has the name of the last good layer and looks for the next one   *)
(* in the text with build_resume_gcode (core/resume.py), which has rules   *)
(* of its own, replays the preamble's modes and appends the rest.          *)
(*                                                                         *)
(* The slicer is external: it writes the file, line by line, in one of the *)
(* conventions parse_gcode knows, with lifts and hops where slicers put    *)
(* them.  So is the firmware, which executes the file and its resumption.  *)
(* A line is a command and a number; temperatures, fans, tools and feed    *)
(* rates are left out, the X and Y of a move too.  Layer n lies at height  *)
(* 2 * (n + 1), a hop is three units, that is, higher than the next layer. *)
(***************************************************************************)
EXTENDS Integers, SequencesExt

CONSTANTS
  MaxLayers,    \* bound on layers of a file
  MaxExtras,    \* bound on lines and hops the slicer may leave out as well
  ZLookahead    \* _Z_LOOKAHEAD: beyond a layer's comment and reset

ASSUME ResumeConstants ==
  MaxLayers \in Nat /\ MaxExtras \in Nat /\ ZLookahead \in Nat /\ ZLookahead >= 4

Line(cmd, arg) == [cmd |-> cmd, arg |-> arg]
Mode(cmd)      == Line(cmd, 0)

PositionModes == {"G90", "G91"}
ExtruderModes == {"M82", "M83"}
\* "z" is G1 Z, "fz" is G1 F Z, the feed rate before the height.
ZMoves == {"z", "fz"}
\* "layer" is ;LAYER:n, "height" is ;Z:z, "extrude" is G1 X Y E.
Commands == {"layer", "height", "extrude", "G92"} \cup ZMoves \cup PositionModes \cup ExtruderModes

-----------------------------------------------------------------------------
(* The firmware.                                                            *)

PowerOn == [z |-> 0, relative |-> FALSE, relativeE |-> FALSE, e |-> 0, printed |-> <<>>]

Executed(m, line) ==
  CASE line.cmd \in PositionModes -> [m EXCEPT !.relative = line.cmd = "G91"]
    [] line.cmd \in ExtruderModes -> [m EXCEPT !.relativeE = line.cmd = "M83"]
    [] line.cmd = "G92" -> [m EXCEPT !.e = line.arg]
    [] line.cmd \in ZMoves -> [m EXCEPT !.z = IF m.relative THEN @ + line.arg ELSE line.arg]
    [] line.cmd = "extrude" ->
         LET amount == IF m.relativeE THEN line.arg ELSE line.arg - m.e
         IN  [m EXCEPT !.e = @ + amount,
                       !.printed = Append(@, [z |-> m.z, amount |-> amount])]
    [] OTHER -> m

RunFrom(m, lines) == FoldLeft(Executed, m, lines)
Run(lines)        == RunFrom(PowerOn, lines)

\* All the states of a run, the first one included.
States(lines) ==
  FoldLeft(LAMBDA run, line : Append(run, Executed(Last(run), line)), <<PowerOn>>, lines)

-----------------------------------------------------------------------------
(* gcode_parser.py                                                          *)

\* has_layer_comments
HasLayerComments(text) == \E i \in DOMAIN text : text[i].cmd \in {"layer", "height"}

\* A layer record, and the line it begins at.
Record(idx, z, i) == [idx |-> idx, z |-> z, at |-> i, extrudes |-> FALSE]

ParserStart == [layers |-> <<>>, next |-> 0, z |-> 0, relative |-> FALSE]

\* The move's Z when it is higher than any before; lower ones are not tracked.
Raised(p, comments, i, z) ==
  IF z <= p.z THEN p
  ELSE IF ~comments
  THEN [p EXCEPT !.layers = Append(@, Record(p.next, z, i)), !.next = @ + 1, !.z = z]
  ELSE IF p.layers # <<>> /\ ~Last(p.layers).extrudes
  THEN [p EXCEPT !.layers[Len(p.layers)].z = z, !.z = z]
  ELSE [p EXCEPT !.z = z]

\* One turn of parse_gcode's loop.  _G0_G1 wants the feed rate last: of "fz" it sees
\* the feed rate only.
ParsedLine(p, comments, i, line) ==
  CASE line.cmd = "layer" ->
         [p EXCEPT !.layers = Append(@, Record(line.arg, p.z, i)), !.next = line.arg + 1]
    [] line.cmd = "height" ->
         [p EXCEPT !.layers = Append(@, Record(p.next, line.arg, i)),
                   !.next = @ + 1, !.z = line.arg]
    [] line.cmd \in PositionModes -> [p EXCEPT !.relative = line.cmd = "G91"]
    [] line.cmd = "z" ->
         Raised(p, comments, i, IF p.relative THEN p.z + line.arg ELSE line.arg)
    [] line.cmd = "extrude" /\ p.layers # <<>> ->
         [p EXCEPT !.layers[Len(p.layers)].extrudes = TRUE]
    [] OTHER -> p

ParseGcode(text) ==
  FoldLeft(LAMBDA p, i : ParsedLine(p, HasLayerComments(text), i, text[i]),
           ParserStart, [i \in DOMAIN text |-> i]).layers

-----------------------------------------------------------------------------
(* resume.py                                                                *)

\* _G1_Z_RE takes a Z wherever it stands, but no sign.
IsZMove(line) == line.cmd \in ZMoves /\ line.arg >= 0

\* The element of S with k smaller ones.
Nth(S, k) == CHOOSE i \in S : Cardinality({j \in S : j < i}) = k

LayerComments(text, k) == {i \in DOMAIN text : text[i] = Line("layer", k)}

HeightComments(text) == {i \in DOMAIN text : text[i].cmd = "height"}

\* Mutant: every change of Z counts.
DistinctZMoves(text) ==
  {i \in DOMAIN text : IsZMove(text[i]) /\
     \A j \in 1..(i - 1) : IsZMove(text[j]) => text[j].arg # text[i].arg}

\* Z moves above all Z moves before them.
AscendingZMoves(text) ==
  {i \in DOMAIN text : IsZMove(text[i]) /\
     \A j \in 1..(i - 1) : IsZMove(text[j]) => text[j].arg < text[i].arg}

\* _find_layer_start_line, 0 for None: each strategy is tried when those before
\* it have no such layer.
FindLayerStartLine(text, k) ==
  IF LayerComments(text, k) # {} THEN Min(LayerComments(text, k))
  ELSE IF Cardinality(HeightComments(text)) > k THEN Nth(HeightComments(text), k)
  ELSE IF Cardinality(AscendingZMoves(text)) > k THEN Nth(AscendingZMoves(text), k)
  ELSE 0

\* The lines of the look-ahead that tell a height.
Telling(text, start) ==
  {i \in start..(start + ZLookahead - 1) \cap DOMAIN text :
     text[i].cmd = "height" \/ IsZMove(text[i])}

\* Mutant: the last of them.
ZOfLayerLast(text, start) ==
  IF Telling(text, start) = {} THEN 0 ELSE text[Max(Telling(text, start))].arg

\* _z_of_layer
ZOfLayer(text, start) ==
  IF Telling(text, start) = {} THEN 0 ELSE text[Min(Telling(text, start))].arg

\* _extract_preamble_state: a command met again is overwritten where it stands in
\* the dict, which keeps the order of first occurrences.
PreambleState(text, first) ==
  LET preamble == SubSeq(text, 1, first - 1)
      new(i) == /\ preamble[i].cmd \in PositionModes \cup ExtruderModes
                /\ \A j \in 1..(i - 1) : preamble[j].cmd # preamble[i].cmd
  IN  FoldLeft(LAMBDA seen, i : IF new(i) THEN Append(seen, preamble[i]) ELSE seen,
               <<>>, [i \in DOMAIN preamble |-> i])

\* The first of the two in the preamble's state.
OrigEMode(state) ==
  LET modes == {i \in DOMAIN state : state[i].cmd \in ExtruderModes}
  IN  IF modes = {} THEN Mode("M82") ELSE state[Min(modes)]

\* Mutant: no M82 or M83 after the prime.
BuildInitPrimed(state, z) ==
  <<Mode("G91"), Line("z", 2), Mode("G90")>> \o state
    \o <<Mode("M83"), Line("extrude", 20), Line("extrude", -1), Line("z", z),
         Line("G92", 0)>>

\* _build_init_sequence
BuildInitSequence(state, z) ==
  <<Mode("G91"), Line("z", 2), Mode("G90")>> \o state
    \o <<Mode("M83"), Line("extrude", 20), Line("extrude", -1), Line("z", z),
         OrigEMode(state), Line("G92", 0)>>

Refused == [refused |-> TRUE]

\* build_resume_gcode
BuildResumeGcode(text, lastGood) ==
  LET found == FindLayerStartLine(text, 0)
      first == IF found = 0 THEN 1 ELSE found
      start == FindLayerStartLine(text, lastGood + 1)
      z     == ZOfLayer(text, start)
  IN  IF start = 0 \/ z = 0 THEN Refused
      ELSE [refused |-> FALSE, start |-> start, first |-> first,
            init |-> BuildInitSequence(PreambleState(text, first), z),
            rest |-> SubSeq(text, start, Len(text))]

-----------------------------------------------------------------------------
(* The slicer writes a file, which is encoded and printed; the print fails. *)

Styles == {"numbers", "heights", "both", "plain"}
Hops   == {"none", "absolute", "relative"}

VARIABLES
  style,        \* which comments the slicer writes
  resets,       \* whether it resets the extruder at every layer
  text,         \* the file so far
  layer,        \* layers begun
  extras,       \* lifts, modes and hops so far
  rows,         \* the layers table: what parse_gcode made of the file
  lastGood,     \* layer_idx of the row the plugin looked up
  result,       \* what build_resume_gcode made of it
  lastAgain,    \* the same after the resumed print has failed as well
  again

vars   == <<style, resets, text, layer, extras, rows, lastGood, result, lastAgain, again>>
second == <<lastAgain, again>>
slicer == <<style, resets, text, layer, extras>>

NoLayer == -1

TypeOK ==
  /\ style \in Styles /\ resets \in BOOLEAN
  /\ text \in Seq([cmd : Commands, arg : Int])
  /\ layer \in 0..MaxLayers /\ extras \in 0..MaxExtras
  /\ rows \in Seq([idx : Nat, z : Nat, at : Nat, extrudes : BOOLEAN])
  /\ \A m, n \in DOMAIN rows : rows[m].idx = rows[n].idx => m = n
  /\ {lastGood, lastAgain} \subseteq Nat \cup {NoLayer}
  /\ {result.refused, again.refused} \subseteq BOOLEAN

Init ==
  /\ style \in Styles /\ resets \in BOOLEAN
  /\ text = <<>> /\ layer = 0 /\ extras = 0
  /\ rows = <<>> /\ lastGood = NoLayer /\ result = Refused
  /\ lastAgain = NoLayer /\ again = Refused

Slicing == rows = <<>>

Height(n) == 2 * (n + 1)

\* A mode command or a lift at the top of the file.
WritePreamble(line) ==
  /\ Slicing /\ layer = 0 /\ extras < MaxExtras
  /\ text' = Append(text, line)
  /\ extras' = extras + 1
  /\ UNCHANGED <<style, resets, layer, rows, lastGood, result, second>>

\* The next unit of filament.
Extrude(lines) ==
  Append(lines, Line("extrude", IF Run(lines).relativeE THEN 1 ELSE Run(lines).e + 1))

Comment(n) ==
  CASE style = "numbers" -> <<Line("layer", n)>>
    [] style = "heights" -> <<Line("height", Height(n))>>
    [] style = "both" -> <<Line("layer", n), Line("height", Height(n))>>
    [] OTHER -> <<>>

\* A detour on the way to height z.
Detour(hop, z) ==
  CASE hop = "absolute" -> <<Line("z", z + 3)>>
    [] hop = "relative" -> <<Mode("G91"), Line("z", 3), Mode("G90")>>
    [] OTHER -> <<>>

\* A layer: its comment, the reset, perhaps a hop on the way, its Z, its lines.
\* Files are printed in absolute positioning.
WriteLayer(hop, move) ==
  LET more == extras + (IF hop = "none" THEN 0 ELSE 1) + (IF move = "z" THEN 0 ELSE 1)
  IN  /\ Slicing /\ layer < MaxLayers /\ ~Run(text).relative
      /\ more <= MaxExtras
      /\ text' = Extrude(text \o Comment(layer)
                           \o (IF resets THEN <<Line("G92", 0)>> ELSE <<>>)
                           \o Detour(hop, Height(layer))
                           \o <<Line(move, Height(layer))>>)
      /\ layer' = layer + 1
      /\ extras' = more
      /\ UNCHANGED <<style, resets, rows, lastGood, result, second>>

\* A hop within a layer, in absolute or relative coordinates.
WriteHop(relative) ==
  LET z == Height(layer - 1)
      hop == IF relative
             THEN <<Mode("G91"), Line("z", 3), Line("z", -3), Mode("G90")>>
             ELSE <<Line("z", z + 3), Line("z", z)>>
  IN  /\ Slicing /\ layer > 0 /\ extras < MaxExtras
      /\ text' = Extrude(text \o hop)
      /\ extras' = extras + 1
      /\ UNCHANGED <<style, resets, layer, rows, lastGood, result, second>>

\* Mutant: nothing keeps a layer from having two rows.
EncodeUnchecked ==
  /\ Slicing /\ ParseGcode(text) # <<>>
  /\ rows' = ParseGcode(text)
  /\ UNCHANGED <<slicer, lastGood, result, second>>

\* run_pipeline inserts a row per layer; UNIQUE(file_id, layer_idx) fails, and all
\* is rolled back, when the parser counts a layer with both comments twice.
Encode ==
  LET layers == ParseGcode(text) IN
  /\ Slicing /\ layers # <<>>
  /\ \A m, n \in DOMAIN layers : layers[m].idx = layers[n].idx => m = n
  /\ rows' = layers
  /\ UNCHANGED <<slicer, lastGood, result, second>>

\* PrintFailed: the row of the last good layer is looked up, and the resume file
\* built (_run_vision_pipeline, _build_resume_file).
Resume(row) ==
  /\ ~Slicing /\ lastGood = NoLayer
  /\ row.extrudes
  /\ lastGood' = row.idx
  /\ result' = BuildResumeGcode(text, row.idx)
  /\ UNCHANGED <<slicer, rows, second>>

ResumeFile == result.init \o result.rest

\* The resumed print fails in its turn, after a layer no lower than the last good
\* one.  PrintFailed's payload has the path of the file that was printed, which
\* _locate_gcode_file prefers to the original's name: build_resume_gcode is given
\* the resume file.  Its header is comments neither module counts.
ResumeAgain(row) ==
  /\ lastGood # NoLayer /\ ~result.refused /\ lastAgain = NoLayer
  /\ row.extrudes /\ row.idx >= lastGood
  /\ lastAgain' = row.idx
  /\ again' = BuildResumeGcode(ResumeFile, row.idx)
  /\ UNCHANGED <<slicer, rows, lastGood, result>>

Next ==
  \/ \E line \in {Mode(m) : m \in PositionModes \cup ExtruderModes}
                   \cup {Line("z", 0), Line("z", 5)} : WritePreamble(line)
  \/ \E hop \in Hops, move \in ZMoves : WriteLayer(hop, move)
  \/ \E relative \in BOOLEAN : WriteHop(relative)
  \/ Encode
  \/ \E n \in DOMAIN rows : Resume(rows[n]) \/ ResumeAgain(rows[n])

Spec == Init /\ [][Next]_vars

-----------------------------------------------------------------------------
(* Properties.                                                              *)

Resumed == lastGood # NoLayer /\ ~result.refused

RowOf(idx) == CHOOSE n \in DOMAIN rows : rows[n].idx = idx

\* Without comments both modules count rising Z moves, and they agree as long as
\* none is relative, none is to 0, which resume.py counts and the parser not, and
\* none has its feed rate first, which the parser does not see.
ZMovesAgree ==
  style = "plain" =>
    \A i \in DOMAIN text : text[i].cmd \in ZMoves =>
      /\ text[i].cmd = "z" /\ text[i].arg > 0
      /\ ~Run(SubSeq(text, 1, i - 1)).relative

\* The resume file begins where, for the parser, the layer after the last good one
\* begins: no layer is printed twice and none is left out, though the two modules
\* count layers by different rules and hops hide some layers from both.
NextLayerResumed ==
  lastGood # NoLayer /\ ZMovesAgree =>
    LET n == RowOf(lastGood) IN
    n < Len(rows) => ~result.refused /\ result.start = rows[n + 1].at

Resting(m) == [m EXCEPT !.printed = <<>>]

\* The firmware where the failed print stopped: after any of its lines, in whatever
\* modes, or switched off and on again.
Stopped == {Resting(m) : m \in Range(States(text))}

\* What it is set to when the rest begins, if it was m when the resume file began;
\* what the prime extrudes is not part of the print.
RestoredFrom(m) == Resting(RunFrom(m, result.init))
Restored        == {RestoredFrom(m) : m \in Stopped}

\* What it was set to there in the original print, and what was printed from there on.
Original == Run(SubSeq(text, 1, result.start - 1))
Remainder ==
  LET all == Run(text).printed IN SubSeq(all, Len(Original.printed) + 1, Len(all))

\* The preamble has modes the code can carry over: one extruder mode, nowhere
\* after it, and no position mode it goes back to.
ModesCarried ==
  LET before(modes) == {i \in 1..(result.start - 1) : text[i].cmd \in modes}
      carried       == 1..(result.first - 1)
  IN  /\ before(ExtruderModes) \subseteq carried
      /\ \A i, j \in before(ExtruderModes) : text[i] = text[j]
      /\ \A i, j \in before(PositionModes) \cap carried : text[i] = text[j] => i = j

\* The line _z_of_layer reads is a comment or an absolute move: it takes the distance
\* of a relative one for a height.
HeightTold ==
  LET told == Min(Telling(text, result.start))
  IN  text[told].cmd = "height" \/ ~Run(SubSeq(text, 1, told - 1)).relative

ResumedMidPrint == Resumed /\ ModesCarried /\ ZMovesAgree /\ RowOf(lastGood) < Len(rows)

\* The nozzle is lowered to the height of the layer that follows or to a hop above it,
\* never into what is printed, wherever the failed print stopped, when the preamble's
\* modes are carried over and the first height the layer tells is one.
NeverLoweredIntoPrint ==
  ResumedMidPrint /\ HeightTold => \A m \in Restored : m.z >= Head(Remainder).z

\* The extruder stands where the rest expects it: extrusion is relative, or the
\* original stood at 0 here too, or the rest resets it before it extrudes.
ExtruderAgrees ==
  \/ Original.relativeE
  \/ Original.e = 0
  \/ \E i \in DOMAIN result.rest :
       /\ result.rest[i].cmd = "G92"
       /\ \A j \in 1..(i - 1) : result.rest[j].cmd # "extrude"

\* The rest of an unfinished print is printed as it would have been, at the same
\* heights and with the same amounts of filament, wherever the failed print stopped and
\* whatever the prime and the lift did, when the modes are carried over and "G92 E0"
\* does not mislead the extruder.
RestPrintedAsBefore ==
  ResumedMidPrint /\ ExtruderAgrees =>
    \A m \in Restored : RunFrom(m, result.rest).printed = Remainder

\* docs/octoprint.md:74, "Locates the original GCode file (via the event payload
\* path ...": when the resumed print fails too, its resumption prints the layers that
\* follow.  The payload's path is the resume file's, whose preamble and layers
\* are not the original's: in a file with layer numbers the first Z move, in the
\* lift, is taken for layer 0, and the lift's G91 for the preamble's only mode.
SecondResumeAsFirst ==
  lastAgain # NoLayer /\ ~again.refused /\ RowOf(lastAgain) < Len(rows) =>
    LET run    == Run(again.init \o again.rest).printed
        all    == Run(text).printed
        before == Run(SubSeq(text, 1, rows[RowOf(lastAgain) + 1].at - 1)).printed
    IN  SubSeq(run, Len(Run(again.init).printed) + 1, Len(run))
          = SubSeq(all, Len(before) + 1, Len(all))
=============================================================================
