---------------------------- MODULE InfillModifier ----------------------------
(***************************************************************************)
(* How a layer's infill is made to carry a payload.  detect_infill         *)
(* (core/infill_detector.py) finds the layer's infill lines, run_pipeline  *)
(* has the payload spelled as gaps (core/encoder.py) when the lines are    *)
(* enough, and modify_layer (core/gcode_modifier.py) patches the Y of the  *)
(* lines' G-code, and of the travel it finds before each, so that the gaps *)
(* between the lines become the payload's.                                 *)
(*                                                                         *)
(* The slicer and the printer are external.  The slicer writes one layer of *)
(* horizontal lines, row by row: upwards or downwards, a line's spacing or *)
(* two from the row before or on the same height (a row cut in two by a    *)
(* hole), each line reached by a travel, by a travel between a retraction  *)
(* and its undoing, by a travel and a bare G1 that sets the feed rate, or  *)
(* by an extruded joint from the line before.  The printer executes the    *)
(* patched text.  X is left out, a command is one of the names below.      *)
(*                                                                         *)
(* A command that is given a Y it did not have loses its line end with the *)
(* blanks at its end, so in the written file it runs on into the next one. *)
(*                                                                         *)
(* Lengths are integers: a line's spacing is Spacing, and PayloadBits is   *)
(* the 32 of the program.                                                  *)
(***************************************************************************)
EXTENDS Integers, SequencesExt

CONSTANTS
  PayloadBits,  \* TOTAL_BITS
  Payloads,     \* the payloads tried, each the set of its 1 bits
  MaxRows,      \* bound on rows of the layer
  MaxOdd        \* bound on rows that differ from the layer's style

ASSUME ModifierConstants ==
  /\ PayloadBits \in Nat \ {0}
  /\ Payloads \subseteq SUBSET (1..PayloadBits)
  /\ MaxRows \in Nat \ {0} /\ MaxOdd \in Nat

\* The slicer's line spacing: a multiple of 20, so that every length is whole.
Spacing == 40

MaxBack  == 5                \* _find_preceding_travel's max_back
MinLines == PayloadBits + 3  \* MIN_LINES

-----------------------------------------------------------------------------
(* The slicer.                                                              *)

NoY == -1  \* a command without a Y: heights are not negative

\* ends: the command's text has its line end.
Commands == [cmd  : {"travel", "retract", "unretract", "feed", "joint", "line"},
             y    : Int,
             ends : BOOLEAN]

Command(cmd, y) == [cmd |-> cmd, y |-> y, ends |-> TRUE]

Leads == {"travel", "unretracted", "fed", "joint"}

\* The lines of text that bring the nozzle to the row.
LeadText(lead, y) ==
  CASE lead = "travel"      -> <<Command("travel", y)>>
    [] lead = "unretracted" -> <<Command("retract", NoY), Command("travel", y),
                                 Command("unretract", NoY)>>
    [] lead = "fed"         -> <<Command("travel", y), Command("feed", NoY)>>
    [] lead = "joint"       -> <<Command("joint", y)>>

-----------------------------------------------------------------------------
(* The printer.                                                             *)

\* A command without its line end is one with the next, and the last Y of a
\* command counts: the next has one, a line's.
MovesNozzle(command) == command.y # NoY /\ command.ends

\* Where the nozzle is after i commands.
NozzleAt(lines, i) == lines[Max({j \in 1..i : MovesNozzle(lines[j])})].y

\* The printed infill lines, each with its ends and the number of its command.
Printed(lines) ==
  {[y0 |-> NozzleAt(lines, i - 1), y1 |-> lines[i].y, at |-> i] :
     i \in {j \in DOMAIN lines : lines[j].cmd = "line"}}

Moves == [y0 : Int, y1 : Int, at : Nat \ {0}]

\* A line is where the middle of its ends is; middles are doubled.
Middle(line) == line.y0 + line.y1

Middles(printed) == {Middle(line) : line \in printed}

\* The element of S with k smaller ones.
Nth(S, k) == CHOOSE x \in S : Cardinality({y \in S : y < x}) = k

\* Distances between neighbours, those of two lines in one place left out.
Gaps(heights) ==
  [k \in 1..(Cardinality(heights) - 1) |-> Nth(heights, k) - Nth(heights, k - 1)]

\* What infill_detector computes of a text, and a camera sees of its print.
Spacings(lines) == Gaps(Middles(Printed(lines)))

-----------------------------------------------------------------------------
(* infill_detector.py                                                       *)

\* The sort's order: by height, lines of one height as they were.
Before(a, b) == Middle(a) < Middle(b) \/ (Middle(a) = Middle(b) /\ a.at < b.at)

\* group_sorted, of parse_gcode's infill moves along X: the k-th has k - 1 before it.
SortedLines(lines) ==
  LET printed == Printed(lines)
  IN  [k \in 1..Cardinality(printed) |->
         CHOOSE a \in printed : Cardinality({b \in printed : Before(b, a)}) = k - 1]

\* The k-th least of a sequence.
Least(gaps, k) ==
  CHOOSE gap \in Range(gaps) :
    /\ Cardinality({i \in DOMAIN gaps : gaps[i] < gap}) < k
    /\ Cardinality({i \in DOMAIN gaps : gaps[i] <= gap}) >= k

Median(gaps) ==
  LET half == Len(gaps) \div 2
  IN  IF Len(gaps) % 2 = 1 THEN Least(gaps, half + 1)
      ELSE (Least(gaps, half) + Least(gaps, half + 1)) \div 2

\* nominal_spacing_mm
Nominal(lines) == Median(Spacings(lines)) \div 2

-----------------------------------------------------------------------------
(* encoder.py and decoder.py                                                *)

\* payload_to_spacings
SpacingSequence(bits, width) ==
  [i \in 1..(PayloadBits + 2) |->
     IF i \in {1, PayloadBits + 2} THEN 2 * width
     ELSE IF i - 1 \in bits THEN (5 * width) \div 4
     ELSE (3 * width) \div 4]

\* _find_sync_pairs and _bits_from_spacings, for some pair; gaps are doubled.
Spells(gaps, bits, width) ==
  LET sync(i) == 5 * gaps[i] >= 16 * width
  IN  \E i \in 1..(Len(gaps) - PayloadBits - 1) :
        /\ sync(i) /\ sync(i + PayloadBits + 1)
        /\ bits = {b \in 1..PayloadBits : gaps[i + b] >= 2 * width}

-----------------------------------------------------------------------------
(* gcode_modifier.py                                                        *)

\* Mutant: the closing SYNC is forgotten.
NEncodeBits(moves) == Min({Len(moves) - 1, PayloadBits + 1})

NEncode(moves) == Min({Len(moves) - 1, PayloadBits + 2})

\* perp_positions: where line i + 1 goes.
Targets(moves, sequence) ==
  LET sum[i \in 0..Len(sequence)] ==
        IF i = 0 THEN Middle(moves[1]) \div 2 ELSE sum[i - 1] + sequence[i]
  IN  [i \in 1..NEncode(moves) |-> sum[i]]

\* The lines' heights with a margin of 5%.
Box(moves) ==
  LET ends   == {moves[i].y0 : i \in DOMAIN moves} \cup {moves[i].y1 : i \in DOMAIN moves}
      margin == (Max(ends) - Min(ends)) \div 20
  IN  [lo |-> Min(ends) - margin, hi |-> Max(ends) + margin]

Clamp(v, box) == Max({box.lo, Min({box.hi, v})})

\* G0 and G1 without "E" and a digit: a retraction has a minus sign there.
LooksLikeTravel(line) == line.cmd \in {"travel", "feed", "retract"}

\* Mutant: the first of the lines looked at.
FindFirstTravel(lines, at) ==
  LET found == {i \in 1..(at - 1) : i >= at - MaxBack /\ LooksLikeTravel(lines[i])}
  IN  IF found = {} THEN 0 ELSE Min(found)

\* _find_preceding_travel, 0 for None.
FindPrecedingTravel(lines, at) ==
  Max({0} \cup {i \in 1..(at - 1) : i >= at - MaxBack /\ LooksLikeTravel(lines[i])})

\* _replace_coord: a Y that is not there is appended, after an rstrip that takes
\* the line end that splitlines(keepends=True) had kept.
ReplaceCoord(command, y) ==
  IF command.y = NoY THEN [command EXCEPT !.y = y, !.ends = FALSE]
  ELSE [command EXCEPT !.y = y]

\* Mutant: a line without a travel gets one.
PatchLineInserting(lines, move, target, box) ==
  LET travel == FindPrecedingTravel(lines, move.at)
  IN  IF travel = 0 THEN InsertAt(lines, move.at, Command("travel", target))
      ELSE [lines EXCEPT ![move.at] = ReplaceCoord(@, Clamp(target, box)),
                         ![travel]  = ReplaceCoord(@, target)]

\* One turn of modify_layer's loop.  The travel goes to new_perp, not to the
\* clamped new_y0: no variable is called y0 ('y0' in dir()).
PatchLine(lines, move, target, box) ==
  LET y1      == Clamp(move.y1 + target - Middle(move) \div 2, box)
      travel  == FindPrecedingTravel(lines, move.at)
      patched == [lines EXCEPT ![move.at] = ReplaceCoord(@, y1)]
  IN  IF travel = 0 THEN patched ELSE [patched EXCEPT ![travel] = ReplaceCoord(@, target)]

ModifyLayer(lines, moves, sequence) ==
  LET targets == Targets(moves, sequence)
      box     == Box(moves)
  IN  FoldLeft(LAMBDA patched, i : PatchLine(patched, moves[i + 1], targets[i], box),
               lines, [i \in DOMAIN targets |-> i])

-----------------------------------------------------------------------------
VARIABLES
  up,        \* the slicer writes the rows upwards
  style,     \* how it reaches most rows
  odd,       \* rows that differ from that, or in their spacing
  text,      \* the layer's text
  outcome,   \* "writing", "detected", then the layer's encoded flag: "encoded" or "skipped"
  group,     \* InfillGroup.lines
  nominal,   \* InfillGroup.nominal_spacing_mm
  payload,   \* what an encoded layer is to say
  output     \* its patched text

vars == <<up, style, odd, text, outcome, group, nominal, payload, output>>

Outcomes == {"writing", "detected", "encoded", "skipped"}

Rows == Cardinality({i \in DOMAIN text : text[i].cmd = "line"})

\* Types, and modify_layer gives back the commands it was given, in their order; one
\* that no longer ends its line is one that was given a Y it did not have.
TypeOK ==
  /\ up \in BOOLEAN /\ style \in Leads /\ odd \in 0..MaxOdd
  /\ outcome \in Outcomes /\ payload \in Payloads \cup {{}}
  /\ text \in Seq(Commands) /\ Rows \in 1..MaxRows
  /\ group \in Seq(Moves) /\ nominal \in Nat /\ output \in Seq(Commands)
  /\ outcome = "encoded" =>
       /\ Len(output) = Len(text)
       /\ \A i \in DOMAIN text :
            output[i].cmd = text[i].cmd /\ (~output[i].ends => text[i].y = NoY)

Row(lead, y) == LeadText(lead, y) \o <<Command("line", y)>>

Init ==
  /\ up \in BOOLEAN /\ style \in Leads /\ odd = 0
  /\ text = Row("travel", IF up THEN 0 ELSE 2 * Spacing * MaxRows)
  /\ outcome = "writing" /\ group = <<>> /\ nominal = 0 /\ payload = {} /\ output = <<>>

\* The next row, so many spacings on.
WriteRow(steps, lead) ==
  LET y == Last(text).y + (IF up THEN steps ELSE -steps) * Spacing
  IN  /\ outcome = "writing" /\ Rows < MaxRows
      /\ lead = "joint" => steps > 0
      /\ odd' = odd + (IF steps = 1 /\ lead = style THEN 0 ELSE 1)
      /\ odd' <= MaxOdd
      /\ text' = text \o Row(lead, y)
      /\ UNCHANGED <<up, style, outcome, group, nominal, payload, output>>

\* run_pipeline and detect_infill have lines and gaps enough.
Encodable == Cardinality(Printed(text)) >= MinLines /\ Len(Spacings(text)) >= 2

DetectInfill ==
  /\ outcome = "writing" /\ Encodable
  /\ outcome' = "detected"
  /\ group' = SortedLines(text) /\ nominal' = Nominal(text)
  /\ UNCHANGED <<up, style, odd, text, payload, output>>

\* too_few_lines
SkipLayer ==
  /\ outcome = "writing" /\ ~Encodable
  /\ outcome' = "skipped"
  /\ UNCHANGED <<up, style, odd, text, group, nominal, payload, output>>

\* encode_layer, insert_layer and modify_layer.
EncodeLayer(bits) ==
  /\ outcome = "detected"
  /\ outcome' = "encoded" /\ payload' = bits
  /\ output' = ModifyLayer(text, group, SpacingSequence(bits, nominal))
  /\ UNCHANGED <<up, style, odd, text, group, nominal>>

Next ==
  \/ \E steps \in 0..2, lead \in Leads : WriteRow(steps, lead)
  \/ DetectInfill
  \/ SkipLayer
  \/ \E bits \in Payloads : EncodeLayer(bits)

Spec == Init /\ [][Next]_vars

-----------------------------------------------------------------------------
(* Properties.                                                              *)

\* Every line is reached by a travel of its own.
OwnTravels == \A i \in DOMAIN text : text[i].cmd # "joint"

\* No two lines have the same height.
SeparateRows ==
  \A i, j \in DOMAIN text : text[i] = text[j] /\ text[i].cmd = "line" => i = j

\* The pattern ends inside the box, below the first line that stays.
HasRoom ==
  LET targets == Targets(group, SpacingSequence(payload, nominal))
      next    == Len(targets) + 2
  IN  /\ Last(targets) <= Box(group).hi
      /\ next <= Len(group) => 2 * Last(targets) < Middle(group[next])

\* No command of the output runs on into the next.
OwnLines == \A i \in DOMAIN output : output[i].ends

\* What is printed of an encoded layer has its payload between two SYNCs.
Readable == Spells(Spacings(output), payload, nominal)

\* "rewrites infill line coordinates so that the inter-line spacing sequence
\* encodes the InfillCode payload" (core/gcode_modifier.py:2): every layer that
\* the database calls encoded can be read off the print, at the least when its lines
\* have travels and heights of their own and no two commands are joined.
EncodedLayerReadable ==
  outcome = "encoded" /\ OwnTravels /\ OwnLines /\ SeparateRows => Readable

\* When every line has a travel and a height of its own, the commands given a Y had
\* one before, and the layer has room for the pattern, the patched text prints the
\* payload: the travels found are the right ones, across retractions and in
\* whichever order the rows are printed.  (A bare feed rate between a travel and its
\* line is found in the travel's place and runs on into the line: OwnLines is false.)
SpellsPayload ==
  outcome = "encoded" /\ OwnTravels /\ OwnLines /\ SeparateRows /\ HasRoom => Readable

\* With travels of their own, the reference line and the lines beyond the pattern
\* are printed where the slicer put them ("Lines beyond index 34 are left
\* unchanged", core/gcode_modifier.py:101): no line's patch, not even one that
\* joins two commands, moves another line.
OthersUnmoved ==
  outcome = "encoded" /\ OwnTravels =>
    \A k \in DOMAIN group :
      k = 1 \/ k > PayloadBits + 3 => group[k] \in Printed(output)

=============================================================================
