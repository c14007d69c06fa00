-------------------------------- MODULE Codec --------------------------------
(***************************************************************************)
(* The fingerprint of a layer: how (file_id, layer_idx) becomes a pattern  *)
(* of infill gaps (core/encoder.py), how a measured pattern becomes a      *)
(* layer again (core/decoder.py), and how the layer's row is found         *)
(* (lookup_by_payload, lookup_by_raw_payload in core/database.py), as the  *)
(* OctoPrint plugin strings them together.                                 *)
(*                                                                         *)
(* Numbers are their bits, least significant first.  A byte has 2 * H      *)
(* bits, H = 4 in the code; every other width follows from it.  RSCodec(1) *)
(* of the reedsolo library is external: over GF(256) with one check symbol *)
(* it appends the XOR of the data bytes, and decoding accepts a word whose *)
(* check is right and raises for any other.                                *)
(***************************************************************************)
EXTENDS Integers, Sequences, FiniteSetsExt

CONSTANTS
  H,            \* half the bits of a byte
  IdxBits,      \* bits of the layer indices the parser may yield
  FileIds,      \* file ids in use
  LayerIdxs,    \* layer indices in use
  Margins,      \* how many unmodulated gaps may lie on a side of the pattern
  MaxRows,      \* bound on encoded layers
  MaxMisreads   \* bound on misread gaps of one picture

Bit       == {0, 1}
ByteBits  == 2 * H
LayerBits == 3 * H        \* LAYER_IDX_BITS, and FILE_ID_BITS
TotalBits == 8 * H

Positions == 0..(TotalBits - 1)
Word      == [Positions -> Bit]
Field     == [0..(LayerBits - 1) -> Bit]

ASSUME CodecConstants ==
  /\ H \in Nat \ {0}
  /\ IdxBits \in Nat /\ IdxBits >= LayerBits
  /\ FileIds \subseteq Field
  /\ LayerIdxs \subseteq [0..(IdxBits - 1) -> Bit]
  /\ Margins \subseteq Nat /\ MaxRows \in Nat /\ MaxMisreads \in Nat

-----------------------------------------------------------------------------
(* encoder.py                                                               *)

Xor(a, b) == IF a = b THEN 0 ELSE 1

\* layer_idx & LAYER_IDX_MASK
Low(layer) == [i \in 0..(LayerBits - 1) |-> layer[i]]

\* The i-th bit of data_word, file_id above layer_idx.
DataBit(file, layer, i) == IF i < LayerBits THEN layer[i] ELSE file[i - LayerBits]

\* Mutant: the check leaves the middle byte out.
CheckTwoBytes(low, middle, high) == Xor(low, high)

\* One bit of RSCodec(1)'s check byte, from that bit of the three data bytes.
Check(low, middle, high) == Xor(Xor(low, middle), high)

BuildPayload(file, layer) ==
  [i \in Positions |->
     IF i < ByteBits
     THEN Check(DataBit(file, layer, i),
                DataBit(file, layer, i + ByteBits),
                DataBit(file, layer, i + 2 * ByteBits))
     ELSE DataBit(file, layer, i - ByteBits)]

\* Mutant: 0x55555555.
MaskEvenBits == [i \in Positions |-> (i + 1) % 2]

\* ANTICORR_MASK, 0xAAAAAAAA
AnticorrMask == [i \in Positions |-> i % 2]

\* Mutant: the mask is added bit by bit.
AddMask(word) == [i \in Positions |-> word[i] + AnticorrMask[i]]

XorMask(word) == [i \in Positions |-> Xor(word[i], AnticorrMask[i])]

IsOdd(layer) == layer[0] = 1

\* Mutant: no mask at all.
CorrelateAll(payload, layer) == payload

AntiCorrelate(payload, layer) == IF IsOdd(layer) THEN XorMask(payload) ELSE payload

\* One SYNC, the bits from the most significant down, one SYNC.
PayloadToSpacings(word) ==
  <<"sync">>
    \o [n \in 1..TotalBits |-> IF word[TotalBits - n] = 1 THEN "wide" ELSE "narrow"]
    \o <<"sync">>

-----------------------------------------------------------------------------
(* decoder.py                                                               *)

RsAccepts(word) ==
  \A i \in 0..(ByteBits - 1) :
    word[i] = Check(word[i + ByteBits], word[i + 2 * ByteBits], word[i + 3 * ByteBits])

LayerOf(word) == [i \in 0..(LayerBits - 1) |-> word[i + ByteBits]]
FileOf(word)  == [i \in 0..(LayerBits - 1) |-> word[i + ByteBits + LayerBits]]

Candidate(raw, anticorr) == IF anticorr THEN XorMask(raw) ELSE raw

\* Mutant: whichever variant passes RS.
PassesRsOnly(raw, anticorr) == RsAccepts(Candidate(raw, anticorr))

\* RS passes, and the layer's parity is the one the variant stands for.
Passes(raw, anticorr) ==
  /\ RsAccepts(Candidate(raw, anticorr))
  /\ IsOdd(LayerOf(Candidate(raw, anticorr))) = anticorr

\* _find_sync_pairs: where a SYNC, TotalBits gaps and a SYNC begin.
SyncPairs(gaps) ==
  {s \in 1..(Len(gaps) - TotalBits - 1) :
     gaps[s] = "sync" /\ gaps[s + TotalBits + 1] = "sync"}

\* _bits_from_spacings: only a narrow gap is below BIT_THRESHOLD.
BitsFromSpacings(gaps, s) ==
  [i \in Positions |-> IF gaps[s + TotalBits - i] = "narrow" THEN 0 ELSE 1]

Nothing == [decoded |-> FALSE]

Decoded(raw, anticorr) ==
  LET word == Candidate(raw, anticorr) IN
  [decoded |-> TRUE, file |-> FileOf(word), layer |-> LayerOf(word),
   payload |-> word, correlated |-> raw]

\* full_decode: windows from the left, the unmasked variant first.
FullDecode(gaps) ==
  LET raw(s) == BitsFromSpacings(gaps, s)
      good == {s \in SyncPairs(gaps) : \E a \in BOOLEAN : Passes(raw(s), a)}
  IN  IF good = {} THEN Nothing
      ELSE LET s == Min(good) IN Decoded(raw(s), ~Passes(raw(s), FALSE))

-----------------------------------------------------------------------------
(* Encoding layers, and reading one back.                                   *)

VARIABLES
  rows,         \* encoded layers in the database
  shown,        \* the row whose layer the camera sees
  gaps,         \* the measured pattern
  misread,      \* positions of gaps measured wrongly
  result,       \* what full_decode returned
  found,        \* the rows the lookups may answer with
  pc            \* where the scan is

vars == <<rows, shown, gaps, misread, result, found, pc>>
scan == <<shown, gaps, misread, result, found, pc>>

RowSet == [file : Field, layer : [0..(IdxBits - 1) -> Bit], payload : Word, correlated : Word]
GapSet == {"sync", "wide", "plain", "narrow"}

TypeOK ==
  /\ rows \subseteq RowSet
  /\ pc \in {"idle", "seen", "decoded", "found"}
  /\ pc # "idle" => shown \in rows
  /\ gaps \in Seq(GapSet)
  /\ misread \subseteq 1..Len(gaps)
  /\ result = Nothing \/
       result \in [decoded : {TRUE}, file : Field, layer : Field,
                   payload : Word, correlated : Word]
  /\ found \subseteq rows

NoRow == [file |-> <<>>]

Init ==
  /\ rows = {}
  /\ shown = NoRow /\ gaps = <<>> /\ misread = {}
  /\ result = Nothing /\ found = {} /\ pc = "idle"

\* encode_layer and the row insert_layer makes of it.
EncodedLayer(file, layer) ==
  [file |-> file, layer |-> layer, payload |-> BuildPayload(file, layer),
   correlated |-> AntiCorrelate(BuildPayload(file, layer), layer)]

EncodeLayer(file, layer) ==
  /\ Cardinality(rows) < MaxRows
  /\ \A r \in rows : <<r.file, r.layer>> # <<file, layer>>
  /\ rows' = rows \cup {EncodedLayer(file, layer)}
  /\ UNCHANGED scan

Plain(n) == [i \in 1..n |-> "plain"]

\* A layer is exposed to the camera: its pattern among unmodulated gaps.
Look(row, before, after) ==
  /\ pc = "idle" /\ pc' = "seen"
  /\ shown' = row
  /\ gaps' = Plain(before) \o PayloadToSpacings(row.correlated) \o Plain(after)
  /\ UNCHANGED <<rows, misread, result, found>>

\* The vision step measures one gap wrongly.
Misread(n, gap) ==
  /\ pc = "seen"
  /\ Cardinality(misread) < MaxMisreads
  /\ n \notin misread /\ gaps[n] # gap
  /\ gaps' = [gaps EXCEPT ![n] = gap]
  /\ misread' = misread \cup {n}
  /\ UNCHANGED <<rows, shown, result, found, pc>>

Decode ==
  /\ pc = "seen" /\ pc' = "decoded"
  /\ result' = FullDecode(gaps)
  /\ UNCHANGED <<rows, shown, gaps, misread, found>>

\* lookup_by_payload, else lookup_by_raw_payload.
LookUp ==
  LET written == {r \in rows : r.correlated = result.correlated}
      raw     == {r \in rows : r.payload = result.payload}
  IN  /\ pc = "decoded" /\ pc' = "found"
      /\ result.decoded
      /\ found' = IF written # {} THEN written ELSE raw
      /\ UNCHANGED <<rows, shown, gaps, misread, result>>

\* The scan is over, answered or not.
ScanEnds ==
  /\ pc = "found" \/ (pc = "decoded" /\ ~result.decoded)
  /\ pc' = "idle"
  /\ shown' = NoRow /\ gaps' = <<>> /\ misread' = {}
  /\ result' = Nothing /\ found' = {}
  /\ UNCHANGED rows

Next ==
  \/ \E file \in FileIds, layer \in LayerIdxs : EncodeLayer(file, layer)
  \/ \E row \in rows, before, after \in Margins : Look(row, before, after)
  \/ \E n \in DOMAIN gaps, gap \in GapSet : Misread(n, gap)
  \/ Decode \/ LookUp \/ ScanEnds

Spec == Init /\ [][Next]_vars

-----------------------------------------------------------------------------
(* Properties.                                                              *)

\* The same fingerprint up to the mask: the index wrapped around.
Alias(r, s) == r.file = s.file /\ Low(r.layer) = Low(s.layer)

\* Two layers share neither their payload nor what is written unless they are the
\* same layer of the same file up to 2^LAYER_IDX_BITS, though the mask is applied
\* to every other layer only: a lookup has one answer.
FingerprintsDistinct ==
  \A r, s \in rows : r.correlated = s.correlated \/ r.payload = s.payload => Alias(r, s)

\* A pattern read without error is decoded to the layer it was written for, and
\* that layer is among the rows the lookup may return.
CleanReadFound ==
  misread = {} =>
    /\ pc = "decoded" =>
         /\ result.decoded
         /\ result.file = shown.file /\ result.layer = Low(shown.layer)
    /\ pc = "found" => shown \in found /\ \A r \in found : Alias(r, shown)

\* A window of unmodulated gaps only lies to the left of another window.
PlainWindowFirst(picture) ==
  \E s, t \in SyncPairs(picture) :
    s < t /\ \A i \in 1..TotalBits : picture[s + i] = "plain"

\* One misread gap, a bit, a lost or a false SYNC, is never mistaken for another
\* layer: the scan answers nothing or the layer shown.  The code has one exception,
\* left out here: TotalBits gaps to the left of the pattern a false SYNC encloses
\* unmodulated gaps, full_decode tries that window first, all its gaps read as 1,
\* and RS passes both that word and its masked variant.
MisreadNeverMisleads ==
  pc = "found" /\ Cardinality(misread) = 1 /\ ~PlainWindowFirst(gaps) =>
    \A r \in found : Alias(r, shown)

\* encoder.py:16: patterns of consecutive layers differ in at least half of
\* their bits, whatever carries run through layer_idx and the check.
Successor(l, m) ==
  \E k \in 0..(LayerBits - 1) :
    /\ l[k] = 0 /\ m[k] = 1
    /\ \A i \in 0..(k - 1) : l[i] = 1 /\ m[i] = 0
    /\ \A i \in (k + 1)..(IdxBits - 1) : l[i] = m[i]

AdjacentLayersFar ==
  \A r, s \in rows : r.file = s.file /\ Successor(r.layer, s.layer) =>
    2 * Cardinality({i \in Positions : r.correlated[i] # s.correlated[i]}) >= TotalBits
=============================================================================
