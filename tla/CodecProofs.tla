----------------------------- MODULE CodecProofs -----------------------------
(***************************************************************************)
(* Proofs about Codec, for every byte width and every set of files and     *)
(* layers.  All of them rest on two facts about the check symbol: it is    *)
(* bitwise, so that one flipped bit breaks it, and the mask satisfies it,  *)
(* because a byte has an even number of bits.  The mask is therefore       *)
(* invisible to RS, and only the parity of layer_idx, whose bit the mask   *)
(* leaves alone, tells the two variants of a word apart.                   *)
(*                                                                         *)
(* Then the whole scan, for any number of rows and gaps beside a pattern.  *)
(* A layer's pattern has exactly two SYNCs, so a picture without a false   *)
(* one has a single window, and one false SYNC makes at most one more, of  *)
(* unmodulated gaps only.  To the right of the pattern's own that window   *)
(* is not tried, because the pattern is intact.  What the pattern's own    *)
(* window holds is the written word, or that word with one bit flipped,    *)
(* which RS refuses in both variants.                                      *)
(***************************************************************************)
EXTENDS Codec, Functions, FiniteSetTheorems, SequenceTheorems, TLAPS

LayerIdx == [0..(IdxBits - 1) -> Bit]

-----------------------------------------------------------------------------
(* Words.                                                                   *)

\* The check of three bits is a bit, and changes when any one of them does.
LEMMA CheckBits ==
  /\ \A a, b, c \in Bit : Check(a, b, c) \in Bit
  /\ \A a, b, c, d \in Bit :
       /\ a # d => Check(a, b, c) # Check(d, b, c)
       /\ b # d => Check(a, b, c) # Check(a, d, c)
       /\ c # d => Check(a, b, c) # Check(a, b, d)
  BY DEF Check, Xor, Bit

\* build_payload fills a word.
LEMMA PayloadIsWord ==
  ASSUME NEW file \in Field, NEW layer \in LayerIdx
  PROVE  BuildPayload(file, layer) \in Word
<1>1. ASSUME NEW i \in 0..(6 * H - 1) PROVE DataBit(file, layer, i) \in Bit
  BY CodecConstants DEF DataBit, Field, LayerIdx, LayerBits
<1>2. ASSUME NEW i \in Positions
      PROVE  BuildPayload(file, layer)[i] \in Bit
  <2>1. CASE i < ByteBits
    <3>1. /\ i \in 0..(6 * H - 1) /\ i + ByteBits \in 0..(6 * H - 1)
          /\ i + 2 * ByteBits \in 0..(6 * H - 1)
      BY <2>1, CodecConstants DEF Positions, TotalBits, ByteBits
    <3> QED
      BY <2>1, <3>1, <1>1, CheckBits DEF BuildPayload
  <2>2. CASE ~(i < ByteBits)
    <3>1. i - ByteBits \in 0..(6 * H - 1)
      BY <2>2, CodecConstants DEF Positions, TotalBits, ByteBits
    <3> QED
      BY <2>2, <3>1, <1>1 DEF BuildPayload
  <2> QED
    BY <2>1, <2>2
<1> QED
  BY <1>2 DEF BuildPayload, Word

\* Its data bytes are the file id and the masked layer index.
LEMMA PayloadFields ==
  ASSUME NEW file \in Field, NEW layer \in LayerIdx
  PROVE  /\ LayerOf(BuildPayload(file, layer)) = Low(layer)
         /\ FileOf(BuildPayload(file, layer)) = file
<1> DEFINE word == BuildPayload(file, layer)
<1>1. ASSUME NEW i \in 0..(LayerBits - 1)
      PROVE  word[i + ByteBits] = layer[i] /\ word[i + ByteBits + LayerBits] = file[i]
  <2>1. /\ i + ByteBits \in Positions /\ i + ByteBits + LayerBits \in Positions
        /\ ~(i + ByteBits < ByteBits) /\ ~(i + ByteBits + LayerBits < ByteBits)
        /\ i < LayerBits /\ ~(i + LayerBits < LayerBits)
        /\ (i + ByteBits) - ByteBits = i
        /\ (i + ByteBits + LayerBits) - ByteBits = i + LayerBits
        /\ (i + LayerBits) - LayerBits = i
    BY CodecConstants DEF Positions, TotalBits, ByteBits, LayerBits
  <2> QED
    BY <2>1 DEF BuildPayload, DataBit
<1>2. file = [i \in 0..(LayerBits - 1) |-> file[i]]
  BY DEF Field
<1> QED
  BY <1>1, <1>2 DEF LayerOf, FileOf, Low

\* RSCodec(1) accepts what it encoded.
LEMMA PayloadAccepted ==
  ASSUME NEW file \in Field, NEW layer \in LayerIdx
  PROVE  RsAccepts(BuildPayload(file, layer))
<1> DEFINE word == BuildPayload(file, layer)
<1> SUFFICES ASSUME NEW i \in 0..(ByteBits - 1)
             PROVE  word[i] = Check(word[i + ByteBits], word[i + 2 * ByteBits],
                                    word[i + 3 * ByteBits])
  BY DEF RsAccepts
<1>1. /\ i \in Positions /\ i + ByteBits \in Positions
      /\ i + 2 * ByteBits \in Positions /\ i + 3 * ByteBits \in Positions
      /\ i < ByteBits /\ ~(i + ByteBits < ByteBits)
      /\ ~(i + 2 * ByteBits < ByteBits) /\ ~(i + 3 * ByteBits < ByteBits)
      /\ (i + ByteBits) - ByteBits = i
      /\ (i + 2 * ByteBits) - ByteBits = i + ByteBits
      /\ (i + 3 * ByteBits) - ByteBits = i + 2 * ByteBits
  BY CodecConstants DEF Positions, TotalBits, ByteBits
<1> QED
  BY <1>1 DEF BuildPayload

-----------------------------------------------------------------------------
(* The mask.                                                                *)

\* Masking a word gives a word, and masking it again gives it back.
LEMMA MaskTwice ==
  ASSUME NEW word \in Word
  PROVE  XorMask(word) \in Word /\ XorMask(XorMask(word)) = word
<1>1. ASSUME NEW i \in Positions PROVE AnticorrMask[i] \in Bit
  BY CodecConstants DEF AnticorrMask, Positions, TotalBits, Bit
<1>2. XorMask(word) \in Word
  BY <1>1 DEF XorMask, Word, Xor, Bit
<1>3. ASSUME NEW i \in Positions PROVE XorMask(XorMask(word))[i] = word[i]
  BY <1>1 DEF XorMask, Word, Xor, Bit
<1> QED
  BY <1>2, <1>3 DEF XorMask, Word

\* The four bytes of the mask are the same, and its bit under the lowest bit of
\* layer_idx is 0.
LEMMA MaskBytes ==
  /\ \A i \in 0..(ByteBits - 1) :
       /\ AnticorrMask[i + ByteBits] = AnticorrMask[i]
       /\ AnticorrMask[i + 2 * ByteBits] = AnticorrMask[i]
       /\ AnticorrMask[i + 3 * ByteBits] = AnticorrMask[i]
  /\ AnticorrMask[ByteBits] = 0
<1>1. H \in Nat \ {0}
  BY CodecConstants
<1>2. ASSUME NEW i \in 0..(ByteBits - 1)
      PROVE  /\ AnticorrMask[i + ByteBits] = AnticorrMask[i]
             /\ AnticorrMask[i + 2 * ByteBits] = AnticorrMask[i]
             /\ AnticorrMask[i + 3 * ByteBits] = AnticorrMask[i]
  <2>1. /\ i \in Positions /\ i + ByteBits \in Positions
        /\ i + 2 * ByteBits \in Positions /\ i + 3 * ByteBits \in Positions
    BY <1>1 DEF Positions, TotalBits, ByteBits
  <2>2. /\ (i + 2 * H) % 2 = i % 2
        /\ (i + 2 * (2 * H)) % 2 = i % 2
        /\ (i + 3 * (2 * H)) % 2 = i % 2
    BY <1>1 DEF ByteBits
  <2> QED
    BY <2>1, <2>2 DEF AnticorrMask, ByteBits
<1>3. AnticorrMask[ByteBits] = 0
  <2>1. ByteBits \in Positions /\ (2 * H) % 2 = 0
    BY <1>1 DEF Positions, TotalBits, ByteBits
  <2> QED
    BY <2>1 DEF AnticorrMask, ByteBits
<1> QED
  BY <1>2, <1>3

\* RS cannot tell a word from its masked variant.
LEMMA MaskInvisibleToRS ==
  ASSUME NEW word \in Word
  PROVE  RsAccepts(XorMask(word)) <=> RsAccepts(word)
<1> DEFINE masked == XorMask(word)
<1>1. ASSUME NEW i \in 0..(ByteBits - 1)
      PROVE  (masked[i] = Check(masked[i + ByteBits], masked[i + 2 * ByteBits],
                                masked[i + 3 * ByteBits]))
             <=> (word[i] = Check(word[i + ByteBits], word[i + 2 * ByteBits],
                                  word[i + 3 * ByteBits]))
  <2>1. /\ i \in Positions /\ i + ByteBits \in Positions
        /\ i + 2 * ByteBits \in Positions /\ i + 3 * ByteBits \in Positions
    BY CodecConstants DEF Positions, TotalBits, ByteBits
  <2>2. AnticorrMask[i] \in Bit
    BY <2>1, CodecConstants DEF AnticorrMask, Positions, TotalBits, Bit
  <2>3. /\ word[i] \in Bit /\ word[i + ByteBits] \in Bit
        /\ word[i + 2 * ByteBits] \in Bit /\ word[i + 3 * ByteBits] \in Bit
    BY <2>1 DEF Word
  <2>4. /\ masked[i] = Xor(word[i], AnticorrMask[i])
        /\ masked[i + ByteBits] = Xor(word[i + ByteBits], AnticorrMask[i])
        /\ masked[i + 2 * ByteBits] = Xor(word[i + 2 * ByteBits], AnticorrMask[i])
        /\ masked[i + 3 * ByteBits] = Xor(word[i + 3 * ByteBits], AnticorrMask[i])
    BY <2>1, MaskBytes DEF XorMask
  <2>5. \A a, b, c, d, m \in Bit :
          (Xor(a, m) = Check(Xor(b, m), Xor(c, m), Xor(d, m))) <=> (a = Check(b, c, d))
    BY DEF Check, Xor, Bit
  <2> QED
    BY <2>2, <2>3, <2>4, <2>5
<1> QED
  BY <1>1 DEF RsAccepts

\* The mask leaves the parity of layer_idx alone.
LEMMA MaskKeepsParity ==
  ASSUME NEW word \in Word
  PROVE  IsOdd(LayerOf(XorMask(word))) <=> IsOdd(LayerOf(word))
<1>1. 0 \in 0..(LayerBits - 1) /\ 0 + ByteBits = ByteBits /\ ByteBits \in Positions
  BY CodecConstants DEF LayerBits, ByteBits, Positions, TotalBits
<1>2. XorMask(word)[ByteBits] = word[ByteBits]
  BY <1>1, MaskBytes DEF XorMask, Word, Xor, Bit
<1> QED
  BY <1>1, <1>2 DEF IsOdd, LayerOf

-----------------------------------------------------------------------------
(* Encoding and decoding.                                                   *)

\* What is written for a layer.
Written(file, layer) == AntiCorrelate(BuildPayload(file, layer), layer)

\* Both the payload and what is written are words, and the variant that the
\* layer's parity selects undoes the mask.
LEMMA WrittenWord ==
  ASSUME NEW file \in Field, NEW layer \in LayerIdx
  PROVE  /\ Written(file, layer) \in Word
         /\ Candidate(Written(file, layer), IsOdd(layer)) = BuildPayload(file, layer)
  BY PayloadIsWord, MaskTwice DEF Written, AntiCorrelate, Candidate

\* The decoder accepts what the encoder wrote in the variant it was written in,
\* recovers file and layer, and refuses the other variant, which only the
\* parity test of decode_spacings does: for every byte width, file and layer.
THEOREM RoundTrip ==
  ASSUME NEW file \in Field, NEW layer \in LayerIdx
  PROVE  /\ Passes(Written(file, layer), IsOdd(layer))
         /\ ~Passes(Written(file, layer), ~IsOdd(layer))
         /\ FileOf(Candidate(Written(file, layer), IsOdd(layer))) = file
         /\ LayerOf(Candidate(Written(file, layer), IsOdd(layer))) = Low(layer)
<1> DEFINE word == Written(file, layer)
           payload == BuildPayload(file, layer)
<1>1. payload \in Word /\ word \in Word /\ Candidate(word, IsOdd(layer)) = payload
  BY PayloadIsWord, WrittenWord
<1>2. FileOf(payload) = file /\ LayerOf(payload) = Low(layer)
  BY PayloadFields
<1>3. IsOdd(Low(layer)) <=> IsOdd(layer)
  BY CodecConstants DEF IsOdd, Low, LayerBits
<1>4. Passes(word, IsOdd(layer))
  BY <1>1, <1>2, <1>3, PayloadAccepted DEF Passes, IsOdd
<1>5. Candidate(word, ~IsOdd(layer)) = XorMask(payload)
  BY <1>1, MaskTwice DEF Candidate, Written, AntiCorrelate
<1>6. IsOdd(LayerOf(XorMask(payload))) <=> IsOdd(layer)
  BY <1>1, <1>2, <1>3, MaskKeepsParity
<1>7. ~Passes(word, ~IsOdd(layer))
  BY <1>5, <1>6 DEF Passes, IsOdd
<1> QED
  BY <1>1, <1>2, <1>4, <1>7

\* A word with one bit flipped is not accepted, in either variant: a single
\* misread gap is detected (and never corrected).
THEOREM SingleFlipDetected ==
  ASSUME NEW word \in Word, RsAccepts(word), NEW other \in Word, NEW n \in Positions,
         other[n] # word[n], \A i \in Positions : i # n => other[i] = word[i]
  PROVE  ~RsAccepts(Candidate(other, FALSE)) /\ ~RsAccepts(Candidate(other, TRUE))
<1>1. ~RsAccepts(other)
  <2>1. H \in Nat \ {0} /\ n \in 0..(8 * H - 1)
    BY CodecConstants DEF Positions, TotalBits
  <2>2. PICK i \in 0..(2 * H - 1) :
          n = i \/ n = i + 2 * H \/ n = i + 2 * (2 * H) \/ n = i + 3 * (2 * H)
    <3>1. CASE n < 2 * H
      BY <2>1, <3>1
    <3>2. CASE n >= 2 * H /\ n < 4 * H
      <4>1. n - 2 * H \in 0..(2 * H - 1) /\ n = (n - 2 * H) + 2 * H
        BY <2>1, <3>2
      <4> QED
        BY <4>1
    <3>3. CASE n >= 4 * H /\ n < 6 * H
      <4>1. n - 4 * H \in 0..(2 * H - 1) /\ n = (n - 4 * H) + 2 * (2 * H)
        BY <2>1, <3>3
      <4> QED
        BY <4>1
    <3>4. CASE n >= 6 * H
      <4>1. n - 6 * H \in 0..(2 * H - 1) /\ n = (n - 6 * H) + 3 * (2 * H)
        BY <2>1, <3>4
      <4> QED
        BY <4>1
    <3> QED
      BY <2>1, <3>1, <3>2, <3>3, <3>4
  <2> DEFINE b == i + ByteBits
             c == i + 2 * ByteBits
             d == i + 3 * ByteBits
  <2>3. /\ i \in Positions /\ b \in Positions /\ c \in Positions /\ d \in Positions
        /\ i # b /\ i # c /\ i # d /\ b # c /\ b # d /\ c # d
        /\ n = i \/ n = b \/ n = c \/ n = d
        /\ i \in 0..(ByteBits - 1)
    BY <2>1, <2>2 DEF Positions, TotalBits, ByteBits
  <2> HIDE DEF b, c, d
  <2>4. /\ word[i] \in Bit /\ word[b] \in Bit /\ word[c] \in Bit /\ word[d] \in Bit
        /\ other[i] \in Bit /\ other[b] \in Bit /\ other[c] \in Bit /\ other[d] \in Bit
    BY <2>3 DEF Word
  <2>5. word[i] = Check(word[b], word[c], word[d])
    BY <2>3 DEF RsAccepts, b, c, d
  <2>6. other[i] # Check(other[b], other[c], other[d])
    <3>1. CASE n = i
      <4>1. other[b] = word[b] /\ other[c] = word[c] /\ other[d] = word[d]
        BY <3>1, <2>3
      <4> QED
        BY <4>1, <3>1, <2>5
    <3>2. CASE n \in {b, c, d}
      <4>1. other[i] = word[i]
        BY <3>2, <2>3
      <4>2. Check(other[b], other[c], other[d]) # Check(word[b], word[c], word[d])
        <5>1. CASE n = b
          <6>1. other[b] # word[b] /\ other[c] = word[c] /\ other[d] = word[d]
            BY <5>1, <2>3
          <6> QED
            BY <6>1, <2>4 DEF Check, Xor, Bit
        <5>2. CASE n = c
          <6>1. other[c] # word[c] /\ other[b] = word[b] /\ other[d] = word[d]
            BY <5>2, <2>3
          <6> QED
            BY <6>1, <2>4 DEF Check, Xor, Bit
        <5>3. CASE n = d
          <6>1. other[d] # word[d] /\ other[b] = word[b] /\ other[c] = word[c]
            BY <5>3, <2>3
          <6> QED
            BY <6>1, <2>4 DEF Check, Xor, Bit
        <5> QED
          BY <3>2, <5>1, <5>2, <5>3
      <4> QED
        BY <4>1, <4>2, <2>5
    <3> QED
      BY <2>3, <3>1, <3>2
  <2> QED
    BY <2>3, <2>6 DEF RsAccepts, b, c, d
<1> QED
  BY <1>1, MaskInvisibleToRS DEF Candidate

\* Payloads, and written patterns, of two layers agree only when file and masked
\* layer index do.
LEMMA WrittenDistinct ==
  ASSUME NEW f \in Field, NEW g \in Field, NEW l \in LayerIdx, NEW m \in LayerIdx,
         \/ BuildPayload(f, l) = BuildPayload(g, m)
         \/ Written(f, l) = Written(g, m)
  PROVE  f = g /\ Low(l) = Low(m)
<1>1. CASE BuildPayload(f, l) = BuildPayload(g, m)
  BY <1>1, PayloadFields
<1>2. CASE Written(f, l) = Written(g, m)
  <2>1. CASE IsOdd(l) <=> IsOdd(m)
    <3>1. Candidate(Written(f, l), IsOdd(l)) = Candidate(Written(g, m), IsOdd(m))
      BY <1>2, <2>1 DEF Candidate
    <3> QED
      BY <3>1, WrittenWord, PayloadFields
  <2>2. CASE ~(IsOdd(l) <=> IsOdd(m))
    <3>1. Passes(Written(f, l), IsOdd(l)) /\ ~Passes(Written(g, m), ~IsOdd(m))
      BY RoundTrip
    <3>2. IsOdd(l) = ~IsOdd(m)
      BY <2>2 DEF IsOdd
    <3> QED
      BY <1>2, <3>1, <3>2
  <2> QED
    BY <2>1, <2>2
<1> QED
  BY <1>1, <1>2

-----------------------------------------------------------------------------
(* Neighbouring layers.                                                     *)

\* Exactly one of two successive layers is written under the mask, so where the
\* mask is 0 the patterns differ if the payloads do, and where it is 1 if not.
LEMMA MaskedDifference ==
  ASSUME NEW file \in Field, NEW l \in LayerIdx, NEW m \in LayerIdx, IsOdd(l) # IsOdd(m),
         NEW i \in Positions
  PROVE  (Written(file, l)[i] # Written(file, m)[i])
           <=> (i % 2 = 0 <=> BuildPayload(file, l)[i] # BuildPayload(file, m)[i])
<1> DEFINE a == BuildPayload(file, l)
           b == BuildPayload(file, m)
<1>1. a \in Word /\ b \in Word
  BY PayloadIsWord
<1>2. a[i] \in Bit /\ b[i] \in Bit
  BY <1>1 DEF Word
<1>3. XorMask(a)[i] = Xor(a[i], i % 2) /\ XorMask(b)[i] = Xor(b[i], i % 2)
  BY DEF XorMask, AnticorrMask
<1>4. i % 2 \in {0, 1}
  BY CodecConstants DEF Positions, TotalBits
<1>5. CASE IsOdd(l) /\ ~IsOdd(m)
  <2>1. Written(file, l)[i] = Xor(a[i], i % 2) /\ Written(file, m)[i] = b[i]
    BY <1>3, <1>5 DEF Written, AntiCorrelate
  <2> QED
    BY <1>2, <1>4, <2>1 DEF Xor, Bit
<1>6. CASE ~IsOdd(l) /\ IsOdd(m)
  <2>1. Written(file, l)[i] = a[i] /\ Written(file, m)[i] = Xor(b[i], i % 2)
    BY <1>3, <1>6 DEF Written, AntiCorrelate
  <2> QED
    BY <1>2, <1>4, <2>1 DEF Xor, Bit
<1> QED
  BY <1>5, <1>6 DEF IsOdd

\* What a carry through the lowest bits up to k flips: those bits of the index, and
\* of the check those that not two data bytes flip.
LEMMA CarryDifference ==
  ASSUME NEW file \in Field, NEW l \in LayerIdx, NEW m \in LayerIdx,
         NEW k \in 0..(LayerBits - 1), l[k] = 0, m[k] = 1,
         \A i \in 0..(k - 1) : l[i] = 1 /\ m[i] = 0,
         \A i \in (k + 1)..(IdxBits - 1) : l[i] = m[i],
         NEW i \in Positions
  PROVE  (BuildPayload(file, l)[i] # BuildPayload(file, m)[i])
           <=> IF i < ByteBits THEN i <= k /\ k < i + ByteBits ELSE i - ByteBits <= k
<1>1. H \in Nat /\ H > 0 /\ k \in Int /\ 0 <= k /\ k < 3 * H /\ IdxBits \in Nat /\ 3 * H <= IdxBits
  BY CodecConstants DEF LayerBits
<1>2. ASSUME NEW j \in 0..(6 * H - 1)
      PROVE  /\ DataBit(file, l, j) \in Bit /\ DataBit(file, m, j) \in Bit
             /\ DataBit(file, l, j) # DataBit(file, m, j) <=> j <= k
  <2>1. CASE j < 3 * H
    <3>1. DataBit(file, l, j) = l[j] /\ DataBit(file, m, j) = m[j]
      BY <2>1 DEF DataBit, LayerBits
    <3>2. j \in 0..(IdxBits - 1) /\ (j \in 0..(k - 1) \/ j = k \/ j \in (k + 1)..(IdxBits - 1))
      BY <1>1, <2>1
    <3>3. l[j] \in Bit /\ m[j] \in Bit
      BY <3>2 DEF LayerIdx
    <3>4. l[j] # m[j] <=> j <= k
      BY <1>1, <3>2
    <3> QED
      BY <3>1, <3>3, <3>4
  <2>2. CASE j >= 3 * H
    <3>1. DataBit(file, l, j) = file[j - 3 * H] /\ DataBit(file, m, j) = file[j - 3 * H]
      BY <1>1, <2>2 DEF DataBit, LayerBits
    <3>2. j - 3 * H \in 0..(LayerBits - 1) /\ ~(j <= k)
      BY <1>1, <2>2 DEF LayerBits
    <3> QED
      BY <3>1, <3>2 DEF Field
  <2> QED
    BY <1>1, <2>1, <2>2
<1>3. CASE i < ByteBits
  <2>1. /\ i \in 0..(6 * H - 1) /\ i + ByteBits \in 0..(6 * H - 1)
        /\ i + 2 * ByteBits \in 0..(6 * H - 1)
        /\ ~(i + 2 * ByteBits <= k)
        /\ i + ByteBits <= k => i <= k
        /\ i + ByteBits <= k <=> ~(k < i + ByteBits)
    BY <1>1, <1>3 DEF Positions, TotalBits, ByteBits
  <2>2. /\ BuildPayload(file, l)[i] = Check(DataBit(file, l, i), DataBit(file, l, i + ByteBits),
                                            DataBit(file, l, i + 2 * ByteBits))
        /\ BuildPayload(file, m)[i] = Check(DataBit(file, m, i), DataBit(file, m, i + ByteBits),
                                            DataBit(file, m, i + 2 * ByteBits))
    BY <1>3 DEF BuildPayload
  <2>3. \A a, b, c, d, e \in Bit :
          Check(a, b, c) # Check(d, e, c) <=> ~(a # d <=> b # e)
    BY DEF Check, Xor, Bit
  <2>4. DataBit(file, l, i + 2 * ByteBits) = DataBit(file, m, i + 2 * ByteBits)
    BY <1>2, <2>1
  <2>5. (BuildPayload(file, l)[i] # BuildPayload(file, m)[i])
           <=> ~(DataBit(file, l, i) # DataBit(file, m, i)
                  <=> DataBit(file, l, i + ByteBits) # DataBit(file, m, i + ByteBits))
    BY <1>2, <2>1, <2>2, <2>3, <2>4
  <2> QED
    BY <1>2, <1>3, <2>1, <2>5
<1>4. CASE ~(i < ByteBits)
  <2>1. i - ByteBits \in 0..(6 * H - 1)
    BY <1>1, <1>4 DEF Positions, TotalBits, ByteBits
  <2> QED
    BY <1>2, <1>4, <2>1 DEF BuildPayload
<1> QED
  BY <1>3, <1>4

\* Every pair of neighbouring bits has a difference of its own: in the pair itself,
\* or, where a carry that reaches the second data byte leaves a pair of the check
\* without one, the second one of the pair where the carry stops.
LEMMA DifferenceOfPairs ==
  ASSUME NEW D, D \subseteq Positions, NEW k \in 0..(LayerBits - 1),
         \A i \in Positions :
           i \in D <=> (i % 2 = 0 <=> IF i < ByteBits THEN i <= k /\ k < i + ByteBits
                                                    ELSE i - ByteBits <= k)
  PROVE  TotalBits <= 2 * Cardinality(D)
<1> DEFINE Pairs == 0..(4 * H - 1)
           own(p) == IF 2 * p \in D THEN 2 * p
                     ELSE IF 2 * p + 1 \in D THEN 2 * p + 1
                     ELSE 2 * p + 4 * H + 1
           f == [p \in Pairs |-> own(p)]
<1>1. H \in Nat /\ H > 0 /\ k \in Int /\ 0 <= k /\ k < 3 * H
  BY CodecConstants DEF LayerBits
<1>2. \A p \in Int : (2 * p) % 2 = 0 /\ (2 * p + 1) % 2 = 1
  OBVIOUS
<1>3. ASSUME NEW p \in Pairs
      PROVE  /\ 2 * p \in D <=> IF p < H THEN 2 * p <= k /\ k < 2 * p + 2 * H
                                         ELSE 2 * p - 2 * H <= k
             /\ 2 * p + 1 \in D <=> IF p < H THEN ~(2 * p + 1 <= k /\ k < 2 * p + 1 + 2 * H)
                                             ELSE ~(2 * p + 1 - 2 * H <= k)
  <2>1. 2 * p \in Positions /\ 2 * p + 1 \in Positions /\ p \in Int
    BY <1>1 DEF Positions, TotalBits
  <2>2. (2 * p < ByteBits <=> p < H) /\ (2 * p + 1 < ByteBits <=> p < H) /\ ByteBits = 2 * H
    BY <1>1, <2>1 DEF ByteBits
  <2>3. (2 * p) % 2 = 0 /\ (2 * p + 1) % 2 # 0
    BY <1>2, <2>1
  <2> QED
    BY <2>1, <2>2, <2>3
<1>4. ASSUME NEW p \in Pairs, 2 * p \notin D, 2 * p + 1 \notin D
      PROVE  p < H /\ k = 2 * p + 2 * H
  BY <1>1, <1>3, <1>4
<1>5. ASSUME NEW p \in Pairs, p < H, k = 2 * p + 2 * H
      PROVE  2 * p + 4 * H \in D /\ 2 * p + 4 * H + 1 \in D
  <2>1. PICK q \in Pairs : q = p + 2 * H
    BY <1>1, <1>5
  <2>2. /\ ~(q < H) /\ 2 * q - 2 * H <= k /\ ~(2 * q + 1 - 2 * H <= k)
        /\ 2 * q = 2 * p + 4 * H /\ 2 * q + 1 = 2 * p + 4 * H + 1
    BY <1>1, <1>5, <2>1
  <2>3. 2 * q \in D /\ 2 * q + 1 \in D
    BY <1>3, <2>2
  <2> QED
    BY <2>2, <2>3
<1>6. ASSUME NEW p \in Pairs PROVE own(p) \in D
  BY <1>4, <1>5
<1>7. ASSUME NEW p \in Pairs, NEW q \in Pairs, own(p) = own(q) PROVE p = q
  <2>1. p \in Int /\ q \in Int
    BY <1>1
  <2>2. ASSUME NEW x \in Pairs, NEW y \in Pairs, 2 * x \notin D, 2 * x + 1 \notin D,
               2 * x + 4 * H + 1 = own(y)
        PROVE  x = y
    <3>1. x < H /\ k = 2 * x + 2 * H /\ 2 * x + 4 * H \in D /\ x \in Int /\ y \in Int
      BY <1>1, <1>4, <1>5, <2>2
    <3>2. ~(2 * y \in D)
      <4>1. ASSUME 2 * y \in D PROVE FALSE
        <5>1. 2 * x + 4 * H + 1 = 2 * y
          BY <2>2, <4>1
        <5> QED
          BY <1>1, <3>1, <5>1
      <4> QED
        BY <4>1
    <3>3. ~(2 * y + 1 \in D)
      <4>1. ASSUME 2 * y + 1 \in D PROVE FALSE
        <5>1. 2 * x + 4 * H + 1 = 2 * y + 1
          BY <2>2, <3>2, <4>1
        <5>2. 2 * y = 2 * x + 4 * H
          BY <1>1, <3>1, <5>1
        <5> QED
          BY <3>1, <3>2, <5>2
      <4> QED
        BY <4>1
    <3>4. 2 * x + 4 * H + 1 = 2 * y + 4 * H + 1
      BY <2>2, <3>2, <3>3
    <3> QED
      BY <1>1, <3>1, <3>4
  <2>3. CASE 2 * p \notin D /\ 2 * p + 1 \notin D
    BY <1>7, <2>2, <2>3
  <2>4. CASE 2 * q \notin D /\ 2 * q + 1 \notin D
    BY <1>7, <2>2, <2>4
  <2>5. CASE ~(2 * p \notin D /\ 2 * p + 1 \notin D) /\ ~(2 * q \notin D /\ 2 * q + 1 \notin D)
    BY <1>7, <2>1, <2>5
  <2> QED
    BY <2>3, <2>4, <2>5
<1>8. f \in Injection(Pairs, D)
  <2> HIDE DEF own
  <2>1. f \in [Pairs -> D]
    BY <1>6
  <2>2. \A p, q \in Pairs : f[p] = f[q] => p = q
    BY <1>7
  <2> HIDE DEF f
  <2> QED
    BY <2>1, <2>2 DEF Injection, IsInjective
<1>9. IsFiniteSet(D)
  <2>1. IsFiniteSet(0..(TotalBits - 1))
    BY <1>1, FS_Interval DEF TotalBits
  <2> QED
    BY <2>1, FS_Subset DEF Positions
<1>10. Cardinality(Pairs) <= Cardinality(D)
  <2> HIDE DEF f, Pairs
  <2> QED
    BY <1>8, <1>9, FS_Injection
<1>11. Cardinality(Pairs) = 4 * H
  <2>1. 0 \in Int /\ 4 * H - 1 \in Int /\ ~(0 > 4 * H - 1)
    BY <1>1
  <2> QED
    BY <1>1, <2>1, FS_Interval
<1>12. Cardinality(D) \in Nat
  BY <1>9, FS_CardinalityType
<1> QED
  BY <1>1, <1>10, <1>11, <1>12 DEF TotalBits

-----------------------------------------------------------------------------

\* Every row holds what encode_layer computes for its file and layer.
RowsInv ==
  \A r \in rows : \E file \in Field, layer \in LayerIdx : r = EncodedLayer(file, layer)

LEMMA RowsInvInit == Init => RowsInv
  BY DEF Init, RowsInv

LEMMA RowsInvNext == RowsInv /\ [Next]_vars => RowsInv'
<1> SUFFICES ASSUME RowsInv, [Next]_vars PROVE RowsInv'
  OBVIOUS
<1>1. ASSUME NEW file \in FileIds, NEW layer \in LayerIdxs, EncodeLayer(file, layer)
      PROVE  RowsInv'
  <2>1. file \in Field /\ layer \in LayerIdx
    BY CodecConstants DEF LayerIdx
  <2>2. rows' = rows \cup {EncodedLayer(file, layer)}
    BY <1>1 DEF EncodeLayer
  <2> QED
    BY <2>1, <2>2 DEF RowsInv
<1>2. CASE UNCHANGED rows
  BY <1>2 DEF RowsInv
<1> QED
  BY <1>1, <1>2 DEF Next, Look, Misread, Decode, LookUp, ScanEnds, vars

\* Any two encoded layers have different payloads and different patterns, unless
\* they are the same layer of one file modulo 2^LAYER_IDX_BITS: for every byte
\* width and every set of files and layers.
THEOREM FingerprintsStayDistinct == Spec => []FingerprintsDistinct
<1>1. RowsInv => FingerprintsDistinct
  <2> SUFFICES ASSUME RowsInv, NEW r \in rows, NEW s \in rows,
                      r.correlated = s.correlated \/ r.payload = s.payload
               PROVE  Alias(r, s)
    BY DEF FingerprintsDistinct
  <2>1. PICK f \in Field, l \in LayerIdx : r = EncodedLayer(f, l)
    BY DEF RowsInv
  <2>2. PICK g \in Field, m \in LayerIdx : s = EncodedLayer(g, m)
    BY DEF RowsInv
  <2>3. /\ r.file = f /\ r.layer = l /\ s.file = g /\ s.layer = m
        /\ r.payload = BuildPayload(f, l) /\ s.payload = BuildPayload(g, m)
        /\ r.correlated = Written(f, l) /\ s.correlated = Written(g, m)
    BY <2>1, <2>2 DEF EncodedLayer, Written
  <2> QED
    BY <2>3, WrittenDistinct DEF Alias
<1> QED
  BY <1>1, RowsInvInit, RowsInvNext, PTL DEF Spec

\* The patterns of consecutive layers differ in at least half of their bits, whatever
\* carries run through the index and the check: for every byte width.
THEOREM AdjacentLayersStayFar == Spec => []AdjacentLayersFar
<1>1. RowsInv => AdjacentLayersFar
  <2> SUFFICES ASSUME RowsInv, NEW r \in rows, NEW s \in rows,
                      r.file = s.file, Successor(r.layer, s.layer)
               PROVE  2 * Cardinality({i \in Positions : r.correlated[i] # s.correlated[i]})
                        >= TotalBits
    BY DEF AdjacentLayersFar
  <2>1. PICK f \in Field, l \in LayerIdx : r = EncodedLayer(f, l)
    BY DEF RowsInv
  <2>2. PICK g \in Field, m \in LayerIdx : s = EncodedLayer(g, m)
    BY DEF RowsInv
  <2>3. /\ g = f /\ r.layer = l /\ s.layer = m
        /\ r.correlated = Written(f, l) /\ s.correlated = Written(f, m)
    BY <2>1, <2>2 DEF EncodedLayer, Written
  <2>4. PICK k \in 0..(LayerBits - 1) :
          /\ l[k] = 0 /\ m[k] = 1
          /\ \A i \in 0..(k - 1) : l[i] = 1 /\ m[i] = 0
          /\ \A i \in (k + 1)..(IdxBits - 1) : l[i] = m[i]
    BY <2>3 DEF Successor
  <2>5. IsOdd(l) # IsOdd(m)
    <3>1. k = 0 \/ 0 \in 0..(k - 1)
      BY CodecConstants DEF LayerBits
    <3> QED
      BY <2>4, <3>1 DEF IsOdd
  <2> DEFINE D == {i \in Positions : Written(f, l)[i] # Written(f, m)[i]}
  <2>6. ASSUME NEW i \in Positions
        PROVE  i \in D <=> (i % 2 = 0 <=> IF i < ByteBits THEN i <= k /\ k < i + ByteBits
                                                        ELSE i - ByteBits <= k)
    <3>1. i \in D <=> (i % 2 = 0 <=> BuildPayload(f, l)[i] # BuildPayload(f, m)[i])
      BY <2>5, MaskedDifference
    <3>2. (BuildPayload(f, l)[i] # BuildPayload(f, m)[i])
             <=> IF i < ByteBits THEN i <= k /\ k < i + ByteBits ELSE i - ByteBits <= k
      BY <2>4, CarryDifference
    <3> QED
      BY <3>1, <3>2
  <2>7. D \subseteq Positions
    OBVIOUS
  <2>8. TotalBits <= 2 * Cardinality(D)
    <3> HIDE DEF D
    <3> QED
      BY <2>6, <2>7, DifferenceOfPairs
  <2> QED
    BY <2>3, <2>8
<1> QED
  BY <1>1, RowsInvInit, RowsInvNext, PTL DEF Spec

-----------------------------------------------------------------------------
(* The pattern.                                                             *)

Pattern(before, word, after) == Plain(before) \o PayloadToSpacings(word) \o Plain(after)

\* What concatenation does, one fact at a time.
LEMMA ConcatType == \A S : \A s, t \in Seq(S) : s \o t \in Seq(S)
  BY ConcatProperties

LEMMA ConcatLen == \A S : \A s, t \in Seq(S) : Len(s \o t) = Len(s) + Len(t)
  BY ConcatProperties

LEMMA ConcatLeft == \A S : \A s, t \in Seq(S) : \A k \in 1..Len(s) : (s \o t)[k] = s[k]
<1> SUFFICES ASSUME NEW S, NEW s \in Seq(S), NEW t \in Seq(S), NEW k \in 1..Len(s)
             PROVE  (s \o t)[k] = s[k]
  OBVIOUS
<1>1. \A i \in 1..(Len(s) + Len(t)) :
        (s \o t)[i] = IF i <= Len(s) THEN s[i] ELSE t[i - Len(s)]
  BY ConcatProperties
<1>2. k \in 1..(Len(s) + Len(t)) /\ k <= Len(s)
  BY LenProperties
<1> QED
  BY <1>1, <1>2

LEMMA ConcatRight ==
  \A S : \A s, t \in Seq(S) : \A k \in 1..Len(t) : (s \o t)[Len(s) + k] = t[k]
<1> SUFFICES ASSUME NEW S, NEW s \in Seq(S), NEW t \in Seq(S), NEW k \in 1..Len(t)
             PROVE  (s \o t)[Len(s) + k] = t[k]
  OBVIOUS
<1>1. \A i \in 1..(Len(s) + Len(t)) :
        (s \o t)[i] = IF i <= Len(s) THEN s[i] ELSE t[i - Len(s)]
  BY ConcatProperties
<1>2. /\ Len(s) + k \in 1..(Len(s) + Len(t)) /\ ~(Len(s) + k <= Len(s))
      /\ (Len(s) + k) - Len(s) = k
  BY LenProperties
<1> QED
  BY <1>1, <1>2

\* A pattern's SYNCs enclose it, and its bits stand in between, the most significant
\* first; only 0 is narrow.
LEMMA SpacingsOfWord ==
  ASSUME NEW word \in Word
  PROVE  LET p == PayloadToSpacings(word)
         IN  /\ p \in Seq(GapSet) /\ Len(p) = TotalBits + 2
             /\ \A k \in 1..(TotalBits + 2) : p[k] = "sync" <=> k \in {1, TotalBits + 2}
             /\ \A i \in Positions : p[TotalBits + 1 - i] = "narrow" <=> word[i] = 0
<1> DEFINE bits == [n \in 1..TotalBits |->
                      IF word[TotalBits - n] = 1 THEN "wide" ELSE "narrow"]
           sync == <<"sync">>
           p    == PayloadToSpacings(word)
<1>1. TotalBits \in Nat /\ TotalBits > 0
  BY CodecConstants DEF TotalBits
<1>2. bits \in Seq({"wide", "narrow"}) /\ Len(bits) = TotalBits
  BY <1>1
<1>3. bits \in Seq(GapSet) /\ sync \in Seq(GapSet) /\ Len(sync) = 1 /\ sync[1] = "sync"
  BY <1>1, <1>2 DEF GapSet
<1>4. p = sync \o bits \o sync
  BY DEF PayloadToSpacings
<1> HIDE DEF p, sync
<1> DEFINE front == sync \o bits
<1> HIDE DEF bits
<1>5. /\ front \in Seq(GapSet) /\ Len(front) = 1 + TotalBits
      /\ front[1] = "sync"
      /\ \A k \in 1..TotalBits : front[1 + k] = bits[k]
  <2>1. front \in Seq(GapSet)
    BY <1>3, ConcatType
  <2>2. Len(front) = 1 + TotalBits
    BY <1>2, <1>3, ConcatLen
  <2>3. front[1] = sync[1]
    <3>1. 1 \in 1..Len(sync)
      BY <1>3
    <3> QED
      BY <1>3, <3>1, ConcatLeft
  <2>4. \A k \in 1..Len(bits) : front[Len(sync) + k] = bits[k]
    <3>1. sync \in Seq(GapSet) /\ bits \in Seq(GapSet)
      BY <1>3
    <3> QED
      BY <3>1, ConcatRight
  <2> QED
    BY <1>2, <1>3, <2>1, <2>2, <2>3, <2>4
<1>5a. p = front \o sync
  BY <1>4
<1> HIDE DEF front
<1>6. /\ p \in Seq(GapSet) /\ Len(p) = TotalBits + 2
      /\ \A k \in 1..(1 + TotalBits) : p[k] = front[k]
      /\ p[TotalBits + 2] = "sync"
  <2>1. p \in Seq(GapSet)
    BY <1>3, <1>5, <1>5a, ConcatType
  <2>2. Len(p) = Len(front) + Len(sync)
    BY <1>3, <1>5, <1>5a, ConcatLen
  <2>3. \A k \in 1..Len(front) : p[k] = front[k]
    BY <1>3, <1>5, <1>5a, ConcatLeft
  <2>4. p[Len(front) + 1] = sync[1]
    <3>1. 1 \in 1..Len(sync)
      BY <1>3
    <3> QED
      BY <1>3, <1>5, <1>5a, <3>1, ConcatRight
  <2>5. Len(front) + 1 = TotalBits + 2 /\ Len(front) + Len(sync) = TotalBits + 2
    BY <1>1, <1>3, <1>5
  <2> QED
    BY <1>3, <1>5, <2>1, <2>2, <2>3, <2>4, <2>5
<1>7. p[1] = "sync" /\ p[TotalBits + 2] = "sync"
  <2>1. 1 \in 1..(1 + TotalBits)
    BY <1>1
  <2> QED
    BY <1>5, <1>6, <2>1
<1>8. ASSUME NEW n \in 1..TotalBits
      PROVE  p[n + 1] = IF word[TotalBits - n] = 1 THEN "wide" ELSE "narrow"
  <2>1. p[n + 1] = bits[n]
    <3>1. 1 + n \in 1..(1 + TotalBits) /\ n + 1 = 1 + n
      BY <1>1
    <3> QED
      BY <1>5, <1>6, <3>1
  <2> QED
    BY <2>1 DEF bits
<1>9. ASSUME NEW k \in 1..(TotalBits + 2)
      PROVE  p[k] = "sync" <=> k \in {1, TotalBits + 2}
  <2>1. CASE k \in {1, TotalBits + 2}
    BY <1>7, <2>1
  <2>2. CASE k \notin {1, TotalBits + 2}
    <3>1. k - 1 \in 1..TotalBits /\ (k - 1) + 1 = k
      BY <1>1, <2>2
    <3>2. p[k] \in {"wide", "narrow"}
      BY <1>8, <3>1
    <3> QED
      BY <2>2, <3>2
  <2> QED
    BY <2>1, <2>2
<1>10. ASSUME NEW i \in Positions
       PROVE  p[TotalBits + 1 - i] = "narrow" <=> word[i] = 0
  <2>1. TotalBits - i \in 1..TotalBits /\ (TotalBits - i) + 1 = TotalBits + 1 - i
        /\ TotalBits - (TotalBits - i) = i
    BY <1>1 DEF Positions
  <2>2. p[TotalBits + 1 - i] = IF word[i] = 1 THEN "wide" ELSE "narrow"
    BY <1>8, <2>1
  <2>3. word[i] \in {0, 1}
    BY DEF Word, Bit
  <2> QED
    BY <2>2, <2>3
<1> QED
  BY <1>6, <1>9, <1>10 DEF p

\* The same of the pattern among unmodulated gaps.
LEMMA PatternGaps ==
  ASSUME NEW word \in Word, NEW before \in Nat, NEW after \in Nat
  PROVE  LET p == Pattern(before, word, after)
         IN  /\ p \in Seq(GapSet) /\ Len(p) = before + TotalBits + 2 + after
             /\ \A k \in 1..Len(p) :
                  p[k] = "sync" <=> k \in {before + 1, before + TotalBits + 2}
             /\ \A i \in Positions :
                  p[before + 1 + TotalBits - i] = "narrow" <=> word[i] = 0
             /\ \A k \in 1..before : p[k] = "plain"
<1> DEFINE q    == PayloadToSpacings(word)
           left == Plain(before)
           tail == Plain(after)
           p    == Pattern(before, word, after)
<1>1. TotalBits \in Nat /\ TotalBits > 0
  BY CodecConstants DEF TotalBits
<1>2. /\ left \in Seq(GapSet) /\ Len(left) = before
      /\ \A k \in 1..before : left[k] = "plain"
  BY DEF Plain, GapSet
<1>3. /\ tail \in Seq(GapSet) /\ Len(tail) = after
      /\ \A k \in 1..after : tail[k] = "plain"
  BY DEF Plain, GapSet
<1>4. /\ q \in Seq(GapSet) /\ Len(q) = TotalBits + 2
      /\ \A k \in 1..(TotalBits + 2) : q[k] = "sync" <=> k \in {1, TotalBits + 2}
      /\ \A i \in Positions : q[TotalBits + 1 - i] = "narrow" <=> word[i] = 0
  BY SpacingsOfWord
<1>5. p = left \o q \o tail
  BY DEF Pattern
<1> HIDE DEF q, left, tail, p
<1> DEFINE front == left \o q
<1>6. /\ front \in Seq(GapSet) /\ Len(front) = before + (TotalBits + 2)
      /\ \A k \in 1..before : front[k] = left[k]
      /\ \A k \in 1..(TotalBits + 2) : front[before + k] = q[k]
  <2>1. front \in Seq(GapSet)
    BY <1>2, <1>4, ConcatType
  <2>2. Len(front) = Len(left) + Len(q)
    BY <1>2, <1>4, ConcatLen
  <2>3. \A k \in 1..Len(left) : front[k] = left[k]
    BY <1>2, <1>4, ConcatLeft
  <2>4. \A k \in 1..Len(q) : front[Len(left) + k] = q[k]
    BY <1>2, <1>4, ConcatRight
  <2> QED
    BY <1>2, <1>4, <2>1, <2>2, <2>3, <2>4
<1>7. p = front \o tail /\ before + (TotalBits + 2) \in Nat
  BY <1>1, <1>5
<1> HIDE DEF front
<1>8. /\ p \in Seq(GapSet) /\ Len(p) = (before + (TotalBits + 2)) + after
      /\ \A k \in 1..(before + (TotalBits + 2)) : p[k] = front[k]
      /\ \A k \in 1..after : p[(before + (TotalBits + 2)) + k] = tail[k]
  <2>1. p \in Seq(GapSet)
    BY <1>3, <1>6, <1>7, ConcatType
  <2>2. Len(p) = Len(front) + Len(tail)
    BY <1>3, <1>6, <1>7, ConcatLen
  <2>3. \A k \in 1..Len(front) : p[k] = front[k]
    BY <1>3, <1>6, <1>7, ConcatLeft
  <2>4. \A k \in 1..Len(tail) : p[Len(front) + k] = tail[k]
    BY <1>3, <1>6, <1>7, ConcatRight
  <2> QED
    BY <1>3, <1>6, <2>1, <2>2, <2>3, <2>4
<1>9. /\ Len(p) = before + TotalBits + 2 + after
      /\ \A k \in 1..before : p[k] = "plain"
      /\ \A k \in 1..(TotalBits + 2) : p[before + k] = q[k]
      /\ \A k \in 1..after : p[before + TotalBits + 2 + k] = "plain"
  <2>1. ASSUME NEW k \in 1..before PROVE p[k] = "plain"
    BY <1>1, <1>2, <1>6, <1>8
  <2>2. ASSUME NEW k \in 1..(TotalBits + 2) PROVE p[before + k] = q[k]
    <3>1. before + k \in 1..(before + (TotalBits + 2))
      BY <1>1
    <3> QED
      BY <1>6, <1>8, <3>1
  <2>3. ASSUME NEW k \in 1..after PROVE p[before + TotalBits + 2 + k] = "plain"
    <3>1. before + TotalBits + 2 + k = (before + (TotalBits + 2)) + k
      BY <1>1
    <3> QED
      BY <1>3, <1>8, <3>1
  <2>4. Len(p) = before + TotalBits + 2 + after
    BY <1>1, <1>8
  <2> QED
    BY <2>1, <2>2, <2>3, <2>4
<1>10. ASSUME NEW k \in 1..(before + TotalBits + 2 + after)
       PROVE  p[k] = "sync" <=> k \in {before + 1, before + TotalBits + 2}
  <2>1. CASE k <= before
    <3>1. k \in 1..before /\ k \notin {before + 1, before + TotalBits + 2}
      BY <1>1, <2>1
    <3> QED
      BY <1>9, <3>1
  <2>2. CASE k > before /\ k <= before + TotalBits + 2
    <3>1. k - before \in 1..(TotalBits + 2) /\ before + (k - before) = k
      BY <1>1, <2>2
    <3>2. p[k] = q[k - before]
      BY <1>9, <3>1
    <3>3. p[k] = "sync" <=> k - before \in {1, TotalBits + 2}
      BY <1>4, <3>1, <3>2
    <3> QED
      BY <1>1, <3>3
  <2>3. CASE k > before + TotalBits + 2
    <3>1. /\ k - (before + TotalBits + 2) \in 1..after
          /\ before + TotalBits + 2 + (k - (before + TotalBits + 2)) = k
          /\ k \notin {before + 1, before + TotalBits + 2}
      BY <1>1, <2>3
    <3>2. p[k] = "plain"
      BY <1>9, <3>1
    <3> QED
      BY <3>1, <3>2
  <2> QED
    BY <1>1, <2>1, <2>2, <2>3
<1>11. ASSUME NEW i \in Positions
       PROVE  p[before + 1 + TotalBits - i] = "narrow" <=> word[i] = 0
  <2>1. /\ TotalBits + 1 - i \in 1..(TotalBits + 2)
        /\ before + 1 + TotalBits - i = before + (TotalBits + 1 - i)
    BY <1>1 DEF Positions
  <2>2. p[before + 1 + TotalBits - i] = q[TotalBits + 1 - i]
    BY <1>9, <2>1
  <2> QED
    BY <1>4, <2>2
<1> QED
  BY <1>8, <1>9, <1>10, <1>11 DEF p

-----------------------------------------------------------------------------
(* One picture.                                                             *)

\* The picture of a layer: its pattern, wrong at most at the misread gaps.
Picture(picture, wrong, word) ==
  \E before, after \in Nat :
    LET p == Pattern(before, word, after)
    IN  /\ picture \in Seq(GapSet) /\ Len(picture) = Len(p)
        /\ \A k \in 1..Len(p) : k \notin wrong => picture[k] = p[k]

\* What full_decode may make of it: with a gap misread, the word that was written
\* or that word with one bit flipped, if it finds any; a window further right is
\* there only when the pattern's own is intact.
LEMMA WindowOfPicture ==
  ASSUME NEW word \in Word, NEW picture, NEW wrong,
         \A j, k \in wrong : j = k, wrong = {} \/ ~PlainWindowFirst(picture),
         Picture(picture, wrong, word)
  PROVE  \E s \in Int :
           /\ \A t \in SyncPairs(picture) :
                t # s => /\ t > s /\ s \in SyncPairs(picture)
                         /\ BitsFromSpacings(picture, s) = word
           /\ \/ BitsFromSpacings(picture, s) = word
              \/ \E j \in Positions :
                   /\ BitsFromSpacings(picture, s)[j] # word[j]
                   /\ \A i \in Positions : i # j => BitsFromSpacings(picture, s)[i] = word[i]
           /\ wrong = {} => /\ s \in SyncPairs(picture)
                            /\ BitsFromSpacings(picture, s) = word
<1>1. TotalBits \in Nat /\ TotalBits > 0
  BY CodecConstants DEF TotalBits
<1>2. PICK before \in Nat, after \in Nat :
        LET p == Pattern(before, word, after)
        IN  /\ picture \in Seq(GapSet) /\ Len(picture) = Len(p)
            /\ \A k \in 1..Len(p) : k \notin wrong => picture[k] = p[k]
  BY DEF Picture
<1> DEFINE p   == Pattern(before, word, after)
           s   == before + 1
           len == before + TotalBits + 2 + after
           raw == BitsFromSpacings(picture, s)
<1>3. before \in Nat /\ after \in Nat
  OBVIOUS
<1>4. /\ Len(p) = len
      /\ \A k \in 1..len : p[k] = "sync" <=> k \in {before + 1, before + TotalBits + 2}
      /\ \A i \in Positions : p[before + 1 + TotalBits - i] = "narrow" <=> word[i] = 0
      /\ \A k \in 1..before : p[k] = "plain"
  <2> HIDE DEF p
  <2>1. /\ Len(p) = len
        /\ \A k \in 1..Len(p) : p[k] = "sync" <=> k \in {before + 1, before + TotalBits + 2}
        /\ \A i \in Positions : p[before + 1 + TotalBits - i] = "narrow" <=> word[i] = 0
        /\ \A k \in 1..before : p[k] = "plain"
    BY <1>3, PatternGaps DEF p
  <2> QED
    BY <2>1
<1>5. Len(picture) = len /\ \A k \in 1..len : k \notin wrong => picture[k] = p[k]
  BY <1>2, <1>4
<1> HIDE DEF p
<1>6. \A k \in 1..len :
        k \notin wrong => (picture[k] = "sync" <=> k \in {before + 1, before + TotalBits + 2})
  BY <1>4, <1>5
<1>8. /\ raw = [i \in Positions |-> raw[i]]
      /\ \A i \in Positions : raw[i] = IF picture[s + TotalBits - i] = "narrow" THEN 0 ELSE 1
  BY DEF BitsFromSpacings
<1>9. ASSUME NEW i \in Positions, s + TotalBits - i \notin wrong
      PROVE  raw[i] = word[i]
  <2>1. /\ s + TotalBits - i \in 1..len
        /\ s + TotalBits - i = before + 1 + TotalBits - i
    BY <1>1, <1>3 DEF Positions
  <2>2. picture[s + TotalBits - i] = "narrow" <=> word[i] = 0
    BY <1>4, <1>5, <1>9, <2>1
  <2>3. word[i] \in {0, 1}
    BY DEF Word, Bit
  <2> QED
    BY <1>8, <2>2, <2>3
<1>10. (\A i \in Positions : raw[i] = word[i]) => raw = word
  BY <1>8 DEF Word
<1> HIDE DEF raw
<1>11. \/ raw = word
       \/ \E j \in Positions : /\ raw[j] # word[j]
                               /\ \A i \in Positions : i # j => raw[i] = word[i]
  <2> SUFFICES ASSUME raw # word
               PROVE  \E j \in Positions : /\ raw[j] # word[j]
                                           /\ \A i \in Positions : i # j => raw[i] = word[i]
    OBVIOUS
  <2>1. PICK j \in Positions : raw[j] # word[j]
    BY <1>10
  <2>2. s + TotalBits - j \in wrong
    BY <1>9, <2>1
  <2>3. ASSUME NEW i \in Positions, i # j PROVE raw[i] = word[i]
    <3>1. s + TotalBits - i # s + TotalBits - j
      BY <1>1, <1>3, <2>3 DEF Positions
    <3>2. s + TotalBits - i \notin wrong
      BY <2>2, <3>1
    <3> QED
      BY <1>9, <3>2
  <2> QED
    BY <2>1, <2>3
<1>12. ASSUME s \notin wrong, s + TotalBits + 1 \notin wrong PROVE s \in SyncPairs(picture)
  <2>1. /\ s \in 1..len /\ s + TotalBits + 1 \in 1..len
        /\ s + TotalBits + 1 = before + TotalBits + 2
        /\ s \in 1..(len - TotalBits - 1)
    BY <1>1, <1>3
  <2>2. picture[s] = "sync" /\ picture[s + TotalBits + 1] = "sync"
    BY <1>6, <1>12, <2>1
  <2> QED
    BY <1>5, <2>1, <2>2 DEF SyncPairs
<1>13. wrong = {} => s \in SyncPairs(picture) /\ raw = word
  BY <1>9, <1>10, <1>12
<1>14. ASSUME NEW t \in SyncPairs(picture), t # s
       PROVE  t > s /\ s \in SyncPairs(picture) /\ raw = word
  <2>1. /\ t \in 1..(len - TotalBits - 1)
        /\ picture[t] = "sync" /\ picture[t + TotalBits + 1] = "sync"
    BY <1>5, <1>14 DEF SyncPairs
  <2>2. /\ t \in Int /\ t >= 1 /\ t <= before + after + 1
        /\ t \in 1..len /\ t + TotalBits + 1 \in 1..len
    BY <1>1, <1>3, <2>1
  <2>3. CASE t \notin wrong /\ t + TotalBits + 1 \notin wrong
    <3>1. t = before + TotalBits + 2
      BY <1>6, <1>14, <2>1, <2>2, <2>3
    <3>2. t + TotalBits + 1 \notin {before + 1, before + TotalBits + 2}
      BY <1>1, <1>3, <3>1
    <3> QED
      BY <1>6, <2>1, <2>2, <2>3, <3>2
  <2>4. CASE t \in wrong
    <3>1. t + TotalBits + 1 \notin wrong /\ t + TotalBits + 1 # before + TotalBits + 2
      BY <1>1, <1>3, <1>14, <2>2, <2>4
    <3>2. t + TotalBits + 1 = before + 1
      BY <1>6, <2>1, <2>2, <3>1
    <3>3. s \in SyncPairs(picture)
      <4>1. s \notin wrong /\ s + TotalBits + 1 \notin wrong
        BY <1>1, <1>3, <2>2, <2>4, <3>2
      <4> QED
        BY <1>12, <4>1
    <3>4. ASSUME NEW i \in 1..TotalBits PROVE picture[t + i] = "plain"
      <4>1. t + i \in 1..before /\ t + i \in 1..len /\ t + i # t
        BY <1>1, <1>3, <2>2, <3>2
      <4>2. t + i \notin wrong
        BY <2>4, <4>1
      <4> QED
        BY <1>4, <1>5, <4>1, <4>2
    <3>5. t < s
      BY <1>1, <1>3, <2>2, <3>2
    <3>6. PlainWindowFirst(picture)
      BY <1>14, <3>3, <3>4, <3>5 DEF PlainWindowFirst
    <3> QED
      BY <2>4, <3>6
  <2>5. CASE t + TotalBits + 1 \in wrong
    <3>1. t \notin wrong
      BY <1>1, <2>2, <2>5
    <3>2. t = before + TotalBits + 2
      BY <1>6, <1>14, <2>1, <2>2, <3>1
    <3>3. t > s
      BY <1>1, <1>3, <3>2
    <3>4. s \notin wrong /\ s + TotalBits + 1 \notin wrong
      BY <1>1, <1>3, <2>2, <2>5, <3>2
    <3>5. ASSUME NEW i \in Positions PROVE raw[i] = word[i]
      <4>1. s + TotalBits - i # t + TotalBits + 1
        BY <1>1, <1>3, <3>2 DEF Positions
      <4>2. s + TotalBits - i \notin wrong
        BY <2>5, <4>1
      <4> QED
        BY <1>9, <4>2
    <3> QED
      BY <1>10, <1>12, <3>3, <3>4, <3>5
  <2> QED
    BY <2>3, <2>4, <2>5
<1>15. s \in Int
  BY <1>3
<1> HIDE DEF s
<1> QED
  BY <1>11, <1>13, <1>14, <1>15 DEF raw

\* What full_decode answers is a layer of the fields' widths, whatever it sees.
LEMMA DecodeType ==
  ASSUME NEW picture
  PROVE  \/ FullDecode(picture) = Nothing
         \/ FullDecode(picture) \in
              [decoded : {TRUE}, file : Field, layer : Field, payload : Word, correlated : Word]
<1>1. \A s : BitsFromSpacings(picture, s) \in Word
  BY DEF BitsFromSpacings, Word, Bit
<1>2. ASSUME NEW raw \in Word, NEW anticorr
      PROVE  Decoded(raw, anticorr) \in
               [decoded : {TRUE}, file : Field, layer : Field, payload : Word, correlated : Word]
  <2>1. Candidate(raw, anticorr) \in Word
    BY MaskTwice DEF Candidate
  <2>2. ASSUME NEW w \in Word, NEW i \in 0..(LayerBits - 1)
        PROVE  w[i + ByteBits] \in Bit /\ w[i + ByteBits + LayerBits] \in Bit
    <3>1. i + ByteBits \in Positions /\ i + ByteBits + LayerBits \in Positions
      BY CodecConstants DEF Positions, TotalBits, ByteBits, LayerBits
    <3> QED
      BY <3>1 DEF Word
  <2>3. LayerOf(Candidate(raw, anticorr)) \in Field /\ FileOf(Candidate(raw, anticorr)) \in Field
    BY <2>1, <2>2 DEF LayerOf, FileOf, Field
  <2> QED
    BY <2>1, <2>3 DEF Decoded
<1> QED
  BY <1>1, <1>2 DEF FullDecode

\* A picture with at most one gap misread decodes to the layer shown or to nothing,
\* and without a misread gap to that layer.
LEMMA DecodeOfPicture ==
  ASSUME NEW file \in Field, NEW layer \in LayerIdx, NEW picture, NEW wrong,
         \A j, k \in wrong : j = k, wrong = {} \/ ~PlainWindowFirst(picture),
         Picture(picture, wrong, Written(file, layer))
  PROVE  /\ \/ FullDecode(picture) = Nothing
            \/ FullDecode(picture) = Decoded(Written(file, layer), IsOdd(layer))
         /\ wrong = {} => FullDecode(picture) = Decoded(Written(file, layer), IsOdd(layer))
<1> DEFINE word   == Written(file, layer)
           raw(s) == BitsFromSpacings(picture, s)
           good   == {s \in SyncPairs(picture) : \E a \in BOOLEAN : Passes(raw(s), a)}
<1>1. word \in Word
  BY WrittenWord
<1>2. Passes(word, IsOdd(layer)) /\ ~Passes(word, ~IsOdd(layer))
  BY RoundTrip
<1>3. IsOdd(layer) \in BOOLEAN
  BY DEF IsOdd
<1>4. RsAccepts(word)
  <2>1. RsAccepts(Candidate(word, IsOdd(layer)))
    BY <1>2 DEF Passes
  <2> QED
    BY <1>1, <1>3, <2>1, MaskInvisibleToRS DEF Candidate
<1>5. PICK s \in Int :
        /\ \A t \in SyncPairs(picture) :
             t # s => t > s /\ s \in SyncPairs(picture) /\ raw(s) = word
        /\ \/ raw(s) = word
           \/ \E j \in Positions :
                /\ raw(s)[j] # word[j]
                /\ \A i \in Positions : i # j => raw(s)[i] = word[i]
        /\ wrong = {} => s \in SyncPairs(picture) /\ raw(s) = word
  <2>1. Picture(picture, wrong, word)
    OBVIOUS
  <2> HIDE DEF word
  <2> QED
    BY <1>1, <2>1, WindowOfPicture
<1>6. raw(s) \in Word
  BY DEF BitsFromSpacings, Word, Bit
<1>7. ASSUME s \in good PROVE raw(s) = word
  <2>1. PICK a \in BOOLEAN : Passes(raw(s), a)
    BY <1>7
  <2>2. RsAccepts(Candidate(raw(s), FALSE)) \/ RsAccepts(Candidate(raw(s), TRUE))
    BY <2>1 DEF Passes
  <2> QED
    BY <1>1, <1>4, <1>5, <1>6, <2>2, SingleFlipDetected
<1>8. ASSUME good # {} PROVE s \in good /\ \A t \in good : s <= t
  <2>1. PICK t \in good : TRUE
    BY <1>8
  <2>2. s \in good
    BY <1>2, <1>3, <1>5, <2>1
  <2> QED
    BY <1>5, <2>2
<1>9. good = {} => FullDecode(picture) = Nothing
  BY DEF FullDecode
<1>10. ASSUME good # {} PROVE FullDecode(picture) = Decoded(word, IsOdd(layer))
  <2>1. s \in good /\ \A t \in good : s <= t
    BY <1>8, <1>10
  <2>2. Min(good) = s
    <3>1. \A t \in good : t \in Int
      BY DEF SyncPairs
    <3>2. \A t \in good : (\A y \in good : t <= y) => t = s
      BY <2>1, <3>1
    <3> HIDE DEF good
    <3> QED
      BY <2>1, <3>2 DEF Min
  <2>3. FullDecode(picture) = Decoded(raw(Min(good)), ~Passes(raw(Min(good)), FALSE))
    BY <1>10 DEF FullDecode
  <2>4. raw(s) = word
    BY <1>7, <2>1
  <2>5. ~Passes(word, FALSE) <=> IsOdd(layer)
    BY <1>2, <1>3 DEF Passes
  <2> HIDE DEF word, raw, good
  <2>6. FullDecode(picture) = Decoded(word, ~Passes(word, FALSE))
    BY <2>2, <2>3, <2>4
  <2> QED
    BY <2>5, <2>6 DEF Decoded, Candidate
<1>11. wrong = {} => good # {}
  <2> SUFFICES ASSUME wrong = {} PROVE s \in good
    OBVIOUS
  <2>1. s \in SyncPairs(picture) /\ raw(s) = word
    BY <1>5
  <2> QED
    BY <1>2, <1>3, <2>1
<1> QED
  BY <1>9, <1>10, <1>11

-----------------------------------------------------------------------------
(* The scan.                                                                *)

\* From the layer shown to the rows found: what was measured is a picture of that
\* layer, what was decoded is decoded from it, and the rows found match it.
ScanInv ==
  /\ pc = "idle" => misread = {}
  /\ pc # "idle" => Picture(gaps, misread, shown.correlated)
  /\ pc \in {"decoded", "found"} => result = FullDecode(gaps)
  /\ pc = "found" =>
       /\ result.decoded
       /\ \A r \in found : r.correlated = result.correlated \/ r.payload = result.payload
       /\ shown.correlated = result.correlated => shown \in found

IInv == TypeOK /\ RowsInv /\ ScanInv

LEMMA RowsAreRows ==
  ASSUME NEW file \in Field, NEW layer \in LayerIdx
  PROVE  EncodedLayer(file, layer) \in RowSet
  BY PayloadIsWord, WrittenWord DEF EncodedLayer, Written, RowSet, LayerIdx

LEMMA IInvInit == Init => IInv
<1> SUFFICES ASSUME Init PROVE IInv
  OBVIOUS
<1>1. TypeOK
  BY DEF Init, TypeOK
<1> QED
  BY <1>1, RowsInvInit DEF Init, IInv, ScanInv

\* A picture with one more gap misread.
LEMMA MisreadPicture ==
  ASSUME NEW word, NEW picture \in Seq(GapSet), NEW wrong, NEW n \in 1..Len(picture),
         NEW gap \in GapSet, Picture(picture, wrong, word)
  PROVE  /\ Picture([picture EXCEPT ![n] = gap], wrong \cup {n}, word)
         /\ [picture EXCEPT ![n] = gap] \in Seq(GapSet)
         /\ Len([picture EXCEPT ![n] = gap]) = Len(picture)
<1> DEFINE new == [picture EXCEPT ![n] = gap]
<1>2. /\ new \in Seq(GapSet) /\ Len(new) = Len(picture)
      /\ \A k \in 1..Len(picture) : k # n => new[k] = picture[k]
  BY ExceptSeq
<1>3. PICK before \in Nat, after \in Nat :
        /\ Len(picture) = Len(Pattern(before, word, after))
        /\ \A k \in 1..Len(Pattern(before, word, after)) :
             k \notin wrong => picture[k] = Pattern(before, word, after)[k]
  BY DEF Picture
<1> HIDE DEF new
<1>4. /\ Len(new) = Len(Pattern(before, word, after))
      /\ \A k \in 1..Len(Pattern(before, word, after)) :
           k \notin wrong \cup {n} => new[k] = Pattern(before, word, after)[k]
  BY <1>2, <1>3
<1>5. Picture(new, wrong \cup {n}, word)
  BY <1>2, <1>4 DEF Picture
<1> QED
  BY <1>2, <1>5 DEF new

LEMMA IInvNext == IInv /\ [Next]_vars => IInv'
<1> SUFFICES ASSUME IInv, [Next]_vars PROVE IInv'
  OBVIOUS
<1> USE DEF IInv
<1>0. RowsInv' /\ rows' \subseteq RowSet
  <2>1. RowsInv'
    BY RowsInvNext
  <2> QED
    BY <2>1, RowsAreRows DEF RowsInv
<1>1. ASSUME NEW file \in FileIds, NEW layer \in LayerIdxs, EncodeLayer(file, layer)
      PROVE  IInv'
  <2>1. rows \subseteq rows' /\ UNCHANGED <<shown, gaps, misread, result, found, pc>>
    BY <1>1 DEF EncodeLayer, scan
  <2>2. TypeOK'
    BY <1>0, <2>1 DEF TypeOK
  <2>3. ScanInv'
    BY <2>1 DEF ScanInv
  <2> QED
    BY <1>0, <2>2, <2>3
<1>2. ASSUME NEW row \in rows, NEW before \in Margins, NEW after \in Margins,
             Look(row, before, after)
      PROVE  IInv'
  <2>1. row.correlated \in Word /\ before \in Nat /\ after \in Nat
    BY CodecConstants DEF TypeOK, RowSet
  <2>2. /\ gaps' = Pattern(before, row.correlated, after) /\ shown' = row /\ pc' = "seen"
        /\ UNCHANGED <<rows, misread, result, found>> /\ pc = "idle"
    BY <1>2 DEF Look, Pattern
  <2>3. gaps' \in Seq(GapSet)
    BY <2>1, <2>2, PatternGaps
  <2>4. misread = {}
    BY <2>2 DEF ScanInv, TypeOK
  <2>5. TypeOK'
    BY <1>0, <2>2, <2>3, <2>4 DEF TypeOK
  <2>6. Picture(gaps', misread', shown'.correlated)
    BY <2>1, <2>2, <2>3 DEF Picture
  <2>7. ScanInv'
    BY <2>2, <2>6 DEF ScanInv
  <2> QED
    BY <1>0, <2>5, <2>7
<1>3. ASSUME NEW n \in DOMAIN gaps, NEW gap \in GapSet, Misread(n, gap)
      PROVE  IInv'
  <2>1. /\ gaps' = [gaps EXCEPT ![n] = gap] /\ misread' = misread \cup {n}
        /\ UNCHANGED <<rows, shown, result, found, pc>> /\ pc = "seen"
    BY <1>3 DEF Misread
  <2>2. gaps \in Seq(GapSet) /\ misread \subseteq 1..Len(gaps) /\ n \in 1..Len(gaps)
    BY DEF TypeOK
  <2>3. Picture(gaps, misread, shown.correlated)
    BY <2>1 DEF ScanInv
  <2>4. /\ Picture(gaps', misread', shown.correlated)
        /\ gaps' \in Seq(GapSet) /\ Len(gaps') = Len(gaps)
    <3>1. /\ Picture([gaps EXCEPT ![n] = gap], misread \cup {n}, shown.correlated)
          /\ [gaps EXCEPT ![n] = gap] \in Seq(GapSet)
          /\ Len([gaps EXCEPT ![n] = gap]) = Len(gaps)
      BY <2>2, <2>3, MisreadPicture
    <3> QED
      BY <2>1, <3>1
  <2>5. TypeOK'
    BY <2>1, <2>2, <2>4 DEF TypeOK
  <2>6. ScanInv'
    BY <2>1, <2>4 DEF ScanInv
  <2> QED
    BY <1>0, <2>5, <2>6
<1>4. CASE Decode
  <2>1. /\ result' = FullDecode(gaps) /\ pc' = "decoded" /\ pc = "seen"
        /\ UNCHANGED <<rows, shown, gaps, misread, found>>
    BY <1>4 DEF Decode
  <2>2. TypeOK'
    BY <2>1, DecodeType DEF TypeOK
  <2>3. ScanInv'
    BY <2>1 DEF ScanInv
  <2> QED
    BY <1>0, <2>2, <2>3
<1>5. CASE LookUp
  <2> DEFINE written == {r \in rows : r.correlated = result.correlated}
             raw     == {r \in rows : r.payload = result.payload}
  <2>1. /\ pc = "decoded" /\ pc' = "found" /\ result.decoded
        /\ found' = IF written # {} THEN written ELSE raw
        /\ UNCHANGED <<rows, shown, gaps, misread, result>>
    BY <1>5 DEF LookUp
  <2>2. TypeOK'
    BY <2>1 DEF TypeOK
  <2>3. \A r \in found' : r.correlated = result.correlated \/ r.payload = result.payload
    BY <2>1
  <2>4. shown \in rows
    BY <2>1 DEF TypeOK
  <2>5. shown.correlated = result.correlated => shown \in found'
    BY <2>1, <2>4
  <2>6. ScanInv'
    BY <2>1, <2>3, <2>5 DEF ScanInv
  <2> QED
    BY <1>0, <2>2, <2>6
<1>6. CASE ScanEnds
  <2>1. TypeOK'
    BY <1>0, <1>6 DEF ScanEnds, TypeOK
  <2>2. ScanInv'
    BY <1>6 DEF ScanEnds, ScanInv
  <2> QED
    BY <1>0, <2>1, <2>2
<1>7. CASE UNCHANGED vars
  BY <1>0, <1>7 DEF vars, TypeOK, ScanInv
<1> QED
  BY <1>1, <1>2, <1>3, <1>4, <1>5, <1>6, <1>7 DEF Next

LEMMA IInvAlways == Spec => []IInv
  BY IInvInit, IInvNext, PTL DEF Spec

\* Rows, measured gaps, what was decoded and what was found keep their shape: for
\* every byte width, set of files and layers, and number of rows and misread gaps.
THEOREM CodecTypeCorrect == Spec => []TypeOK
<1>1. IInv => TypeOK
  BY DEF IInv
<1> QED
  BY <1>1, IInvAlways, PTL

\* What a scan with at most one gap misread knows of the layer shown.
LEMMA ScanOfShown ==
  ASSUME IInv, pc # "idle", \A j, k \in misread : j = k,
         misread = {} \/ ~PlainWindowFirst(gaps),
         NEW file \in Field, NEW layer \in LayerIdx, shown = EncodedLayer(file, layer)
  PROVE  /\ shown.correlated = Written(file, layer)
         /\ pc \in {"decoded", "found"} /\ (misread = {} \/ result.decoded) =>
              result = Decoded(Written(file, layer), IsOdd(layer))
         /\ pc = "found" =>
              \A r \in found : Alias(r, shown)
<1>1. /\ shown.correlated = Written(file, layer) /\ shown.file = file /\ shown.layer = layer
  BY DEF EncodedLayer, Written
<1>2. Picture(gaps, misread, Written(file, layer))
  BY <1>1 DEF IInv, ScanInv
<1>3. /\ \/ FullDecode(gaps) = Nothing
         \/ FullDecode(gaps) = Decoded(Written(file, layer), IsOdd(layer))
      /\ misread = {} => FullDecode(gaps) = Decoded(Written(file, layer), IsOdd(layer))
  BY <1>2, DecodeOfPicture
<1>4. ASSUME pc \in {"decoded", "found"}, misread = {} \/ result.decoded
      PROVE  result = Decoded(Written(file, layer), IsOdd(layer))
  <2>1. result = FullDecode(gaps)
    BY <1>4 DEF IInv, ScanInv
  <2>2. ~Nothing.decoded
    BY DEF Nothing
  <2> QED
    BY <1>3, <1>4, <2>1, <2>2
<1>5. ASSUME pc = "found", NEW r \in found PROVE Alias(r, shown)
  <2>1. result = Decoded(Written(file, layer), IsOdd(layer))
    BY <1>4, <1>5 DEF IInv, ScanInv
  <2>2. /\ result.correlated = Written(file, layer)
        /\ result.payload = BuildPayload(file, layer)
    BY <2>1, WrittenWord DEF Decoded
  <2>3. r.correlated = result.correlated \/ r.payload = result.payload
    BY <1>5 DEF IInv, ScanInv
  <2>4. PICK g \in Field, m \in LayerIdx : r = EncodedLayer(g, m)
    BY <1>5 DEF IInv, TypeOK, RowsInv
  <2>5. /\ r.file = g /\ r.layer = m
        /\ r.payload = BuildPayload(g, m) /\ r.correlated = Written(g, m)
    BY <2>4 DEF EncodedLayer, Written
  <2>6. g = file /\ Low(m) = Low(layer)
    BY <2>2, <2>3, <2>5, WrittenDistinct
  <2> QED
    BY <1>1, <2>5, <2>6 DEF Alias
<1> QED
  BY <1>1, <1>4, <1>5

\* A pattern read without error is decoded to the layer it was written for, whatever
\* unmodulated gaps surround it, and the lookup answers that layer or one that shares
\* its fingerprint.
THEOREM CleanReadsFound == Spec => []CleanReadFound
<1>1. IInv => CleanReadFound
  <2> SUFFICES ASSUME IInv, misread = {}, pc \in {"decoded", "found"}
               PROVE  /\ /\ result.decoded
                         /\ result.file = shown.file /\ result.layer = Low(shown.layer)
                      /\ pc = "found" => shown \in found /\ \A r \in found : Alias(r, shown)
    BY DEF CleanReadFound
  <2>1. PICK file \in Field, layer \in LayerIdx : shown = EncodedLayer(file, layer)
    BY DEF IInv, TypeOK, RowsInv
  <2>2. /\ shown.correlated = Written(file, layer)
        /\ result = Decoded(Written(file, layer), IsOdd(layer))
        /\ pc = "found" => \A r \in found : Alias(r, shown)
    BY <2>1, ScanOfShown
  <2>3. result.decoded /\ result.file = file /\ result.layer = Low(layer)
        /\ result.correlated = Written(file, layer)
    BY <2>2, RoundTrip DEF Decoded
  <2>4. shown.file = file /\ shown.layer = layer
    BY <2>1 DEF EncodedLayer
  <2>5. pc = "found" => shown \in found
    BY <2>2, <2>3 DEF IInv, ScanInv
  <2> QED
    BY <2>2, <2>3, <2>4, <2>5
<1> QED
  BY <1>1, IInvAlways, PTL

\* With one gap misread, a bit, a lost or a false SYNC, no scan answers another layer
\* than the one shown, however many unmodulated gaps lie on either side, unless the
\* window that full_decode tries first holds unmodulated gaps only.
THEOREM MisreadsNeverMislead == Spec => []MisreadNeverMisleads
<1>1. IInv => MisreadNeverMisleads
  <2> SUFFICES ASSUME IInv, pc = "found", Cardinality(misread) = 1, ~PlainWindowFirst(gaps)
               PROVE  \A r \in found : Alias(r, shown)
    BY DEF MisreadNeverMisleads
  <2>1. PICK file \in Field, layer \in LayerIdx : shown = EncodedLayer(file, layer)
    BY DEF IInv, TypeOK, RowsInv
  <2>2. \A j, k \in misread : j = k
    <3>1. misread \subseteq 1..Len(gaps) /\ Len(gaps) \in Nat
      BY DEF IInv, TypeOK
    <3>2. IsFiniteSet(1..Len(gaps))
      BY <3>1, FS_Interval
    <3>3. IsFiniteSet(misread)
      BY <3>1, <3>2, FS_Subset
    <3> QED
      BY <3>3, FS_Singleton
  <2> QED
    BY <2>1, <2>2, ScanOfShown
<1> QED
  BY <1>1, IInvAlways, PTL
=============================================================================
