------------------------------- MODULE MCCodec -------------------------------
(* Four-bit bytes: 16-bit payloads with six bits each for the file and the  *)
(* layer.  The layers have carries within and across the check's bytes (1,  *)
(* 15, 31), and the last one wraps around to the first.  Some files and     *)
(* layers are each other's under a mask: 0xAAAA takes 0 to 42 and 1 to 43,  *)
(* 0x5555 takes 0 to 21 and 1 to 20.  Unmodulated gaps read as layer 21 of  *)
(* file 21, and 17 of them are room for a false SYNC that makes a window.   *)
EXTENDS Codec

Bits(n, width) == [i \in 0..(width - 1) |-> (n \div 2^i) % 2]

MCFileIds   == {Bits(n, 6) : n \in {0, 21, 42}}
MCLayerIdxs == {Bits(n, 7) : n \in {0, 1, 2, 15, 16, 20, 21, 31, 32, 43, 63, 64}}
=============================================================================
