--------------------------- MODULE MCInfillModifier ---------------------------
(* Eight payload bits: every number of ones, all at the one end or the other. *)
EXTENDS InfillModifier

MCPayloads == {1..k : k \in 0..PayloadBits} \cup {k..PayloadBits : k \in 2..PayloadBits}
=============================================================================
