-------------------------- MODULE MCEncodePipeline --------------------------
(* Texts for EncodePipeline with three ids: c1, c2 and c4 collide at the    *)
(* last id, so that probing wraps around and moves twice; c2's second       *)
(* candidate is the home of c3 and c5; c3 repeats a layer index and is      *)
(* always refused; c4 has no layers at all; and the four that register are  *)
(* one more than the ids, so that the table fills up and the last comer     *)
(* finds no id.                                                             *)
EXTENDS EncodePipeline, TLC

CONSTANTS c1, c2, c3, c4, c5

MCHome ==
  (c1 :> NumIds - 1) @@ (c2 :> NumIds - 1) @@ (c3 :> 0) @@ (c4 :> NumIds - 1)
    @@ (c5 :> 0)
MCLayerSeq ==
  (c1 :> <<0, 1>>) @@ (c2 :> <<1>>) @@ (c3 :> <<0, 0>>) @@ (c4 :> <<>>)
    @@ (c5 :> <<1>>)
=============================================================================
