------------------------------ MODULE MCCodecs ------------------------------
(* Codecs with the inputs at the edges of their ranges. *)
EXTENDS Codecs
=============================================================================
