--------------------------- MODULE MCPerformance ---------------------------
(* Performance on small instances. *)
EXTENDS Performance
=============================================================================
