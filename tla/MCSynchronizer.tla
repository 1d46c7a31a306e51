--------------------------- MODULE MCSynchronizer ---------------------------
(* Synchronizer on small instances. *)
EXTENDS Synchronizer
=============================================================================
