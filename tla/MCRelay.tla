------------------------------ MODULE MCRelay ------------------------------
(* Relay on a small instance: its users and queues are numbered in the order *)
(* they are used, which stands for the symmetry a liveness check cannot use. *)
EXTENDS Relay
=============================================================================
