------------------------------ MODULE MCServer ------------------------------
(* Server on small instances.  Every handshake takes at most one id, so the  *)
(* number of connections bounds the counter.                                *)
EXTENDS Server, HandshakeInv, TLC

Symmetry == Permutations(Conns) \union Permutations(Addrs)
=============================================================================
