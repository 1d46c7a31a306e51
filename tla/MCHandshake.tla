---------------------------- MODULE MCHandshake ----------------------------
(* Handshake on small instances. *)
EXTENDS HandshakeInv, TLC

Symmetry == Permutations(Conns) \union Permutations(Addrs)

\* Every handshake takes at most one id, so the number of connections
\* bounds the counter.
=============================================================================
