------------------------------ MODULE Broadcast ------------------------------
(***************************************************************************)
(* What a relay of the server promises ("a broadcast-channel kind of way,  *)
(* but without actually using broadcast channels", server/src/server.rs):  *)
(* a member receives every message broadcast from its joining to its       *)
(* leaving, in order, once; a member whose receiver is gone is given up.   *)
(***************************************************************************)
EXTENDS Naturals, Sequences

CONSTANTS Members, Messages

VARIABLES
    log,     \* everything broadcast so far
    state,   \* "out", "in", "left" or "failed"
    from,    \* how much had been broadcast when the member joined
    seen     \* what the member received

vars == <<log, state, from, seen>>

Init ==
    /\ log = <<>>
    /\ state = [k \in Members |-> "out"]
    /\ from = [k \in Members |-> 0]
    /\ seen = [k \in Members |-> <<>>]

\* The position in the log of the last message the member has received.
Position(k) == from[k] + Len(seen[k])

Send(m) ==
    /\ log' = Append(log, m)
    /\ UNCHANGED <<state, from, seen>>

Join(k) ==
    /\ state[k] = "out"
    /\ state' = [state EXCEPT ![k] = "in"]
    /\ from' = [from EXCEPT ![k] = Len(log)]
    /\ UNCHANGED <<log, seen>>

Deliver(k) ==
    /\ state[k] = "in"
    /\ Position(k) < Len(log)
    /\ seen' = [seen EXCEPT ![k] = Append(@, log[Position(k) + 1])]
    /\ UNCHANGED <<log, state, from>>

Leave(k) ==
    /\ state[k] = "in"
    /\ Position(k) = Len(log)
    /\ state' = [state EXCEPT ![k] = "left"]
    /\ UNCHANGED <<log, from, seen>>

Fail(k) ==
    /\ state[k] # "failed"
    /\ state' = [state EXCEPT ![k] = "failed"]
    /\ UNCHANGED <<log, from, seen>>

Next ==
    \/ \E m \in Messages : Send(m)
    \/ \E k \in Members : Join(k) \/ Deliver(k) \/ Leave(k) \/ Fail(k)

Spec == Init /\ [][Next]_vars
=============================================================================
