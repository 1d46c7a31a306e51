---------------------------- MODULE HandshakeInv ----------------------------
(***************************************************************************)
(* The inductive invariants behind the properties of Handshake: Inv holds  *)
(* however handshakes interleave, PatientInv while no address starts a     *)
(* handshake during another one.                                           *)
(***************************************************************************)
EXTENDS Handshake

\* What each label says about the types the task compares.
LabelsOK ==
    \A c \in Conns :
        /\ pc[c] # "idle" => addr[c] \in Addrs
        /\ pc[c] \in {"idle", "lookup"} => known[c] = None
        /\ pc[c] \in {"dropId", "dropIp", "unsub"} =>
              utype[c] \in Types /\ ChangesType(c)
        /\ pc[c] = "gather" =>
              /\ utype[c] # None
              /\ utype[c] = "other" => known[c] = None
        /\ pc[c] = "fetch" => utype[c] \in Types /\ Reconnecting(c)
        /\ pc[c] \in {"sub", "insertId", "insertIp"} =>
              utype[c] \in Types /\ ~Reconnecting(c)
        /\ pc[c] \in {"announce", "done"} => utype[c] \in Types

\* The registries hold sessions of finished registrations, under their own id
\* and address; by id also the one session whose task holds the lock.
ByIdOK ==
    \A i \in Ids : byId[i] # None =>
        /\ ident[byId[i]] = i
        /\ utype[byId[i]] \in Types
        /\ pc[byId[i]] \in {"insertIp", "done"}

ByIpOK ==
    \A a \in Addrs : byIp[a] # None =>
        /\ addr[byIp[a]] = a
        /\ utype[byIp[a]] \in Types
        /\ pc[byIp[a]] = "done"

\* A task holds a finished session of its own user.
HeldOK ==
    \A c \in Conns :
        /\ held[c] # None => pc[held[c]] = "done" /\ ident[held[c]] = ident[c]
        /\ pc[c] = "dropIp" => held[c] # None
        /\ pc[c] = "announce" /\ Reconnecting(c) => held[c] # None
        /\ pc[c] \in {"idle", "lookup"} => held[c] = None

\* The lock of clients_by_id: one holder, whose entry is still the one it made.
LockOK ==
    \A c \in Conns : pc[c] = "insertIp" =>
        /\ byId[ident[c]] = c
        /\ \A d \in Conns : pc[d] = "insertIp" => d = c

IssuedOK == NoWrap => \A c \in Conns : Named(c) => ident[c] < issued

RosterOK == \A c \in Conns : \A s \in roster[c] : pc[s] = "done"

\* What holds of the tasks and the registries even when ids wrap.
Shape ==
    /\ TaskTypeOK /\ MapsTypeOK /\ LabelsOK
    /\ ByIdOK /\ ByIpOK /\ HeldOK /\ LockOK /\ RosterOK

\* The inductive invariant of Spec for every value of the constants.
Inv == Shape /\ ChansTypeOK /\ IssuedOK /\ IdOwned /\ MapsAgree

-----------------------------------------------------------------------------

Alone == \A c, d \in Conns : Active(c) /\ Active(d) /\ addr[c] = addr[d] => c = d

\* No session of the address is reachable by id.
Absent(a) == \A i \in Ids : byId[i] # None => addr[byId[i]] # a

\* The task registers a new session, and its address has none at this point.
Fresh(c) ==
    \/ pc[c] = "synack" /\ known[c] = None
    \/ pc[c] \in {"unsub", "sub", "insertId"}
    \/ pc[c] \in {"gather", "announce"} /\ ~Reconnecting(c)

\* The task found a session of its address, and has not dropped it.
Found(c) ==
    \/ pc[c] = "synack" /\ known[c] # None
    \/ pc[c] \in {"dropId", "fetch"}
    \/ pc[c] \in {"gather", "announce"} /\ Reconnecting(c)

FreshAt(c) ==
    /\ Fresh(c) => Absent(addr[c]) /\ byIp[addr[c]] = None
    /\ pc[c] = "insertIp" =>
          /\ byIp[addr[c]] = None
          /\ \A i \in Ids : byId[i] # None /\ addr[byId[i]] = addr[c] => byId[i] = c

FoundAt(c) ==
    /\ Found(c) \/ pc[c] = "dropIp" =>
          byIp[addr[c]] # None /\ ident[byIp[addr[c]]] = ident[c]
    /\ Found(c) => byId[ident[c]] = byIp[addr[c]]
    /\ pc[c] = "dropIp" => Absent(addr[c])

\* What is registered by id at an address is registered by address.
MirrorAt(a) ==
    \A i \in Ids :
        byId[i] # None /\ addr[byId[i]] = a /\ pc[byId[i]] = "done" => byIp[a] = byId[i]

OneAtATimeOK ==
    /\ Alone
    /\ \A c \in Conns : FreshAt(c) /\ FoundAt(c)
    /\ \A a \in Addrs : MirrorAt(a)

\* The task replaces the session of its user and has dropped the old one.
Replacing(c) ==
    /\ ChangesType(c)
    /\ pc[c] \in {"unsub", "gather", "sub", "announce", "insertId", "insertIp"}

\* Once a handshake of an address is done, the address keeps its id: a session
\* of that id is registered or a type change is about to register one.
KeepsIdOK ==
    \A d \in Conns : pc[d] = "done" =>
        \/ byIp[addr[d]] # None /\ ident[byIp[addr[d]]] = ident[d]
        \/ \E c \in Conns : Replacing(c) /\ addr[c] = addr[d] /\ ident[c] = ident[d]

PatientInv ==
    OneAtATime /\ NoWrap =>
        OneAtATimeOK /\ KeepsIdOK /\ UnwrapSafe /\ RosterListsSelf
=============================================================================
