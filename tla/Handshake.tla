------------------------------ MODULE Handshake ------------------------------
(***************************************************************************)
(* The registration of clients: perform_handshake, drop_user and the task  *)
(* new_connection_listener spawns for every accepted connection            *)
(* (server/src/server.rs).                                                 *)
(*                                                                         *)
(* A connection c is one accepted TcpStream and the task that serves it.   *)
(* The ServerUserData ("session") a handshake builds is named by the       *)
(* connection that built it: session c belongs to the user ident[c] at the *)
(* address addr[c] and has the type utype[c].  The two registries map a    *)
(* user id (byId) and an address (byIp) to a session.                      *)
(*                                                                         *)
(* A step ends where the code awaits something another task can change: a  *)
(* lock, a socket, a place in a bounded channel.                           *)
(***************************************************************************)
EXTENDS Naturals, Sequences, FiniteSets, Listener

CONSTANTS
    Conns,       \* the connections that are ever accepted (bound)
    Addrs,       \* the addresses (IPs) clients connect from
    IdSpace,     \* number of user ids: 2^16, UserIDType is u16
    NRelays,     \* relays a user is registered with: 4
    UpdCap,      \* capacity of a relay's update channel: DEFAULT_CHAN_SIZE
    EvtCap,      \* capacity of the server event channel: MAX_CHAN_SIZE
    OneAtATime,  \* TRUE: no address starts a handshake while it is in another
    None

ASSUME SizeAssumption ==
    /\ IdSpace \in Nat \ {0}
    /\ NRelays \in Nat \ {0}
    /\ UpdCap \in Nat \ {0}
    /\ EvtCap \in Nat \ {0}
    /\ OneAtATime \in BOOLEAN

Types == {"audience", "performer"}

ASSUME NoneAssumption == None \notin Conns /\ None \notin Types \union {"other"}

Relays == 1..NRelays
Ids == 0..(IdSpace - 1)

VARIABLES
    pc,       \* where the task of each connection is
    addr,     \* incoming_addr.ip()
    ident,    \* our_user_id
    known,    \* existing_user_type, None when the address was not registered
    utype,    \* synack.user_type; "other" is any number but 1 and 2
    held,     \* the session a task took out of, or cloned from, a registry
    step,     \* the relay the next subscription message goes to
    roster,   \* the sessions listed in the completion sent to the client
    issued,   \* number of ids handed out (cur_user_id before wrapping)
    byId,     \* clients_by_id
    byIp,     \* clients_by_ip
    updates,  \* the update channel of each relay
    events    \* server_event_tx: user announcements not yet relayed

task == <<addr, ident, known, utype, held, step, roster>>
maps == <<byId, byIp>>
chans == <<updates, events>>
vars == <<pc, task, issued, maps, chans>>

Final == {"done", "failed", "typePanic", "unwrapPanic"}
Labels == {"idle", "lookup", "synack", "dropId", "dropIp", "unsub", "gather",
           "fetch", "sub", "announce", "insertId", "insertIp"} \union Final

Active(c) == pc[c] \notin {"idle"} \union Final

\* Tasks past the lookup have a user id; sessions are among them.
Named(c) == pc[c] \notin {"idle", "lookup"}

Reconnecting(c) == known[c] = utype[c]
ChangesType(c) == known[c] # None /\ known[c] # utype[c]

\* The write guard of clients_by_id lives on while clients_by_ip is awaited.
IdLockFree == \A c \in Conns : pc[c] # "insertIp"

Init ==
    /\ pc = [c \in Conns |-> "idle"]
    /\ addr = [c \in Conns |-> None]
    /\ ident = [c \in Conns |-> 0]
    /\ known = [c \in Conns |-> None]
    /\ utype = [c \in Conns |-> None]
    /\ held = [c \in Conns |-> None]
    /\ step = [c \in Conns |-> 1]
    /\ roster = [c \in Conns |-> {}]
    /\ issued = 0
    /\ byId = [i \in Ids |-> None]
    /\ byIp = [a \in Addrs |-> None]
    /\ updates = [r \in Relays |-> <<>>]
    /\ events = <<>>

Goto(c, label) == pc' = [pc EXCEPT ![c] = label]

-----------------------------------------------------------------------------
(* Every action of a task starts at the label its name's comment gives.    *)

\* A client connects; the listener spawns the task of the handshake.
Accept(c, a) ==
    /\ pc[c] = "idle"
    /\ OneAtATime => \A d \in Conns : Active(d) => addr[d] # a
    /\ Goto(c, "lookup")
    /\ addr' = [addr EXCEPT ![c] = a]
    /\ UNCHANGED <<ident, known, utype, held, step, roster, issued, maps, chans>>

(* Definitions whose name ends in Bug are wrong variants of the one that    *)
(* follows them.  They are not part of the specification: each breaks a     *)
(* property, which shows that the property depends on that code.            *)

\* Bug: the counter is read and not advanced (load for fetch_add).
LookupSharesIdBug(c) ==
    /\ pc[c] = "lookup"
    /\ LET s == byIp[addr[c]] IN
        /\ ident' = [ident EXCEPT ![c] = IF s = None THEN issued % IdSpace ELSE ident[s]]
        /\ known' = [known EXCEPT ![c] = IF s = None THEN None ELSE utype[s]]
    /\ Goto(c, "synack")
    /\ UNCHANGED <<addr, utype, held, step, roster, issued, maps, chans>>

\* Bug: the id of a known address is not reused.
LookupForgetsBug(c) ==
    /\ pc[c] = "lookup"
    /\ ident' = [ident EXCEPT ![c] = issued % IdSpace]
    /\ issued' = issued + 1
    /\ Goto(c, "synack")
    /\ UNCHANGED <<addr, known, utype, held, step, roster, maps, chans>>

\* Under the read lock of clients_by_ip: reuse the id of the session of this
\* address and remember its type, or take the next id.
Lookup(c) ==
    /\ pc[c] = "lookup"
    /\ LET s == byIp[addr[c]] IN
        \/ /\ s # None
           /\ ident' = [ident EXCEPT ![c] = ident[s]]
           /\ known' = [known EXCEPT ![c] = utype[s]]
           /\ UNCHANGED issued
        \/ /\ s = None
           /\ ident' = [ident EXCEPT ![c] = issued % IdSpace]
           /\ issued' = issued + 1
           /\ UNCHANGED known
    /\ Goto(c, "synack")
    /\ UNCHANGED <<addr, utype, held, step, roster, maps, chans>>

\* Bug: a session of another type is not dropped.
SynAckKeepsOldBug(c, t) ==
    /\ pc[c] = "synack"
    /\ utype' = [utype EXCEPT ![c] = t]
    /\ Goto(c, "gather")
    /\ UNCHANGED <<addr, ident, known, held, step, roster, issued, maps, chans>>

\* The client answers with its own id and the type t.  An unknown type is
\* unimplemented!() when it is compared with the type of an existing session.
SynAck(c, t) ==
    /\ pc[c] = "synack"
    /\ utype' = [utype EXCEPT ![c] = t]
    /\ Goto(c, IF known[c] = None \/ known[c] = t THEN "gather"
               ELSE IF t \in Types THEN "dropId"
               ELSE "typePanic")
    /\ UNCHANGED <<addr, ident, known, held, step, roster, issued, maps, chans>>

\* The read fails, the answer does not parse, or it names another id.
SynAckFails(c) ==
    /\ pc[c] = "synack"
    /\ Goto(c, "failed")
    /\ UNCHANGED <<task, issued, maps, chans>>

\* Bug: drop_user returns before it gets to clients_by_ip.
DropByIdOnlyBug(c) ==
    /\ pc[c] = "dropId"
    /\ IdLockFree
    /\ byId' = [byId EXCEPT ![ident[c]] = None]
    /\ Goto(c, "unsub")
    /\ UNCHANGED <<task, issued, byIp, chans>>

\* drop_user, first lock: take the session out of clients_by_id; return early
\* when there is none.
DropById(c) ==
    /\ pc[c] = "dropId"
    /\ IdLockFree
    /\ LET s == byId[ident[c]] IN
        \/ /\ s = None
           /\ Goto(c, "gather")
           /\ UNCHANGED <<held, byId>>
        \/ /\ s # None
           /\ held' = [held EXCEPT ![c] = s]
           /\ byId' = [byId EXCEPT ![ident[c]] = None]
           /\ Goto(c, "dropIp")
    /\ UNCHANGED <<addr, ident, known, utype, step, roster, issued, byIp, chans>>

\* Bug: the address keeps naming the dropped session.
DropByIpKeepsBug(c) ==
    /\ pc[c] = "dropIp"
    /\ Goto(c, "unsub")
    /\ UNCHANGED <<task, issued, maps, chans>>

\* drop_user, second lock: remove whatever the address of that session maps to.
DropByIp(c) ==
    /\ pc[c] = "dropIp"
    /\ byIp' = [byIp EXCEPT ![addr[held[c]]] = None]
    /\ Goto(c, "unsub")
    /\ UNCHANGED <<task, issued, byId, chans>>

HasRoom(r) == Len(updates[r]) < UpdCap

\* The messages of ServerRelayChannels go to one relay after the other.
SendUpdate(c, msg, after) ==
    /\ HasRoom(step[c])
    /\ updates' = [updates EXCEPT ![step[c]] = Append(@, msg)]
    /\ IF step[c] = NRelays
       THEN step' = [step EXCEPT ![c] = 1] /\ Goto(c, after)
       ELSE step' = [step EXCEPT ![c] = @ + 1] /\ UNCHANGED pc

\* Bug: the task gives up once the old session is dropped.
UnsubscribeEndsBug(c) ==
    /\ pc[c] = "unsub"
    /\ SendUpdate(c, Unsub(ident[c], None), "failed")
    /\ held' = IF step[c] = NRelays THEN [held EXCEPT ![c] = None] ELSE held
    /\ UNCHANGED <<addr, ident, known, utype, roster, issued, maps, events>>

\* drop_user, last part: ServerRelayChannels::unsubscribe, then the session
\* the task took is dropped.
Unsubscribe(c) ==
    /\ pc[c] = "unsub"
    /\ SendUpdate(c, Unsub(ident[c], None), "gather")
    /\ held' = IF step[c] = NRelays THEN [held EXCEPT ![c] = None] ELSE held
    /\ UNCHANGED <<addr, ident, known, utype, roster, issued, maps, events>>

\* List the users of clients_by_ip and send the completion.  A new user of an
\* unknown type is turned away only now.
Gather(c) ==
    /\ pc[c] = "gather"
    /\ roster' = [roster EXCEPT ![c] = {byIp[a] : a \in Addrs} \ {None}]
    /\ Goto(c, IF Reconnecting(c) THEN "fetch"
               ELSE IF utype[c] \in Types THEN "sub"
               ELSE "failed")
    /\ UNCHANGED <<addr, ident, known, utype, held, step, issued, maps, chans>>

\* A reconnection clones the session of its id, and unwraps the lookup.
Fetch(c) ==
    /\ pc[c] = "fetch"
    /\ IdLockFree
    /\ LET s == byId[ident[c]] IN
        \/ s = None /\ Goto(c, "unwrapPanic") /\ UNCHANGED held
        \/ /\ s # None
           /\ held' = [held EXCEPT ![c] = s]
           /\ Goto(c, "announce")
    /\ UNCHANGED <<addr, ident, known, utype, step, roster, issued, maps, chans>>

\* A new session registers its queues: ServerRelayChannels::subscribe.
Subscribe(c) ==
    /\ pc[c] = "sub"
    /\ SendUpdate(c, Sub(ident[c], c), "announce")
    /\ UNCHANGED <<addr, ident, known, utype, held, roster, issued, maps, events>>

Added(s) == [user |-> ident[s], type |-> utype[s]]

\* The session a task is about: the one it fetched, or its own.
Session(c) == IF Reconnecting(c) THEN held[c] ELSE c

\* new_connection_listener announces the user, in both arms with UserAdd; that
\* is all there is to a reconnection.
Announce(c) ==
    /\ pc[c] = "announce"
    /\ Len(events) < EvtCap
    /\ events' = Append(events, Added(Session(c)))
    /\ Goto(c, IF Reconnecting(c) THEN "done" ELSE "insertId")
    /\ held' = [held EXCEPT ![c] = None]
    /\ UNCHANGED <<addr, ident, known, utype, step, roster, issued, maps, updates>>

\* Bug: the insertion does not wait for the lock of clients_by_id.
InsertByIdUnlockedBug(c) ==
    /\ pc[c] = "insertId"
    /\ byId' = [byId EXCEPT ![ident[c]] = c]
    /\ Goto(c, "insertIp")
    /\ UNCHANGED <<task, issued, byIp, chans>>

\* Bug: only clients_by_ip gets the session.
InsertByIdSkippedBug(c) ==
    /\ pc[c] = "insertId"
    /\ IdLockFree
    /\ Goto(c, "insertIp")
    /\ UNCHANGED <<task, issued, maps, chans>>

\* Insert in clients_by_id; its guard is shadowed, not dropped.
InsertById(c) ==
    /\ pc[c] = "insertId"
    /\ IdLockFree
    /\ byId' = [byId EXCEPT ![ident[c]] = c]
    /\ Goto(c, "insertIp")
    /\ UNCHANGED <<task, issued, byIp, chans>>

\* Bug: the task locks clients_by_id again while it holds it.
InsertByIpRelocksBug(c) ==
    /\ pc[c] = "insertIp"
    /\ IdLockFree
    /\ byIp' = [byIp EXCEPT ![addr[c]] = c]
    /\ Goto(c, "done")
    /\ UNCHANGED <<task, issued, byId, chans>>

\* Bug: only clients_by_id gets the session.
InsertByIpSkippedBug(c) ==
    /\ pc[c] = "insertIp"
    /\ Goto(c, "done")
    /\ UNCHANGED <<task, issued, maps, chans>>

InsertByIp(c) ==
    /\ pc[c] = "insertIp"
    /\ byIp' = [byIp EXCEPT ![addr[c]] = c]
    /\ Goto(c, "done")
    /\ UNCHANGED <<task, issued, byId, chans>>

\* What the relays do to the channels this module fills.
TakeUpdate(r) ==
    /\ updates[r] # <<>>
    /\ updates' = [updates EXCEPT ![r] = Tail(@)]
    /\ UNCHANGED <<pc, task, issued, maps, events>>

TakeEvent ==
    /\ events # <<>>
    /\ events' = Tail(events)
    /\ UNCHANGED <<pc, task, issued, maps, updates>>

\* All handshakes are over and the channels are empty: nothing is left to do.
Quiet ==
    /\ \A c \in Conns : pc[c] \in Final
    /\ events = <<>> /\ \A r \in Relays : updates[r] = <<>>
    /\ UNCHANGED vars

\* The steps of a task that wait for the server only, not for the client.
ServerStep(c) ==
    \/ Lookup(c) \/ DropById(c) \/ DropByIp(c) \/ Unsubscribe(c) \/ Gather(c)
    \/ Fetch(c) \/ Subscribe(c) \/ Announce(c) \/ InsertById(c) \/ InsertByIp(c)

ClientStep(c) ==
    \/ \E a \in Addrs : Accept(c, a)
    \/ \E t \in Types \union {"other"} : SynAck(c, t)
    \/ SynAckFails(c)

RelayStep == TakeEvent \/ \E r \in Relays : TakeUpdate(r)

Next ==
    \/ \E c \in Conns : ServerStep(c) \/ ClientStep(c)
    \/ RelayStep
    \/ Quiet

Spec == Init /\ [][Next]_vars

\* Tokio polls every ready task; a lock and a channel queue their waiters.  A
\* client that stays silent is not excluded: the read has no timeout.
Fairness ==
    /\ \A c \in Conns : WF_vars(ServerStep(c))
    /\ WF_vars(TakeEvent)
    /\ \A r \in Relays : WF_vars(TakeUpdate(r))

FairSpec == Spec /\ Fairness

-----------------------------------------------------------------------------
(* Properties. *)

TaskTypeOK ==
    /\ pc \in [Conns -> Labels]
    /\ addr \in [Conns -> Addrs \union {None}]
    /\ ident \in [Conns -> Ids]
    /\ known \in [Conns -> Types \union {None}]
    /\ utype \in [Conns -> Types \union {"other", None}]
    /\ held \in [Conns -> Conns \union {None}]
    /\ step \in [Conns -> Relays]
    /\ roster \in [Conns -> SUBSET Conns]
    /\ issued \in Nat

MapsTypeOK ==
    /\ byId \in [Ids -> Conns \union {None}]
    /\ byIp \in [Addrs -> Conns \union {None}]

Update == [op : {"subscribe", "unsubscribe"}, user : Ids, chan : Conns \union {None}]
Announcement == [user : Ids, type : Types]

ChansTypeOK ==
    /\ updates \in [Relays -> Seq(Update)]
    /\ events \in Seq(Announcement)

\* Every variable has its type.
TypeOK == TaskTypeOK /\ MapsTypeOK /\ ChansTypeOK

\* Until the counter wraps, ids are never shared: a user id belongs to one
\* address, however the handshakes of several clients interleave.
NoWrap == issued <= IdSpace

IdOwned ==
    NoWrap => \A c, d \in Conns :
        Named(c) /\ Named(d) /\ ident[c] = ident[d] => addr[c] = addr[d]

\* A task is between the two registries: one is changed, the other not yet.
InBetween(a) == \E c \in Conns : addr[c] = a /\ pc[c] \in {"dropIp", "insertIp"}

\* clients_by_ip never names a session clients_by_id has forgotten or replaced,
\* except while a task is between the two: what a lookup by address finds can
\* be found by id, whatever handshakes of the same address ran into each other.
MapsAgree ==
    NoWrap => \A a \in Addrs :
        LET s == byIp[a] IN s # None /\ ~InBetween(a) => byId[ident[s]] = s

Settled(a) == \A c \in Conns : addr[c] = a => ~Active(c)

\* With one handshake per address at a time the registries mirror each other:
\* between handshakes no session is reachable by id but not by address.
RegistriesMirror ==
    OneAtATime /\ NoWrap => \A i \in Ids :
        LET s == byId[i] IN
        s # None /\ Settled(addr[s]) => ident[s] = i /\ byIp[addr[s]] = s

\* The unwrap() of the reconnection finds its session as long as an address
\* does not start a second handshake during its first.
UnwrapSafe ==
    OneAtATime /\ NoWrap => \A c \in Conns : pc[c] # "unwrapPanic"

\* "user ID, which should be unique per IP address" (protocol/src/lib.rs):
\* the completed handshakes of one address all got the same id.
OneIdPerAddress ==
    \A c, d \in Conns :
        pc[c] = "done" /\ pc[d] = "done" /\ addr[c] = addr[d] => ident[c] = ident[d]

PatientOneId == OneAtATime /\ NoWrap => OneIdPerAddress

\* A completion lists the user it is sent to exactly when the user reconnects
\* with its old type: a drop has removed the old session from the list.
RosterListsSelf ==
    OneAtATime /\ NoWrap => \A c \in Conns :
        pc[c] \in {"fetch", "sub", "announce", "insertId", "insertIp", "done"} =>
            ((\E s \in roster[c] : ident[s] = ident[c]) <=> Reconnecting(c))

\* A handshake never hangs on a lock or a full channel: once the client has
\* answered, its task ends.  A client that got the completion of a registration
\* holds it before its address is known (server.rs sends it first), but is
\* found by its address in the end.
HandshakeEnds ==
    \A c \in Conns :
        /\ Active(c) /\ pc[c] \notin {"lookup", "synack"} ~> pc[c] \in Final
        /\ pc[c] = "sub" ~> addr[c] # None /\ byIp[addr[c]] = c

\* A user whose type change took it out of the registries is put back: no
\* later step of the handshake fails, and it ends with the session of a
\* handshake registered under its id.
DropLeadsToReturn ==
    \A c \in Conns : pc[c] = "dropIp" ~> pc[c] = "done" /\ byId[ident[c]] # None
=============================================================================
