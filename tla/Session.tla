-------------------------------- MODULE Session --------------------------------
(***************************************************************************)
(* One task of a registered client (server/src/client.rs) with what it     *)
(* depends on: the listener that hands it the client's connections while   *)
(* it holds clients_by_ip (client_connection_listener), the handshakes     *)
(* that want that lock for writing, and the server's end of the client     *)
(* events (client_event_listener, server/src/server.rs).                   *)
(*                                                                         *)
(* A session has several such tasks, which share nothing; kind says which  *)
(* of them a behaviour is about:                                           *)
(*   "events"  tcp_stream_event_sender, its select! biased to connections  *)
(*   "track"   backing_track_sender, the same with an unbiased select!     *)
(*   "listen"  client_event_listener, which reads instead                  *)
(*   "udp"     client_transmitter, of mixed packets or of audience motion  *)
(*             capture, which needs no connection                          *)
(* Connections and messages are numbered in the order they are made.       *)
(***************************************************************************)
EXTENDS Naturals, Sequences

CONSTANTS
    Kinds,      \* the tasks to consider
    SockCap,    \* capacity of the task's socket channel: MAX_CHAN_SIZE
    MsgCap,     \* capacity of the task's message channel: MAX_CHAN_SIZE
    EvCap,      \* capacity of the client event channel: MAX_CHAN_SIZE
    MaxSocks,   \* bound: connections the client makes
    MaxMsgs,    \* bound: messages to the client
    MaxInbox    \* bound: unread events on a connection

ASSUME SizeAssumption ==
    /\ Kinds \subseteq {"events", "track", "listen", "udp"}
    /\ SockCap \in Nat \ {0} /\ MsgCap \in Nat \ {0} /\ EvCap \in Nat \ {0}
    /\ MaxSocks \in Nat /\ MaxMsgs \in Nat /\ MaxInbox \in Nat

VARIABLES
    kind,
    registered,  \* the session is in clients_by_ip
    serving,     \* some sender of its socket channels is left
    relaying,    \* its queue is on the relay's list
    writer,      \* the handshake at clients_by_ip: it waits to drop this
                 \* session or to insert another, or drops what it took
    listener,    \* client_connection_listener accepts, wants the lock, sends
    made,        \* number of connections made; the last is the one it handles
    handed,      \* the last connection put in the channel
    socks,       \* the socket channel
    peer,        \* whether each connection is open, or how it ended
    phase,       \* where the task is
    sock,        \* its connection
    queue,       \* the messages relayed to it
    fed,         \* number of them
    hand,        \* the message it writes, or 0
    tried,       \* history: the messages done with: [msg, sock]
    inbox,       \* events sent on each connection and not read
    pending,     \* events it read and has to pass on
    evq,         \* number of events in the client event channel
    server       \* the server's listener waits for an event, or for clients_by_id

registry == <<registered, serving, relaying, writer>>
conns == <<listener, made, handed, peer>>
task == <<phase, sock, hand, tried, pending>>
vars == <<kind, registry, conns, socks, task, queue, fed, inbox, evq, server>>

Socks == 1..MaxSocks
Dead == {"ended", "panicked"}

Init ==
    /\ kind \in Kinds
    /\ registered = TRUE /\ serving = TRUE /\ relaying = TRUE /\ writer = "idle"
    /\ listener = "accept" /\ made = 0 /\ handed = 0
    /\ socks = <<>>
    /\ peer = [s \in Socks |-> "open"]
    /\ phase = IF kind = "udp" THEN "select" ELSE "first"
    /\ sock = 0 /\ hand = 0 /\ tried = <<>> /\ pending = 0
    /\ queue = <<>> /\ fed = 0
    /\ inbox = [s \in Socks |-> 0]
    /\ evq = 0 /\ server = "recv"

-----------------------------------------------------------------------------
(* The client and the relay. *)

\* A writer does not tell the two ways of leaving apart.
PeerLeaves(s) ==
    /\ s <= made /\ peer[s] = "open"
    /\ \E how \in IF kind = "listen" THEN {"closed", "reset"} ELSE {"reset"} :
          peer' = [peer EXCEPT ![s] = how]
    /\ UNCHANGED <<kind, registry, listener, made, handed, socks, task, queue, fed,
                   inbox, evq, server>>

PeerSends(s) ==
    /\ kind = "listen"
    /\ s <= made /\ peer[s] = "open"
    /\ inbox[s] < MaxInbox
    /\ inbox' = [inbox EXCEPT ![s] = @ + 1]
    /\ UNCHANGED <<kind, registry, conns, socks, task, queue, fed, evq, server>>

Feed ==
    /\ kind # "listen" /\ relaying /\ phase \notin Dead
    /\ fed < MaxMsgs /\ Len(queue) < MsgCap
    /\ fed' = fed + 1
    /\ queue' = Append(queue, fed + 1)
    /\ UNCHANGED <<kind, registry, conns, socks, task, inbox, evq, server>>

-----------------------------------------------------------------------------
(* The lock of clients_by_ip.  Its waiters queue: a writer that waits comes *)
(* before the reads after it.  An insertion holds clients_by_id meanwhile.  *)

Waiting == writer \in {"drop", "insert"}
ByIdHeld == writer = "insert"

\* client_connection_listener accepts the client's next connection.
Connect ==
    /\ kind # "udp"
    /\ listener = "accept"
    /\ made < MaxSocks
    /\ made' = made + 1
    /\ listener' = "lock"
    /\ UNCHANGED <<kind, registry, handed, peer, socks, task, queue, fed, inbox, evq, server>>

\* The lookup by address; the connection of an unknown client is dropped.
FindUser ==
    /\ listener = "lock"
    /\ ~Waiting
    /\ listener' = IF registered THEN "send" ELSE "accept"
    /\ UNCHANGED <<kind, registry, made, handed, peer, socks, task, queue, fed, inbox, evq, server>>

(* Definitions whose name ends in Bug are wrong variants of the one that    *)
(* follows them; each shows that a property depends on that code.           *)

\* Bug: the socket channel is not bounded.
SockRoomUnboundedBug == TRUE

SockRoom == Len(socks) < SockCap

\* The send, with the lock held; its failure is ignored.
HandOver ==
    /\ listener = "send"
    /\ \/ /\ phase \notin Dead /\ SockRoom
          /\ socks' = Append(socks, made)
          /\ handed' = made
       \/ /\ phase \in Dead
          /\ UNCHANGED <<socks, handed>>
    /\ listener' = "accept"
    /\ UNCHANGED <<kind, registry, made, peer, task, queue, fed, inbox, evq, server>>

\* A handshake of this client changes its type, or one of another client ends.
WantLock ==
    /\ writer = "idle"
    /\ writer' \in (IF registered THEN {"drop", "insert"} ELSE {"insert"})
    /\ UNCHANGED <<kind, registered, serving, relaying, conns, socks, task, queue, fed,
                   inbox, evq, server>>

GetLock ==
    /\ Waiting
    /\ listener # "send"
    /\ registered' = (registered /\ writer # "drop")
    /\ writer' = IF writer = "drop" THEN "unsub" ELSE "idle"
    /\ UNCHANGED <<kind, serving, relaying, conns, socks, task, queue, fed, inbox, evq, server>>

\* The end of drop_user: the session is unsubscribed and its senders dropped.
Release ==
    /\ writer = "unsub"
    /\ serving' = FALSE
    /\ writer' = "idle"
    /\ UNCHANGED <<kind, registered, relaying, conns, socks, task, queue, fed, inbox, evq, server>>

\* The relay gets to the Unsubscribe.
RelayLetsGo ==
    /\ relaying
    /\ writer = "unsub" \/ ~serving
    /\ relaying' = FALSE
    /\ UNCHANGED <<kind, registered, serving, writer, conns, socks, task, queue, fed,
                   inbox, evq, server>>

-----------------------------------------------------------------------------
(* The task. *)

\* It stops, and its receivers go with it.
Stop(how) ==
    /\ phase' = how
    /\ socks' = <<>> /\ queue' = <<>>

\* Only the last connection is kept; what was not read from it is lost.
NextSock ==
    /\ sock' = Head(socks)
    /\ socks' = Tail(socks)
    /\ peer' = [s \in Socks |-> IF s < sock' THEN "reset" ELSE peer[s]]
    /\ inbox' = [s \in Socks |-> IF s < sock' THEN 0 ELSE inbox[s]]
    /\ phase' = "select"

\* Bug: a new connection waits until the client has left the old one.
TakeSockLateBug ==
    /\ phase \in {"first", "select"}
    /\ socks # <<>>
    /\ sock # 0 => peer[sock] # "open"
    /\ NextSock
    /\ UNCHANGED <<kind, registry, listener, made, handed, hand, tried, pending, queue, fed,
                   evq, server>>

\* The first connection, or one that replaces the one before it.
TakeSock ==
    /\ phase \in {"first", "select"}
    /\ socks # <<>>
    /\ NextSock
    /\ UNCHANGED <<kind, registry, listener, made, handed, hand, tried, pending, queue, fed,
                   evq, server>>

\* Bug: the loop goes on when the socket channel is closed.
SocksEndIgnoredBug ==
    /\ kind # "udp" /\ phase \in {"first", "select"}
    /\ socks = <<>> /\ ~serving
    /\ UNCHANGED vars

SocksEnd ==
    /\ kind # "udp" /\ phase \in {"first", "select"}
    /\ socks = <<>> /\ ~serving
    /\ Stop("ended")
    /\ UNCHANGED <<kind, registry, conns, sock, hand, tried, pending, fed, inbox, evq, server>>

\* Bug: the select! of the event sender is not biased.
SockPendingUnbiasedBug == TRUE

\* What the biased select! has seen when it polls the messages.
SockPending == kind = "events" => socks = <<>> /\ serving

TakeMsg ==
    /\ phase = "select"
    /\ SockPending
    /\ queue # <<>>
    /\ hand' = Head(queue)
    /\ queue' = Tail(queue)
    /\ phase' = "write"
    /\ UNCHANGED <<kind, registry, conns, socks, sock, tried, pending, fed, inbox, evq, server>>

MsgsEnd ==
    /\ kind # "listen" /\ phase = "select"
    /\ SockPending
    /\ queue = <<>> /\ ~relaying
    /\ Stop("ended")
    /\ UNCHANGED <<kind, registry, conns, sock, hand, tried, pending, fed, inbox, evq, server>>

\* A packet whose conversion panics (ConvertPanics, Filter and Frame of VrlPacket)
\* takes the transmitter with it.  An empty one would end it too, but there is
\* none: OneItemPerPacket of Synchronizer.
EncodePanics ==
    /\ kind = "udp" /\ phase = "write"
    /\ hand' = 0
    /\ Stop("panicked")
    /\ UNCHANGED <<kind, registry, conns, sock, tried, pending, fed, inbox, evq, server>>

Tried == tried' = Append(tried, [msg |-> hand, sock |-> sock])

\* The write returns; what it wrote to a connection the client has left is lost.
\* That a datagram could not be sent is only logged, and so is that the conversion of
\* an event failed: the loop goes on without the write.
WriteEnds ==
    /\ phase = "write"
    /\ Tried /\ hand' = 0
    /\ phase' = "select"
    /\ UNCHANGED <<kind, registry, conns, socks, sock, pending, queue, fed, inbox, evq, server>>

\* Bug: a message whose write failed goes back to the end of the queue.
WriteFailsRequeuesBug ==
    /\ kind # "udp" /\ phase = "write" /\ peer[sock] # "open"
    /\ hand' = 0
    /\ queue' = Append(queue, hand)
    /\ phase' = "select"
    /\ UNCHANGED <<kind, registry, conns, socks, sock, tried, pending, fed, inbox, evq, server>>

\* Bug: the event sender ends when a write fails.
WriteFailsEndsBug ==
    /\ kind # "udp" /\ phase = "write" /\ peer[sock] # "open"
    /\ Tried /\ hand' = 0
    /\ Stop("ended")
    /\ UNCHANGED <<kind, registry, conns, sock, pending, fed, inbox, evq, server>>

\* The write fails and the message is gone.  The backing track sender then shuts
\* the connection down and unwraps the result.
WriteFails ==
    /\ kind # "udp" /\ phase = "write" /\ peer[sock] # "open"
    /\ Tried /\ hand' = 0
    /\ \/ phase' = "select" /\ UNCHANGED <<socks, queue>>
       \/ kind = "track" /\ Stop("panicked")
    /\ UNCHANGED <<kind, registry, conns, sock, pending, fed, inbox, evq, server>>

\* Events that do not parse are dropped; a bundle is unimplemented!().
Read ==
    /\ kind = "listen" /\ phase = "select"
    /\ peer[sock] # "reset" /\ inbox[sock] > 0
    /\ inbox' = [inbox EXCEPT ![sock] = 0]
    /\ \/ pending' \in 0..inbox[sock] /\ phase' = "deliver" /\ UNCHANGED <<socks, queue>>
       \/ Stop("panicked") /\ UNCHANGED pending
    /\ UNCHANGED <<kind, registry, conns, sock, hand, tried, fed, evq, server>>

\* Nothing more comes: try again after a while, or stop on an error.
ReadEnds ==
    /\ kind = "listen" /\ phase = "select"
    /\ \/ peer[sock] = "closed" /\ inbox[sock] = 0
          /\ phase' = "sleep" /\ UNCHANGED <<socks, queue>>
       \/ peer[sock] = "reset" /\ Stop("ended")
    /\ UNCHANGED <<kind, registry, conns, sock, hand, tried, pending, fed, inbox, evq, server>>

Wake ==
    /\ phase = "sleep"
    /\ phase' = "select"
    /\ UNCHANGED <<kind, registry, conns, socks, sock, hand, tried, pending, queue, fed,
                   inbox, evq, server>>

Deliver ==
    /\ phase = "deliver"
    /\ \/ /\ pending = 0
          /\ phase' = "select"
          /\ UNCHANGED <<pending, evq>>
       \/ /\ pending > 0 /\ evq < EvCap
          /\ pending' = pending - 1
          /\ evq' = evq + 1
          /\ UNCHANGED phase
    /\ UNCHANGED <<kind, registry, conns, socks, sock, hand, tried, queue, fed, inbox, server>>

\* The server's listener looks the sender of an event up in clients_by_id; all
\* it does with the event is to log it.
ServerTakes ==
    /\ server = "recv" /\ evq > 0
    /\ evq' = evq - 1
    /\ server' = "lock"
    /\ UNCHANGED <<kind, registry, conns, socks, task, queue, fed, inbox>>

ServerLooksUp ==
    /\ server = "lock"
    /\ ~ByIdHeld
    /\ server' = "recv"
    /\ UNCHANGED <<kind, registry, conns, socks, task, queue, fed, inbox, evq>>

\* A circular wait: the insertion, which holds clients_by_id, waits for
\* clients_by_ip; the connection listener, which holds that, for the task's
\* socket channel; the task for the event channel; and the server's listener,
\* which would empty it, for clients_by_id.  It takes both channels full.
Overrun ==
    /\ writer = "insert" /\ listener = "send" /\ Len(socks) = SockCap
    /\ phase = "deliver" /\ pending > 0 /\ evq = EvCap /\ server = "lock"

Halted == Overrun /\ UNCHANGED vars

TaskStep ==
    \/ TakeSock \/ SocksEnd \/ TakeMsg \/ MsgsEnd
    \/ EncodePanics \/ WriteEnds \/ WriteFails
    \/ Read \/ ReadEnds \/ Wake \/ Deliver

Next ==
    \/ \E s \in Socks : PeerLeaves(s) \/ PeerSends(s)
    \/ Feed
    \/ Connect \/ FindUser \/ HandOver
    \/ WantLock \/ GetLock \/ Release \/ RelayLetsGo
    \/ TaskStep
    \/ ServerTakes \/ ServerLooksUp
    \/ Halted

Spec == Init /\ [][Next]_vars

\* A write to a client that keeps its connection and does not read: it has no limit.
Unread == kind \in {"events", "track"} /\ phase = "write" /\ peer[sock] = "open"

\* Tasks that are ready are polled, and the waiters of a lock queue, so that no
\* stream of handshakes keeps a reader out.  An unbiased select! starts with an arm at
\* random, and a biased one with the connections: neither passes them over for
\* ever.  Nothing makes a write return as long as the connection holds, on one that
\* is broken it does; and nothing makes a relay get to its updates (see Relay).
Fairness ==
    /\ WF_vars(TaskStep /\ ~Unread) /\ SF_vars(TakeSock \/ SocksEnd)
    /\ SF_vars(FindUser) /\ WF_vars(HandOver)
    /\ WF_vars(GetLock) /\ WF_vars(Release)
    /\ WF_vars(ServerTakes) /\ SF_vars(ServerLooksUp)

FairSpec == Spec /\ Fairness

-----------------------------------------------------------------------------
(* Properties. *)

TypeOK ==
    /\ kind \in Kinds
    /\ registered \in BOOLEAN /\ serving \in BOOLEAN /\ relaying \in BOOLEAN
    /\ writer \in {"idle", "drop", "insert", "unsub"}
    /\ listener \in {"accept", "lock", "send"}
    /\ made \in 0..MaxSocks /\ handed \in 0..made
    /\ socks \in Seq(Socks) /\ Len(socks) <= SockCap
    /\ peer \in [Socks -> {"open", "closed", "reset"}]
    /\ phase \in {"first", "select", "write", "deliver", "sleep"} \union Dead
    /\ sock \in 0..MaxSocks /\ hand \in 0..MaxMsgs
    /\ queue \in Seq(1..MaxMsgs) /\ Len(queue) <= MsgCap
    /\ fed \in 0..MaxMsgs
    /\ tried \in Seq([msg : 1..MaxMsgs, sock : 0..MaxSocks])
    /\ inbox \in [Socks -> 0..MaxInbox] /\ pending \in 0..MaxInbox
    /\ evq \in 0..EvCap /\ server \in {"recv", "lock"}

\* Whatever connections break and are replaced, every message relayed to a task
\* that runs was tried once, in order, on one connection, or is still to be
\* tried: none is skipped, doubled or overtaken, and no message goes to a
\* connection older than one a message went to before.
EachTriedOnce ==
    /\ phase \notin Dead =>
          [i \in DOMAIN tried |-> tried[i].msg]
              \o (IF hand = 0 THEN <<>> ELSE <<hand>>) \o queue = [i \in 1..fed |-> i]
    /\ \A i, j \in DOMAIN tried : i < j => tried[i].sock <= tried[j].sock

\* "If another connection comes through from this, then any existing connections
\* should be discarded for the sake of this one" (ServerUserData): the event
\* sender starts no message on a connection while a newer one waits for it.
StartsOnNewest ==
    [][kind = "events" /\ hand = 0 /\ hand' # 0 => sock = handed]_vars

\* A reconnection does not start the tasks of the session again, so they must
\* last as long as it is registered.  The event sender does, whatever happens to
\* the client's connections, and a transmitter unless a packet makes it panic.
StaysServed ==
    registered =>
        /\ kind = "events" => phase \notin Dead
        /\ kind = "udp" => phase # "ended"

\* "if we lose connection, we can just have the client give us a new handle"
\* (client_event_listener in client.rs): losing the connection does not end the
\* listener of a registered client.
ListenerSurvives == kind = "listen" /\ registered => phase # "ended"

\* The listener waits, with the lock, for a place in the socket channel of a task
\* whose write does not return.
HeldByWrite == listener = "send" /\ Len(socks) = SockCap /\ Unread

\* Two things keep a handshake, and all that come after it, from clients_by_ip for
\* ever: a client that does not read what is written to it and fills the socket
\* channel with connections, or one that fills both that and the event channel.
OnlyClientBlocks ==
    \A w \in {"drop", "insert"} : <>[](writer = w) => <>[](HeldByWrite \/ Overrun)

\* "drop their channels, letting them clean up nicely" (drop_user): the task of a
\* dropped session ends, without a connection or in the middle of a message, unless
\* it is in a write to a client that never reads it nor leaves, or, having no
\* connection to be told by, is kept by a relay that never gets to the Unsubscribe.
DroppedSessionEnds ==
    <>[](~serving /\ phase \notin Dead) =>
        <>[](Unread \/ Overrun \/ (kind = "udp" /\ relaying))
=============================================================================
