-------------------------------- MODULE Relay --------------------------------
(***************************************************************************)
(* One internal relay: server_relay with its Listener                      *)
(* (server/src/server.rs).  It multiplies what is sent on its main channel *)
(* to the queues of the subscribed users.                                  *)
(*                                                                         *)
(* Its surroundings are the publishers of the main channel, the handshakes *)
(* that subscribe and unsubscribe users, and the client tasks at the       *)
(* receiving end of the users' queues.  A user subscribes again, with a    *)
(* new queue, only after it has been unsubscribed: the order drop_user and *)
(* perform_handshake produce for an address with one handshake at a time.  *)
(***************************************************************************)
EXTENDS Naturals, Sequences, FiniteSets, Listener

CONSTANTS
    Users,      \* numbers, in the order they first register
    Chans,      \* the queues created for users: numbers, in that order
    MainCap,    \* capacity of the main channel: MAX_CHAN_SIZE
    UpdCap,     \* capacity of the update channel: DEFAULT_CHAN_SIZE
    QueueCap,   \* capacity of a user's queue: MAX_CHAN_SIZE
    MaxMsgs,    \* bound: number of messages published
    None

ASSUME SizeAssumption ==
    /\ Users \subseteq Nat /\ Chans \subseteq Nat
    /\ MainCap \in Nat \ {0}
    /\ UpdCap \in Nat \ {0}
    /\ QueueCap \in Nat \ {0}
    /\ MaxMsgs \in Nat
    /\ None \notin Nat

VARIABLES
    main,       \* main_update_channel
    upd,        \* user_update_channel
    mainOpen,   \* some sender of the main channel is left
    updOpen,    \* some sender of the update channel is left
    phase,      \* the relay is at its select!, sending, or has ended
    cur,        \* the message being multiplied
    idx,        \* the entry it goes to next
    bad,        \* bad_ids
    list,       \* client_channels
    queue,      \* the queue of each user's channel
    open,       \* its receiver is alive
    owner,      \* the user a channel was created for
    reg,        \* the channel of each registered user
    published,  \* number of messages published
    taken,      \* history: number of messages the relay took
    from,       \* history: taken when the channel was subscribed
    seen        \* history: everything that entered a channel's queue

relay == <<phase, cur, idx, bad, list>>
inputs == <<main, upd, mainOpen, updOpen>>
clients == <<queue, open>>
env == <<owner, reg, published>>
history == <<taken, from, seen>>
vars == <<inputs, relay, clients, env, history>>

Init ==
    /\ main = <<>> /\ upd = <<>> /\ mainOpen = TRUE /\ updOpen = TRUE
    /\ phase = "select" /\ cur = 0 /\ idx = 1 /\ bad = <<>> /\ list = <<>>
    /\ queue = [k \in Chans |-> <<>>]
    /\ open = [k \in Chans |-> TRUE]
    /\ owner = [k \in Chans |-> None]
    /\ reg = [u \in Users |-> None]
    /\ published = 0
    /\ taken = 0
    /\ from = [k \in Chans |-> None]
    /\ seen = [k \in Chans |-> <<>>]

-----------------------------------------------------------------------------
(* The surroundings.  A send to a relay that has ended fails. *)

Running == phase # "ended"

(* Definitions whose name ends in Bug are wrong variants of the one that    *)
(* follows them; each shows that a property depends on that code.           *)

\* Bug: the main channel is not bounded.
MainRoomUnboundedBug == TRUE

MainRoom == Len(main) < MainCap

\* Messages are numbered in the order they enter the main channel.
Publish ==
    /\ Running /\ mainOpen
    /\ published < MaxMsgs
    /\ MainRoom
    /\ main' = Append(main, published + 1)
    /\ published' = published + 1
    /\ UNCHANGED <<upd, mainOpen, updOpen, relay, clients, owner, reg, history>>

\* Users and queues have no identity before they are used: the next queue, for
\* a user known before or the next new one.
InOrder(u, k) ==
    /\ owner[k] = None
    /\ \A j \in Chans : j < k => owner[j] # None
    /\ \A v \in Users : v < u => \E j \in Chans : owner[j] = v


Register(u, k) ==
    /\ Running /\ updOpen
    /\ Len(upd) < UpdCap
    /\ reg[u] = None /\ InOrder(u, k)
    /\ upd' = Append(upd, Sub(u, k))
    /\ reg' = [reg EXCEPT ![u] = k]
    /\ owner' = [owner EXCEPT ![k] = u]
    /\ UNCHANGED <<main, mainOpen, updOpen, relay, clients, published, history>>

\* Bug: try_send for send: with a full channel the message is lost.
UnregisterTriesBug(u) ==
    /\ Running /\ updOpen
    /\ reg[u] # None
    /\ upd' = IF Len(upd) < UpdCap THEN Append(upd, Unsub(u, None)) ELSE upd
    /\ reg' = [reg EXCEPT ![u] = None]
    /\ UNCHANGED <<main, mainOpen, updOpen, relay, clients, owner, published, history>>

Unregister(u) ==
    /\ Running /\ updOpen
    /\ Len(upd) < UpdCap
    /\ reg[u] # None
    /\ upd' = Append(upd, Unsub(u, None))
    /\ reg' = [reg EXCEPT ![u] = None]
    /\ UNCHANGED <<main, mainOpen, updOpen, relay, clients, owner, published, history>>

\* The client's task takes the next item of its queue.
Receive(k) ==
    /\ open[k]
    /\ queue[k] # <<>>
    /\ queue' = [queue EXCEPT ![k] = Tail(@)]
    /\ UNCHANGED <<inputs, relay, open, env, history>>

\* The client's task ends, or panics: its queue is gone.
CloseReceiver(k) ==
    /\ owner[k] # None
    /\ open[k]
    /\ open' = [open EXCEPT ![k] = FALSE]
    /\ queue' = [queue EXCEPT ![k] = <<>>]
    /\ UNCHANGED <<inputs, relay, env, history>>

\* The last sender of one of the relay's inputs is dropped.
CloseInput ==
    /\ \/ mainOpen /\ mainOpen' = FALSE /\ UNCHANGED updOpen
       \/ updOpen /\ updOpen' = FALSE /\ UNCHANGED mainOpen
    /\ UNCHANGED <<main, upd, relay, clients, env, history>>

-----------------------------------------------------------------------------
(* The relay. *)

\* The main channel is polled first ("biased").
TakeMain ==
    /\ phase = "select"
    /\ main # <<>>
    /\ cur' = Head(main)
    /\ main' = Tail(main)
    /\ idx' = 1
    /\ phase' = "send"
    /\ taken' = taken + 1
    /\ UNCHANGED <<upd, mainOpen, updOpen, bad, list, clients, env, from, seen>>

MainEnds ==
    /\ phase = "select"
    /\ main = <<>> /\ ~mainOpen
    /\ phase' = "ended"
    /\ UNCHANGED <<cur, idx, bad, list, inputs, clients, env, history>>

\* Bug: subscriptions are handled while a message is being multiplied.
TakeUpdateAnytimeBug ==
    /\ phase \in {"select", "send"}
    /\ upd # <<>>
    /\ LET msg == Head(upd) IN
        /\ list' = Apply(list, msg)
        /\ from' = IF msg.op = "subscribe" /\ open[msg.chan]
                   THEN [from EXCEPT ![msg.chan] = taken] ELSE from
    /\ upd' = Tail(upd)
    /\ UNCHANGED <<main, mainOpen, updOpen, phase, cur, idx, bad, clients, env,
                   taken, seen>>

TakeUpdate ==
    /\ phase = "select"
    /\ main = <<>> /\ mainOpen
    /\ upd # <<>>
    /\ LET msg == Head(upd) IN
        /\ list' = Apply(list, msg)
        /\ from' = IF msg.op = "subscribe" /\ open[msg.chan]
                   THEN [from EXCEPT ![msg.chan] = taken] ELSE from
    /\ upd' = Tail(upd)
    /\ UNCHANGED <<main, mainOpen, updOpen, phase, cur, idx, bad, clients, env,
                   taken, seen>>

UpdatesEnd ==
    /\ phase = "select"
    /\ main = <<>> /\ mainOpen
    /\ upd = <<>> /\ ~updOpen
    /\ phase' = "ended"
    /\ UNCHANGED <<cur, idx, bad, list, inputs, clients, env, history>>

\* Bug: try_send for send: a full queue misses the message.
SendNextTriesBug ==
    /\ phase = "send"
    /\ idx <= Len(list)
    /\ LET k == list[idx].chan IN
        \/ /\ open[k]
           /\ Len(queue[k]) < QueueCap
           /\ queue' = [queue EXCEPT ![k] = Append(@, cur)]
           /\ seen' = [seen EXCEPT ![k] = Append(@, cur)]
           /\ UNCHANGED bad
        \/ /\ open[k] /\ Len(queue[k]) = QueueCap
           /\ UNCHANGED <<queue, seen, bad>>
        \/ /\ ~open[k]
           /\ bad' = Append(bad, list[idx].user)
           /\ UNCHANGED <<queue, seen>>
    /\ idx' = idx + 1
    /\ UNCHANGED <<inputs, phase, cur, list, open, env, taken, from>>

\* Bug: the send to a queue without a receiver does not return.
SendNextHangsBug ==
    /\ phase = "send"
    /\ idx <= Len(list)
    /\ LET k == list[idx].chan IN
        /\ open[k]
        /\ Len(queue[k]) < QueueCap
        /\ queue' = [queue EXCEPT ![k] = Append(@, cur)]
        /\ seen' = [seen EXCEPT ![k] = Append(@, cur)]
    /\ idx' = idx + 1
    /\ UNCHANGED <<inputs, phase, cur, bad, list, open, env, taken, from>>

\* chan.send(d.clone()).await for the next entry: wait for a place in its
\* queue, however long that takes, unless the receiver is gone.
SendNext ==
    /\ phase = "send"
    /\ idx <= Len(list)
    /\ LET k == list[idx].chan IN
        \/ /\ open[k]
           /\ Len(queue[k]) < QueueCap
           /\ queue' = [queue EXCEPT ![k] = Append(@, cur)]
           /\ seen' = [seen EXCEPT ![k] = Append(@, cur)]
           /\ UNCHANGED bad
        \/ /\ ~open[k]
           /\ bad' = Append(bad, list[idx].user)
           /\ UNCHANGED <<queue, seen>>
    /\ idx' = idx + 1
    /\ UNCHANGED <<inputs, phase, cur, list, open, env, taken, from>>

\* Bug: bad_ids is not emptied between two messages.
SendDoneKeepsBadBug ==
    /\ phase = "send"
    /\ idx = Len(list) + 1
    /\ list' = RemoveAll(list, bad)
    /\ phase' = "select"
    /\ UNCHANGED <<inputs, cur, idx, bad, clients, env, history>>

\* All entries are served: remove the users whose send failed.
SendDone ==
    /\ phase = "send"
    /\ idx = Len(list) + 1
    /\ list' = RemoveAll(list, bad)
    /\ bad' = <<>>
    /\ phase' = "select"
    /\ UNCHANGED <<inputs, cur, idx, clients, env, history>>

\* Nothing is left to relay.
Quiet ==
    /\ \/ phase = "ended"
       \/ phase = "select" /\ main = <<>> /\ upd = <<>>
    /\ UNCHANGED vars

RelayStep == TakeMain \/ MainEnds \/ TakeUpdate \/ UpdatesEnd \/ SendNext \/ SendDone

Next ==
    \/ Publish
    \/ \E u \in Users : Unregister(u) \/ \E k \in Chans : Register(u, k)
    \/ \E k \in Chans : Receive(k) \/ CloseReceiver(k)
    \/ CloseInput
    \/ RelayStep
    \/ Quiet

Spec == Init /\ [][Next]_vars

\* The relay is polled again whenever it is ready.  Nothing makes a client's task
\* receive: it may wait for a first connection, or in a write that does not return.
FairSpec == Spec /\ WF_vars(RelayStep)

-----------------------------------------------------------------------------
(* Properties. *)

TypeOK ==
    /\ main \in Seq(1..MaxMsgs) /\ Len(main) <= MainCap
    /\ upd \in Seq([op : {"subscribe", "unsubscribe"}, user : Users,
                    chan : Chans \union {None}])
    /\ Len(upd) <= UpdCap
    /\ mainOpen \in BOOLEAN /\ updOpen \in BOOLEAN
    /\ phase \in {"select", "send", "ended"}
    /\ cur \in 0..MaxMsgs /\ idx \in Nat \ {0}
    /\ bad \in Seq(Users)
    /\ list \in Seq([user : Users, chan : Chans])
    /\ queue \in [Chans -> Seq(1..MaxMsgs)]
    /\ \A k \in Chans : Len(queue[k]) <= QueueCap
    /\ open \in [Chans -> BOOLEAN]
    /\ owner \in [Chans -> Users \union {None}]
    /\ reg \in [Users -> Chans \union {None}]
    /\ published \in 0..MaxMsgs /\ taken \in 0..MaxMsgs
    /\ from \in [Chans -> (0..MaxMsgs) \union {None}]
    /\ seen \in [Chans -> Seq(1..MaxMsgs)]

Subscribed(k) == EntriesOf(list, k) # {}

\* Removal finds an entry by its user id alone.  That is enough because no user
\* ever has two entries, not even while its old queue is dead and not yet
\* noticed and a new one is on its way.
OneEntryPerUser == \A u \in Users : Cardinality(EntriesFor(list, u)) <= 1

\* Between two messages every subscriber whose task lives has been sent exactly
\* the messages the relay took since its subscription: none is missing, doubled
\* or out of order, whoever came, went or died in the meantime.
GapFree ==
    \A k \in Chans : phase = "select" /\ open[k] /\ Subscribed(k) =>
        seen[k] = [i \in 1..(taken - from[k]) |-> from[k] + i]

\* A queue that is still received from is never taken off the list by the
\* clean-up after another user's failed send, nor by another's Unsubscribe: it
\* goes with an Unsubscribe of its own user only.
OnlyOwnUnsubscribe ==
    [][\A k \in Chans : open[k] /\ Subscribed(k) /\ ~Subscribed(k)' =>
            /\ upd # <<>> /\ upd' = Tail(upd)
            /\ Head(upd).op = "unsubscribe" /\ Head(upd).user = owner[k]]_vars

\* The relay waits for a place in the full queue of a receiver that lives.
WaitsFor(k) ==
    /\ phase = "send" /\ idx <= Len(list) /\ list[idx].chan = k
    /\ open[k] /\ Len(queue[k]) = QueueCap

\* Only a live queue that stays full stops the relay, for everyone: where none does,
\* each message is relayed and the relay comes back to its select!, whoever leaves or
\* dies in the middle of it.
OnlyFullQueueStops ==
    (\A k \in Chans : []<>~WaitsFor(k)) =>
        \A n \in 1..MaxMsgs : published >= n ~> taken >= n /\ phase # "send"


\* The relay implements the broadcast the comment above Listener describes.
Promise == INSTANCE Broadcast WITH
    Members <- Chans,
    Messages <- 1..MaxMsgs,
    log <- [i \in 1..taken |-> i],
    state <- [k \in Chans |->
                IF ~open[k] THEN "failed"
                ELSE IF Subscribed(k) THEN "in"
                ELSE IF from[k] # None THEN "left" ELSE "out"],
    from <- [k \in Chans |-> IF from[k] = None THEN 0 ELSE from[k]],
    seen <- seen

ImplementsBroadcast == Promise!Spec
=============================================================================
