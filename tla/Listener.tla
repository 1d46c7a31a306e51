------------------------------ MODULE Listener ------------------------------
(***************************************************************************)
(* The list of subscribers a relay of the server keeps (Listener in        *)
(* server/src/server.rs): a vector of (user id, sender of the user's       *)
(* queue).  An entry here is a record [user, chan]; chan stands for the    *)
(* queue behind the sender.                                                *)
(***************************************************************************)
EXTENDS Naturals, Sequences, FiniteSets

Entry(user, chan) == [user |-> user, chan |-> chan]

\* The message a handshake or a drop sends to a relay (ListenerMessage).
Sub(user, chan) == [op |-> "subscribe", user |-> user, chan |-> chan]
Unsub(user, none) == [op |-> "unsubscribe", user |-> user, chan |-> none]

Holds(list, user) == \E k \in DOMAIN list : list[k].user = user

\* position(): the index of the first entry of the user.
FirstAt(list, user) ==
    CHOOSE k \in DOMAIN list :
        /\ list[k].user = user
        /\ \A j \in 1..(k - 1) : list[j].user # user

\* Vec::remove: the list without its k-th entry, the order of the rest kept.
DropAt(list, k) ==
    [j \in 1..(Len(list) - 1) |-> IF j < k THEN list[j] ELSE list[j + 1]]

\* Listener::remove.
Remove(list, user) ==
    IF Holds(list, user) THEN DropAt(list, FirstAt(list, user)) ELSE list

\* The Subscribe and Unsubscribe arms of server_relay.
Apply(list, msg) ==
    IF msg.op = "subscribe"
    THEN Append(list, Entry(msg.user, msg.chan))
    ELSE Remove(list, msg.user)

\* bad_ids.iter().for_each(remove): one removal for each failed send.
RemoveAll(list, users) ==
    LET after[k \in 0..Len(users)] ==
            IF k = 0 THEN list ELSE Remove(after[k - 1], users[k])
    IN  after[Len(users)]

\* One message to everyone on the list, and the clean-up after it, when the
\* sends to the queues in bad fail: each of them costs its user an entry.
Without(list, bad) ==
    LET after[k \in 0..Len(list)] ==
            IF k = 0 THEN list
            ELSE IF list[k].chan \in bad THEN Remove(after[k - 1], list[k].user)
            ELSE after[k - 1]
    IN  after[Len(list)]

\* The entries of one queue.
EntriesOf(list, chan) == {k \in DOMAIN list : list[k].chan = chan}
EntriesFor(list, user) == {k \in DOMAIN list : list[k].user = user}
=============================================================================
