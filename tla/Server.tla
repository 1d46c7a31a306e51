------------------------------- MODULE Server -------------------------------
(***************************************************************************)
(* Handshakes with the relays behind the channels they fill: the           *)
(* composition of Handshake and Relay (Server::start in                    *)
(* server/src/server.rs).                                                  *)
(*                                                                         *)
(* A relay is its list of subscribers here.  It serves one input at a time *)
(* and gives an announcement to everyone on the list, in one step: that a  *)
(* real relay is as good as that is ImplementsBroadcast of Relay.  The     *)
(* task that reads a session's queue may have ended, with the session      *)
(* still registered; the relay finds out with the next message, and takes  *)
(* the user off its list.  Relay assumes in return that users come and go  *)
(* in order: UpdatesInOrder.                                               *)
(***************************************************************************)
EXTENDS Handshake

CONSTANT Deaths    \* the number of queues that are ever found dead (bound)

ASSUME DeathsAssumption == Deaths \in Nat

VARIABLES
    lists,    \* client_channels of each relay
    gone,     \* the sessions whose queue a relay has found dead
    subs,     \* history: the lists, had no queue ever died
    told,     \* the users announced to each session
    audience  \* history: who was on the event list when a client connected

serverVars == <<vars, lists, gone, subs, told, audience>>

\* The relay of server events; subscribe and unsubscribe send to the relays of
\* motion capture, events, tracks and synchronized packets in this order.
EventRelay == 2

ASSUME EventRelayAssumption == EventRelay \in Relays

Listed(r) == {lists[r][k].chan : k \in DOMAIN lists[r]}

ServerInit ==
    /\ Init
    /\ lists = [r \in Relays |-> <<>>]
    /\ gone = [r \in Relays |-> {}]
    /\ subs = [r \in Relays |-> <<>>]
    /\ told = [c \in Conns |-> {}]
    /\ audience = [c \in Conns |-> {}]

Connects(c) ==
    /\ \E a \in Addrs : Accept(c, a)
    /\ audience' = [audience EXCEPT ![c] = Listed(EventRelay)]
    /\ UNCHANGED <<lists, gone, subs, told>>

Handshakes(c) ==
    /\ \/ ServerStep(c)
       \/ \E t \in Types \union {"other"} : SynAck(c, t)
       \/ SynAckFails(c)
    /\ UNCHANGED <<lists, gone, subs, told, audience>>

\* The select! of a relay prefers its main channel; only that of the event
\* relay is in this module.
UpdateList(r) ==
    /\ r = EventRelay => events = <<>>
    /\ TakeUpdate(r)
    /\ lists' = [lists EXCEPT ![r] = Apply(@, Head(updates[r]))]
    /\ subs' = [subs EXCEPT ![r] = Apply(@, Head(updates[r]))]
    /\ UNCHANGED <<gone, told, audience>>

FoundDead == {p \in Relays \X Conns : p[2] \in gone[p[1]]}

\* The queues a message to everyone on a list may fail at: any, and those that
\* are dead already.
Failing(r) ==
    {bad \in SUBSET Listed(r) :
        /\ gone[r] \cap Listed(r) \subseteq bad
        /\ Cardinality(bad \ gone[r]) <= Deaths - Cardinality(FoundDead)}

(* Definitions whose name ends in Bug are wrong variants of the one that    *)
(* follows them; each shows that a property depends on that code.           *)

\* Bug: the clean-up keeps the users whose send failed, and only those.
CleanUpBug(r, bad) ==
    /\ lists' = [lists EXCEPT ![r] = IF bad = {} THEN @ ELSE Without(@, Listed(r) \ bad)]
    /\ gone' = [gone EXCEPT ![r] = @ \union bad]

\* The clean-up after a message whose sends to the queues in bad failed.
CleanUp(r, bad) ==
    /\ lists' = [lists EXCEPT ![r] = Without(@, bad)]
    /\ gone' = [gone EXCEPT ![r] = @ \union bad]

\* Bug: the last subscriber is left out.
TellAllBug ==
    /\ TakeEvent
    /\ told' = [c \in Conns |->
            IF \E k \in 1..(Len(lists[EventRelay]) - 1) : lists[EventRelay][k].chan = c
            THEN told[c] \union {Head(events).user} ELSE told[c]]
    /\ UNCHANGED <<lists, gone, subs, audience>>

TellAll ==
    /\ TakeEvent
    /\ \E bad \in Failing(EventRelay) :
          /\ told' = [c \in Conns |->
                IF c \in Listed(EventRelay) \ bad
                THEN told[c] \union {Head(events).user} ELSE told[c]]
          /\ CleanUp(EventRelay, bad)
    /\ UNCHANGED <<subs, audience>>

\* A message of motion capture, a track or a synchronized packet: nothing this
\* module follows but the queues it finds dead.
TellOthers(r) ==
    /\ r # EventRelay
    /\ \E bad \in Failing(r) \ {{}} : CleanUp(r, bad)
    /\ UNCHANGED <<vars, subs, told, audience>>

AllQuiet == Quiet /\ UNCHANGED <<lists, gone, subs, told, audience>>

ServerNext ==
    \/ \E c \in Conns : Connects(c) \/ Handshakes(c)
    \/ \E r \in Relays : UpdateList(r) \/ TellOthers(r)
    \/ TellAll
    \/ AllQuiet

ServerSpec == ServerInit /\ [][ServerNext]_serverVars

-----------------------------------------------------------------------------
(* Properties. *)

AtRest(r) == updates[r] = <<>> /\ (r = EventRelay => events = <<>>)

Registered == {byIp[a] : a \in Addrs} \ {None}

\* The lists of the four relays and the two registries are changed by different
\* tasks at different times, without a common lock.  When no handshake is under
\* way and the updates are taken, every list has exactly the registered
\* sessions on it whose queue the relay has not found dead, each once and under
\* its own user: a clean-up takes nobody with it, and no dead queue comes back.
ListsMatchRegistries ==
    OneAtATime /\ NoWrap /\ (\A c \in Conns : ~Active(c)) => \A r \in Relays :
        updates[r] = <<>> =>
            /\ Len(lists[r]) = Cardinality(Listed(r))
            /\ Listed(r) = Registered \ gone[r]
            /\ \A k \in DOMAIN lists[r] : lists[r][k].user = ident[lists[r][k].chan]

\* The user subscribed with a queue the relay has found dead since.
CutOff(r, user) == \E k \in EntriesFor(subs[r], user) : subs[r][k].chan \in gone[r]

\* What Relay assumes: when a Subscribe is taken its user is not on the list;
\* when an Unsubscribe is, its user is there once, or was taken off because of
\* a dead queue.  However many handshakes share the channel.
UpdatesInOrder ==
    OneAtATime /\ NoWrap => \A r \in Relays : updates[r] # <<>> =>
        LET msg == Head(updates[r]) IN
        Cardinality(EntriesFor(lists[r], msg.user)) =
            IF msg.op = "subscribe" \/ CutOff(r, msg.user) THEN 0 ELSE 1

\* Whoever is being told of new users when a client connects, and still is when
\* the client's registration is over, has been told of it: between the two no
\* announcement is lost, though a relay's list changes while it is on its way.
NewcomerIsTold ==
    \A c, d \in Conns :
        /\ pc[d] = "done" /\ AtRest(EventRelay)
        /\ c \in (audience[d] \cap Listed(EventRelay)) \ gone[EventRelay]
        => ident[d] \in told[c]

\* "A list of all users connected to the server" (protocol/src/handshake.rs):
\* when nothing is on its way any more, a registered client knows every other
\* one, from its completion or an announcement.
EveryoneKnown ==
    (\A c \in Conns : pc[c] = "done") /\ (\A r \in Relays : AtRest(r)) =>
        \A a, b \in Addrs : LET s == byIp[a] t == byIp[b] IN
            s # None /\ t # None /\ a # b =>
                \/ ident[t] \in told[s]
                \/ \E d \in roster[s] : ident[d] = ident[t]
=============================================================================
