----------------------------- MODULE ServerProofs ----------------------------
(***************************************************************************)
(* Proofs about Server: the handshakes of the composition are those of     *)
(* Handshake; whoever is told of new users when a client connects is told  *)
(* of it (NewcomerIsTold); the updates the handshakes and drops send meet  *)
(* the lists they are for (UpdatesInOrder), and the lists end with the     *)
(* registered sessions (ListsMatchRegistries).  For any number of          *)
(* connections and relays and however the handshakes interleave.           *)
(***************************************************************************)
EXTENDS Server, HandshakeProofs, ListenerProofs

\* The client has sent its subscription to the relay, or needs none.
Past(c, r) ==
    \/ pc[c] = "sub" /\ step[c] > r
    \/ pc[c] \in {"announce", "insertId", "insertIp", "done"}

\* The subscriptions of a client that are on their way to the relay.
Pending(c, r) ==
    {k \in DOMAIN updates[r] :
        updates[r][k].op = "subscribe" /\ updates[r][k].chan = c}

\* The sessions whose subscription the relay has taken and not forgotten.
Taken(r) == Listed(r) \union gone[r]

Coming(i) == \E k \in DOMAIN events : events[k].user = i

Entries == [user : Ids, chan : Conns \union {None}]

ListsTypeOK ==
    /\ lists \in [Relays -> Seq(Entries)]
    /\ gone \in [Relays -> SUBSET (Conns \union {None})]
    /\ subs \in [Relays -> Seq(Entries)]
    /\ told \in [Conns -> SUBSET Ids]
    /\ audience \in [Conns -> SUBSET (Conns \union {None})]

\* A session subscribes once: what a relay has taken is not on its way any more.
SubscribesOnce ==
    \A c \in Conns, r \in Relays :
        /\ c \in Taken(r) \/ Pending(c, r) # {} => Past(c, r)
        /\ c \in Taken(r) => Pending(c, r) = {}
        /\ \A j, k \in Pending(c, r) : j = k

\* Who was on the list does not subscribe again, so it is on the list still or
\* has left it for good.
AudienceOK ==
    \A c, d \in Conns : c \in audience[d] =>
        Past(c, EventRelay) /\ Pending(c, EventRelay) = {}

Announced(d) == pc[d] \in {"insertId", "insertIp", "done"}

ToldOK ==
    \A c, d \in Conns :
        Announced(d) /\ c \in (audience[d] \intersect Listed(EventRelay)) \ gone[EventRelay] =>
            ident[d] \in told[c] \/ Coming(ident[d])

\* Every subscription on its way brings the queue of a session.
Queued ==
    \A r \in Relays : \A k \in DOMAIN updates[r] :
        updates[r][k].op = "subscribe" => updates[r][k].chan \in Conns

NewcomerInv == ListsTypeOK /\ Queued /\ SubscribesOnce /\ AudienceOK /\ ToldOK

-----------------------------------------------------------------------------
(* The composition implements Handshake. *)

LEMMA HandshakeStep == [ServerNext]_serverVars => [Next]_vars
BY DEF ServerNext, serverVars, Connects, Handshakes, UpdateList, TellAll, TellOthers, AllQuiet,
   Next, ClientStep, RelayStep

\* Adding the lists of the relays takes nothing away and adds nothing: every
\* behaviour of the composition is one of the handshakes alone, so all that is
\* proved of Handshake holds here.
THEOREM ServerIsHandshake == ServerSpec => Spec
<1>1. ServerInit => Init
  BY DEF ServerInit
<1> QED BY <1>1, HandshakeStep, PTL DEF ServerSpec, Spec

-----------------------------------------------------------------------------
(* What a clean-up does to a list. *)

\* It brings no session, and forgets none without counting it among the dead.
LEMMA CleanUpLeaves ==
    ASSUME ListsTypeOK, NEW s \in Relays, NEW bad \in Failing(s), CleanUp(s, bad)
    PROVE  /\ bad \subseteq Listed(s) /\ Listed(s) \subseteq Conns \union {None}
           /\ lists' \in [Relays -> Seq(Entries)]
           /\ gone' \in [Relays -> SUBSET (Conns \union {None})]
           /\ \A r \in Relays : r # s => lists'[r] = lists[r] /\ gone'[r] = gone[r]
           /\ gone'[s] = gone[s] \union bad
           /\ lists'[s] = Without(lists[s], bad)
           /\ \A r \in Relays : Taken(r)' \subseteq Taken(r)
           /\ \A r \in Relays : Listed(r)' \subseteq Listed(r)
<1> USE DEF ListsTypeOK
<1>1. bad \subseteq Listed(s)
  BY DEF Failing
<1>2. lists[s] \in Seq(Entries)
  OBVIOUS
<1>3. ASSUME NEW k \in DOMAIN lists[s] PROVE lists[s][k].chan \in Conns \union {None}
  <2>1. lists[s][k] \in Entries
    BY <1>2, Elements
  <2> QED BY <2>1 DEF Entries
<1>4. Listed(s) \subseteq Conns \union {None}
  BY <1>3 DEF Listed
<1>5. /\ Without(lists[s], bad) \in Seq(Entries)
      /\ EntrySet(Without(lists[s], bad)) \subseteq EntrySet(lists[s])
  BY <1>2, WithoutLeaves
<1>6. /\ lists' = [lists EXCEPT ![s] = Without(lists[s], bad)]
      /\ gone' = [gone EXCEPT ![s] = gone[s] \union bad]
  BY DEF CleanUp
<1>7. /\ lists' \in [Relays -> Seq(Entries)]
      /\ gone' \in [Relays -> SUBSET (Conns \union {None})]
      /\ \A r \in Relays : r # s => lists'[r] = lists[r] /\ gone'[r] = gone[r]
      /\ gone'[s] = gone[s] \union bad
      /\ lists'[s] = Without(lists[s], bad)
  BY <1>1, <1>4, <1>5, <1>6
<1>8. Listed(s)' \subseteq Listed(s)
  <2>1. ASSUME NEW k \in DOMAIN lists'[s] PROVE lists'[s][k].chan \in Listed(s)
    <3>1. lists'[s][k] \in EntrySet(lists[s])
      BY <1>5, <1>7 DEF EntrySet
    <3> QED BY <3>1 DEF EntrySet, Listed
  <2> QED BY <2>1 DEF Listed
<1>9. \A r \in Relays : Listed(r)' \subseteq Listed(r)
  BY <1>7, <1>8 DEF Listed
<1>10. \A r \in Relays : Taken(r)' \subseteq Taken(r)
  BY <1>1, <1>7, <1>9 DEF Taken
<1> QED BY <1>1, <1>4, <1>7, <1>9, <1>10

-----------------------------------------------------------------------------
(* What one step does to the subscription of a client. *)

\* Once its subscription is sent, a client does not send one again.
LEMMA PastStays ==
    ASSUME TaskTypeOK, [Next]_vars, NEW c \in Conns, NEW r \in Relays, Past(c, r)
    PROVE  Past(c, r)'
<1>1. ASSUME NEW d \in Conns, d # c, ServerStep(d) \/ ClientStep(d) PROVE Past(c, r)'
  <2>1. pc'[c] = pc[c]
    BY <1>1, OthersKept DEF Kept
  <2>2. step'[c] = step[c]
    BY <1>1 DEF TaskTypeOK, ServerStep, ClientStep, Lookup, DropById, DropByIp, Unsubscribe,
       Gather, Fetch, Subscribe, Announce, InsertById, InsertByIp, Accept, SynAck, SynAckFails,
       SendUpdate, task
  <2> QED BY <2>1, <2>2 DEF Past
<1>2. CASE ServerStep(c) \/ ClientStep(c)
  BY <1>2, SizeAssumption
     DEF Past, TaskTypeOK, ServerStep, ClientStep, Lookup, DropById, DropByIp, Unsubscribe,
     Gather, Fetch, Subscribe, Announce, InsertById, InsertByIp, Accept, SynAck, SynAckFails,
     SendUpdate, task, Goto, Relays
<1>3. CASE RelayStep \/ Quiet \/ UNCHANGED vars
  BY <1>3, RelaysKeep DEF Past
<1> QED BY <1>1, <1>2, <1>3 DEF Next

\* A task's message to a relay is no subscription, or its own first.
LEMMA TaskSubscribes ==
    ASSUME TaskTypeOK, ChansTypeOK, NEW d \in Conns, ServerStep(d) \/ ClientStep(d),
           NEW c \in Conns, NEW r \in Relays
    PROVE  \/ Pending(c, r)' = Pending(c, r)
           \/ /\ d = c /\ ~Past(c, r) /\ Past(c, r)'
              /\ \A k \in Pending(c, r)' :
                    k \in Pending(c, r) \/ k = Len(updates[r]) + 1
<1> DEFINE queue == updates[r]
<1>0. queue \in Seq(Update)
  BY DEF ChansTypeOK
<1>1. CASE Unsubscribe(d)
  <2>1. queue' = queue \/ queue' = Append(queue, Unsub(ident[d], None))
    BY <1>0, <1>1 DEF Unsubscribe, SendUpdate, ChansTypeOK
  <2>2. Unsub(ident[d], None).op # "subscribe"
    BY DEF Unsub
  <2> QED BY SMTT(20), <1>0, <2>1, <2>2 DEF Pending
<1>2. CASE Subscribe(d)
  <2>1. CASE step[d] = r
    <3>1. queue' = Append(queue, Sub(ident[d], d))
      BY <1>0, <1>2, <2>1 DEF Subscribe, SendUpdate, ChansTypeOK
    <3>2. CASE d = c
      <4>1. ~Past(c, r) /\ Past(c, r)'
        BY <1>2, <2>1, <3>2 DEF Subscribe, SendUpdate, Past, Goto, TaskTypeOK, Relays
      <4>2. \A k \in Pending(c, r)' : k \in Pending(c, r) \/ k = Len(queue) + 1
        BY <1>0, <3>1 DEF Pending
      <4> QED BY <3>2, <4>1, <4>2
    <3>3. CASE d # c
      BY <1>0, <3>1, <3>3 DEF Pending, Sub
    <3> QED BY <3>2, <3>3
  <2>2. CASE step[d] # r
    BY <1>0, <1>2, <2>2 DEF Subscribe, SendUpdate, ChansTypeOK, Pending
  <2> QED BY <2>1, <2>2
<1>3. CASE ~Unsubscribe(d) /\ ~Subscribe(d)
  BY <1>3 DEF ServerStep, ClientStep, Lookup, DropById, DropByIp, Gather, Fetch, Announce,
     InsertById, InsertByIp, Accept, SynAck, SynAckFails, chans, Pending
<1> QED BY <1>1, <1>2, <1>3

\* A task that has announced its user keeps the id it announced; only a task
\* adds to the events, and at their end.
LEMMA TaskAnnounces ==
    ASSUME Shape, ChansTypeOK, NEW d \in Conns, ServerStep(d) \/ ClientStep(d),
           NEW x \in Conns
    PROVE  /\ \A i \in Ids : Coming(i) => Coming(i)'
           /\ Announced(x)' => ident'[x] = ident[x] /\ (Announced(x) \/ Coming(ident[x])')
<1>0. TaskTypeOK
  BY DEF Shape
<1>1. CASE Announce(d)
  <2>1. events' = Append(events, Added(Session(d))) /\ events \in Seq(Announcement)
    BY <1>1 DEF Announce, ChansTypeOK
  <2>2. \A i : Coming(i) => Coming(i)'
    BY <2>1 DEF Coming
  <2>3. ident[Session(d)] = ident[d] /\ Added(Session(d)).user = ident[d]
    BY <1>1, <1>0 DEF Session, Added, Announce, Shape, HeldOK
  <2>4. Coming(ident[d])'
    BY <2>1, <2>3, <1>1 DEF Coming, Announce
  <2>5. ident' = ident /\ (x # d => pc'[x] = pc[x])
    BY <1>1, <1>0 DEF Announce, Goto, TaskTypeOK
  <2> QED BY <2>2, <2>4, <2>5 DEF Announced
<1>2. CASE ~Announce(d)
  <2>1. events' = events
    BY <1>2 DEF ServerStep, ClientStep, Lookup, DropById, DropByIp, Unsubscribe, Gather,
       Fetch, Subscribe, InsertById, InsertByIp, Accept, SynAck, SynAckFails, chans
  <2>2. CASE x # d
    BY <2>1, <2>2, <1>0, OthersKept DEF Kept, Announced, Coming
  <2>3. CASE x = d
    BY <2>1, <2>3, <1>2, <1>0, SizeAssumption DEF ServerStep, ClientStep, Lookup, DropById, DropByIp,
       Unsubscribe, Gather, Fetch, Subscribe, InsertById, InsertByIp, Accept, SynAck,
       SynAckFails, SendUpdate, Goto, TaskTypeOK, Announced, Coming, task
  <2> QED BY <2>2, <2>3
<1> QED BY <1>1, <1>2

-----------------------------------------------------------------------------
(* NewcomerInv is inductive. *)

LEMMA ListsTypeStep ==
    Shape /\ ChansTypeOK /\ ListsTypeOK /\ [ServerNext]_serverVars => ListsTypeOK'
<1> SUFFICES ASSUME Shape, ChansTypeOK, ListsTypeOK, [ServerNext]_serverVars
             PROVE  ListsTypeOK'
  OBVIOUS
<1> USE EventRelayAssumption
<1>1. ASSUME NEW c \in Conns, Connects(c) PROVE ListsTypeOK'
  <2>1. \A k \in DOMAIN lists[EventRelay] :
           lists[EventRelay][k].chan \in Conns \union {None}
    <3>1. lists[EventRelay] \in Seq(Entries)
      BY DEF ListsTypeOK
    <3>2. ASSUME NEW k \in DOMAIN lists[EventRelay]
          PROVE  lists[EventRelay][k] \in Entries
      BY <3>1, Elements
    <3> QED BY <3>2 DEF Entries
  <2>2. Listed(EventRelay) \in SUBSET (Conns \union {None})
    BY <2>1 DEF Listed
  <2> QED BY <1>1, <2>2 DEF Connects, ListsTypeOK
<1>2. ASSUME NEW c \in Conns, Handshakes(c) PROVE ListsTypeOK'
  BY <1>2 DEF Handshakes, ListsTypeOK
<1>3. ASSUME NEW r \in Relays, UpdateList(r) PROVE ListsTypeOK'
  <2> DEFINE msg == Head(updates[r])
  <2>1. msg \in Update
    BY <1>3 DEF UpdateList, TakeUpdate, ChansTypeOK
  <2>2. Entry(msg.user, msg.chan) \in Entries
    BY <2>1 DEF Update, Entry, Entries
  <2>3. \A list \in Seq(Entries) : Apply(list, msg) \in Seq(Entries)
    <3> TAKE list \in Seq(Entries)
    <3>1. Remove(list, msg.user) \in Seq(Entries)
      BY RemoveKeeps
    <3>2. CASE msg.op = "subscribe"
      BY <2>2, <3>2 DEF Apply
    <3>3. CASE msg.op # "subscribe"
      BY <3>1, <3>3 DEF Apply
    <3> QED BY <3>2, <3>3
  <2>4. /\ lists' = [lists EXCEPT ![r] = Apply(lists[r], msg)]
        /\ subs' = [subs EXCEPT ![r] = Apply(subs[r], msg)]
        /\ UNCHANGED <<gone, told, audience>>
    BY <1>3 DEF UpdateList
  <2> HIDE DEF msg
  <2> QED BY <2>3, <2>4 DEF ListsTypeOK
<1>4. CASE TellAll
  <2>1. Head(events) \in Announcement
    BY <1>4 DEF TellAll, TakeEvent, ChansTypeOK
  <2>2. Head(events).user \in Ids
    BY <2>1 DEF Announcement
  <2>3. PICK bad \in Failing(EventRelay) :
           /\ told' = [c \in Conns |->
                 IF c \in Listed(EventRelay) \ bad
                 THEN told[c] \union {Head(events).user} ELSE told[c]]
           /\ CleanUp(EventRelay, bad)
    BY <1>4 DEF TellAll
  <2>4. UNCHANGED <<subs, audience>>
    BY <1>4 DEF TellAll
  <2>5. /\ lists' \in [Relays -> Seq(Entries)]
        /\ gone' \in [Relays -> SUBSET (Conns \union {None})]
    BY <2>3, CleanUpLeaves
  <2>6. told' \in [Conns -> SUBSET Ids]
    BY <2>2, <2>3 DEF ListsTypeOK
  <2> QED BY <2>4, <2>5, <2>6 DEF ListsTypeOK
<1>5. ASSUME NEW r \in Relays, TellOthers(r) PROVE ListsTypeOK'
  <2>1. PICK bad \in Failing(r) : CleanUp(r, bad)
    BY <1>5 DEF TellOthers
  <2>2. UNCHANGED <<subs, told, audience>>
    BY <1>5 DEF TellOthers
  <2> QED BY <2>1, <2>2, CleanUpLeaves DEF ListsTypeOK
<1>6. CASE AllQuiet \/ UNCHANGED serverVars
  BY <1>6 DEF AllQuiet, serverVars, ListsTypeOK
<1> QED BY <1>1, <1>2, <1>3, <1>4, <1>5, <1>6 DEF ServerNext

\* A relay takes the oldest update: a subscriber it adds has none left.
LEMMA ListStepOfRelay ==
    ASSUME ChansTypeOK, ListsTypeOK, SubscribesOnce, NEW s \in Relays, UpdateList(s),
           NEW c \in Conns, NEW r \in Relays
    PROVE  /\ Pending(c, r)' # {} => Pending(c, r) # {}
           /\ \A j, k \in Pending(c, r)' : j = k
           /\ c \in Listed(r)' =>
                 \/ c \in Listed(r)
                 \/ Pending(c, r) # {} /\ Pending(c, r)' = {}
           /\ gone' = gone
<1> DEFINE queue == updates[r]
<1>0. gone' = gone
  BY DEF UpdateList
<1>1. CASE s # r
  <2>1. queue' = queue /\ lists'[r] = lists[r]
    BY <1>1 DEF UpdateList, TakeUpdate, ChansTypeOK, ListsTypeOK
  <2> QED BY <1>0, <2>1 DEF SubscribesOnce, Pending, Listed
<1>2. CASE s = r
  <2>1. /\ queue \in Seq(Update) /\ queue # <<>> /\ queue' = Tail(queue)
        /\ lists'[r] = Apply(lists[r], Head(queue))
        /\ lists[r] \in Seq(Entries)
    BY <1>2 DEF UpdateList, TakeUpdate, ChansTypeOK, ListsTypeOK
  <2>2. \A k \in Pending(c, r)' : k \in Nat \ {0} /\ k + 1 \in Pending(c, r)
    BY <2>1 DEF Pending
  <2>3. \A j, k \in Pending(c, r)' : j = k
    BY <2>2 DEF SubscribesOnce
  <2>4. CASE Head(queue).op = "subscribe" /\ Head(queue).chan = c
    <3>1. 1 \in Pending(c, r)
      BY <2>1, <2>4 DEF Pending
    <3>2. Pending(c, r)' = {}
      BY <2>2, <3>1 DEF SubscribesOnce
    <3> QED BY <1>0, <2>2, <2>3, <3>1, <3>2
  <2>5. CASE ~(Head(queue).op = "subscribe" /\ Head(queue).chan = c)
    <3>1. \A k \in DOMAIN lists'[r] :
             \/ lists'[r][k].chan # c
             \/ \E j \in DOMAIN lists[r] : lists'[r][k] = lists[r][j]
      <4>1. CASE Head(queue).op = "subscribe"
        BY <2>1, <2>5, <4>1 DEF Apply, Entry
      <4>2. CASE Head(queue).op # "subscribe"
        BY <2>1, <4>2, RemoveKeeps DEF Apply
      <4> QED BY <4>1, <4>2
    <3>2. c \in Listed(r)' => c \in Listed(r)
      BY <3>1 DEF Listed
    <3> QED BY <1>0, <2>2, <2>3, <3>2
  <2> QED BY <2>4, <2>5
<1> QED BY <1>1, <1>2

\* A relay gives a message to its list: nobody new is taken.
LEMMA Telling ==
    ASSUME ListsTypeOK, TellAll \/ \E r \in Relays : TellOthers(r)
    PROVE  /\ \A r \in Relays : /\ Taken(r)' \subseteq Taken(r)
                                /\ Listed(r)' \subseteq Listed(r)
                                /\ gone[r] \subseteq gone'[r]
           /\ updates' = updates /\ subs' = subs /\ audience' = audience
           /\ UNCHANGED <<pc, task, issued, maps>>
<1>1. PICK s \in Relays : \E bad \in Failing(s) : CleanUp(s, bad)
  BY EventRelayAssumption DEF TellAll, TellOthers
<1>2. PICK bad \in Failing(s) : CleanUp(s, bad)
  BY <1>1
<1>3. \A r \in Relays : /\ Taken(r)' \subseteq Taken(r)
                        /\ Listed(r)' \subseteq Listed(r)
                        /\ gone[r] \subseteq gone'[r]
  BY <1>2, CleanUpLeaves
<1> QED BY <1>3 DEF TellAll, TellOthers, TakeEvent, vars, chans

\* A step that is none of the relays' leaves the lists as they are.
LEMMA ListedKept ==
    ASSUME lists' = lists, gone' = gone
    PROVE  \A r \in Relays : Listed(r)' = Listed(r) /\ Taken(r)' = Taken(r)
BY DEF Listed, Taken

LEMMA QueuedStep ==
    TaskTypeOK /\ ChansTypeOK /\ Queued /\ [Next]_vars => Queued'
<1> SUFFICES ASSUME TaskTypeOK, ChansTypeOK, Queued, [Next]_vars, NEW r \in Relays,
                    NEW k \in DOMAIN updates'[r], updates'[r][k].op = "subscribe"
             PROVE  updates'[r][k].chan \in Conns
  BY DEF Queued
<1>0. updates[r] \in Seq(Update)
  BY DEF ChansTypeOK
<1>1. CASE updates'[r] = updates[r]
  BY <1>1 DEF Queued
<1>2. CASE updates[r] # <<>> /\ updates'[r] = Tail(updates[r])
  <2>1. k + 1 \in DOMAIN updates[r] /\ updates'[r][k] = updates[r][k + 1]
    BY <1>0, <1>2, TailLeaves
  <2> QED BY <2>1 DEF Queued
<1>3. ASSUME NEW d \in Conns, NEW msg, updates'[r] = Append(updates[r], msg),
             msg = Sub(ident[d], d) \/ msg = Unsub(ident[d], None)
      PROVE  updates'[r][k].chan \in Conns
  <2>1. msg.op = "subscribe" => msg.chan = d
    BY <1>3 DEF Sub, Unsub
  <2>2. k \in DOMAIN updates[r] \/ updates'[r][k] = msg
    BY <1>0, <1>3, AppendEnds
  <2>3. k \in DOMAIN updates[r] => updates'[r][k] = updates[r][k]
    BY <1>0, <1>3, AppendEnds
  <2> QED BY <2>1, <2>2, <2>3 DEF Queued
<1>4. ASSUME NEW d \in Conns, Subscribe(d) \/ Unsubscribe(d)
      PROVE  updates'[r][k].chan \in Conns
  <2>1. \/ updates'[r] = updates[r]
        \/ updates'[r] = Append(updates[r], Sub(ident[d], d))
        \/ updates'[r] = Append(updates[r], Unsub(ident[d], None))
    BY <1>4 DEF Subscribe, Unsubscribe, SendUpdate, ChansTypeOK
  <2> QED BY <1>1, <1>3, <2>1
<1>5. ASSUME NEW d \in Conns, ServerStep(d) \/ ClientStep(d), ~Subscribe(d), ~Unsubscribe(d)
      PROVE  updates' = updates
  BY <1>5 DEF ServerStep, ClientStep, Lookup, DropById, DropByIp, Gather, Fetch, Announce,
     InsertById, InsertByIp, Accept, SynAck, SynAckFails, chans
<1>6. ASSUME RelayStep \/ Quiet \/ UNCHANGED vars
      PROVE  updates'[r] = updates[r] \/ (updates[r] # <<>> /\ updates'[r] = Tail(updates[r]))
  BY <1>6 DEF RelayStep, TakeEvent, TakeUpdate, Quiet, vars, chans, ChansTypeOK
<1> QED BY <1>1, <1>2, <1>4, <1>5, <1>6 DEF Next

LEMMA SubscribesStep ==
    Shape /\ ChansTypeOK /\ ListsTypeOK /\ SubscribesOnce /\ [ServerNext]_serverVars
        => SubscribesOnce'
<1> SUFFICES ASSUME Shape, ChansTypeOK, ListsTypeOK, SubscribesOnce,
                    [ServerNext]_serverVars, NEW c \in Conns, NEW r \in Relays
             PROVE  /\ c \in Taken(r)' \/ Pending(c, r)' # {} => Past(c, r)'
                    /\ c \in Taken(r)' => Pending(c, r)' = {}
                    /\ \A j, k \in Pending(c, r)' : j = k
  BY DEF SubscribesOnce
<1>0. TaskTypeOK
  BY DEF Shape
<1>1. Past(c, r) => Past(c, r)'
  BY <1>0, HandshakeStep, PastStays
<1>2. ASSUME NEW d \in Conns, Connects(d) \/ Handshakes(d) PROVE
             /\ c \in Taken(r)' \/ Pending(c, r)' # {} => Past(c, r)'
             /\ c \in Taken(r)' => Pending(c, r)' = {}
             /\ \A j, k \in Pending(c, r)' : j = k
  <2>1. Taken(r)' = Taken(r)
    BY <1>2, ListedKept DEF Connects, Handshakes
  <2>2. ServerStep(d) \/ ClientStep(d)
    BY <1>2 DEF Connects, Handshakes, ClientStep
  <2>3. CASE Pending(c, r)' = Pending(c, r)
    BY <1>1, <2>1, <2>3 DEF SubscribesOnce
  <2>4. CASE /\ ~Past(c, r) /\ Past(c, r)'
             /\ \A k \in Pending(c, r)' :
                   k \in Pending(c, r) \/ k = Len(updates[r]) + 1
    BY <2>1, <2>4 DEF SubscribesOnce
  <2> QED BY <1>0, <2>2, <2>3, <2>4, TaskSubscribes
<1>3. ASSUME NEW s \in Relays, UpdateList(s) PROVE
             /\ c \in Taken(r)' \/ Pending(c, r)' # {} => Past(c, r)'
             /\ c \in Taken(r)' => Pending(c, r)' = {}
             /\ \A j, k \in Pending(c, r)' : j = k
  BY <1>1, <1>3, ListStepOfRelay DEF SubscribesOnce, Taken
<1>4. CASE TellAll \/ \E s \in Relays : TellOthers(s)
  BY <1>1, <1>4, Telling DEF SubscribesOnce, Pending
<1>5. CASE AllQuiet \/ UNCHANGED serverVars
  <2>1. lists' = lists /\ gone' = gone /\ updates' = updates
    BY <1>5 DEF AllQuiet, Quiet, serverVars, vars, chans
  <2> QED BY <1>1, <2>1, ListedKept DEF SubscribesOnce, Pending
<1> QED BY <1>2, <1>3, <1>4, <1>5 DEF ServerNext

LEMMA AudienceStep ==
    Shape /\ ChansTypeOK /\ ListsTypeOK /\ SubscribesOnce /\ AudienceOK
        /\ [ServerNext]_serverVars => AudienceOK'
<1> USE EventRelayAssumption
<1> DEFINE r == EventRelay
<1> SUFFICES ASSUME Shape, ChansTypeOK, ListsTypeOK, SubscribesOnce, AudienceOK,
                    [ServerNext]_serverVars,
                    NEW c \in Conns, NEW d \in Conns, c \in audience'[d]
             PROVE  Past(c, r)' /\ Pending(c, r)' = {}
  BY DEF AudienceOK
<1>0. TaskTypeOK
  BY DEF Shape
<1>1. Past(c, r) => Past(c, r)'
  BY <1>0, HandshakeStep, PastStays
<1>2. c \in audience[d] \/ c \in Taken(r)
  BY DEF ServerNext, Connects, Handshakes, UpdateList, TellAll, TellOthers, AllQuiet, serverVars,
     ListsTypeOK, Taken
<1>3. Past(c, r) /\ Pending(c, r) = {}
  BY <1>2 DEF AudienceOK, SubscribesOnce
<1>4. ASSUME NEW e \in Conns, Connects(e) \/ Handshakes(e) PROVE Pending(c, r)' = {}
  <2>1. ServerStep(e) \/ ClientStep(e)
    BY <1>4 DEF Connects, Handshakes, ClientStep
  <2> HIDE DEF r
  <2> QED BY <1>0, <1>3, <2>1, TaskSubscribes DEF r
<1>5. ASSUME NEW s \in Relays, UpdateList(s) PROVE Pending(c, r)' = {}
  BY <1>3, <1>5, ListStepOfRelay
<1>6. CASE TellAll \/ (\E s \in Relays : TellOthers(s)) \/ AllQuiet \/ UNCHANGED serverVars
  <2>1. updates' = updates
    BY <1>6 DEF TellAll, TellOthers, TakeEvent, AllQuiet, Quiet, serverVars, vars, chans
  <2>2. Pending(c, r)' = {}
    BY <1>3, <2>1 DEF Pending
  <2> QED BY <1>1, <1>3, <2>2
<1> QED BY <1>1, <1>3, <1>4, <1>5, <1>6 DEF ServerNext

LEMMA ToldStep ==
    Inv /\ NewcomerInv /\ [ServerNext]_serverVars => ToldOK'
<1> USE EventRelayAssumption
<1> SUFFICES ASSUME Inv, NewcomerInv, [ServerNext]_serverVars,
                    NEW c \in Conns, NEW d \in Conns,
                    Announced(d)', c \in audience'[d], c \in Listed(EventRelay)',
                    c \notin gone'[EventRelay]
             PROVE  (ident'[d] \in told'[c]) \/ Coming(ident[d])'
  BY DEF ToldOK
<1>0. /\ Shape /\ ChansTypeOK /\ TaskTypeOK
      /\ ListsTypeOK /\ SubscribesOnce /\ AudienceOK /\ ToldOK
  BY DEF Inv, Shape, NewcomerInv
<1>1. ident[d] \in Ids
  BY <1>0 DEF TaskTypeOK
<1>2. ASSUME NEW e \in Conns, Connects(e) PROVE
             (ident'[d] \in told'[c]) \/ Coming(ident[d])'
  <2>1. ClientStep(e) /\ told' = told /\ lists' = lists /\ gone' = gone
    BY <1>2 DEF Connects, ClientStep
  <2>2. ident' = ident /\ events' = events /\ Announced(d) /\ d # e
    BY <1>0, <1>2 DEF Connects, Accept, Announced, Goto, TaskTypeOK, chans
  <2>3. audience'[d] = audience[d]
    BY <1>0, <1>2, <2>2 DEF Connects, ListsTypeOK
  <2> QED BY <1>0, <2>1, <2>2, <2>3, ListedKept DEF ToldOK, Coming
<1>3. ASSUME NEW e \in Conns, Handshakes(e) PROVE
             (ident'[d] \in told'[c]) \/ Coming(ident[d])'
  <2>1. /\ ServerStep(e) \/ ClientStep(e)
        /\ told' = told /\ lists' = lists /\ gone' = gone /\ audience' = audience
    BY <1>3 DEF Handshakes, ClientStep
  <2>2. /\ \A i \in Ids : Coming(i) => Coming(i)'
        /\ ident'[d] = ident[d]
        /\ Announced(d) \/ Coming(ident[d])'
    BY <1>0, <2>1, TaskAnnounces
  <2>3. CASE Announced(d)
    BY <1>0, <1>1, <2>1, <2>2, <2>3, ListedKept DEF ToldOK
  <2>4. CASE Coming(ident[d])'
    BY <2>2, <2>4
  <2> QED BY <2>2, <2>3, <2>4
<1>4. ASSUME NEW r \in Relays, UpdateList(r) PROVE
             (ident'[d] \in told'[c]) \/ Coming(ident[d])'
  <2>1. /\ ident' = ident /\ pc' = pc /\ told' = told
        /\ audience' = audience /\ events' = events /\ gone' = gone
    BY <1>4 DEF UpdateList, TakeUpdate, task
  <2>2. Pending(c, EventRelay) = {}
    BY <1>0, <2>1 DEF AudienceOK
  <2>3. c \in Listed(EventRelay)
    BY <1>0, <1>4, <2>2, ListStepOfRelay
  <2>4. ident[d] \in told[c] \/ Coming(ident[d])
    BY <1>0, <2>1, <2>3 DEF ToldOK, Announced
  <2> QED BY <2>1, <2>4 DEF Coming
<1>5. CASE TellAll
  <2>1. PICK bad \in Failing(EventRelay) :
           /\ told' = [x \in Conns |->
                 IF x \in Listed(EventRelay) \ bad
                 THEN told[x] \union {Head(events).user} ELSE told[x]]
           /\ CleanUp(EventRelay, bad)
    BY <1>5 DEF TellAll
  <2>2. /\ ident' = ident /\ pc' = pc /\ audience' = audience
        /\ events' = Tail(events) /\ events # <<>> /\ events \in Seq(Announcement)
    BY <1>0, <1>5 DEF TellAll, TakeEvent, task, ChansTypeOK
  <2>3. /\ c \in Listed(EventRelay) /\ c \notin gone[EventRelay] /\ c \notin bad
    BY <1>0, <2>1, CleanUpLeaves
  <2>4. told'[c] = told[c] \union {Head(events).user}
    BY <2>1, <2>3
  <2>5. ident[d] \in told[c] \/ Coming(ident[d])
    BY <1>0, <2>2, <2>3 DEF ToldOK, Announced
  <2>6. CASE Coming(ident[d])
    <3>1. PICK k \in DOMAIN events : events[k].user = ident[d]
      BY <2>6 DEF Coming
    <3>2. CASE k = 1
      BY <2>2, <2>4, <3>1, <3>2
    <3>3. CASE k # 1
      <4>1. k - 1 \in DOMAIN events' /\ events'[k - 1] = events[k]
        BY <2>2, <3>1, <3>3
      <4> QED BY <2>2, <3>1, <4>1 DEF Coming
    <3> QED BY <3>2, <3>3
  <2> QED BY <2>2, <2>4, <2>5, <2>6
<1>6. CASE \E r \in Relays : TellOthers(r)
  <2>1. /\ ident' = ident /\ pc' = pc /\ audience' = audience
        /\ events' = events /\ told' = told
    BY <1>6 DEF TellOthers, vars, task, chans
  <2>2. c \in Listed(EventRelay) /\ c \notin gone[EventRelay]
    BY <1>0, <1>6, Telling
  <2> QED BY <1>0, <2>1, <2>2 DEF ToldOK, Announced, Coming
<1>7. CASE AllQuiet \/ UNCHANGED serverVars
  BY <1>0, <1>7, ListedKept
     DEF AllQuiet, Quiet, serverVars, vars, task, chans, ToldOK, Announced, Coming
<1> QED BY <1>2, <1>3, <1>4, <1>5, <1>6, <1>7 DEF ServerNext

LEMMA NewcomerInit == ServerInit => NewcomerInv
<1> SUFFICES ASSUME ServerInit PROVE NewcomerInv
  OBVIOUS
<1> USE EventRelayAssumption DEF ServerInit, Init
<1>1. ListsTypeOK
  BY DEF ListsTypeOK
<1>2. \A r \in Relays : Taken(r) = {} /\ \A c \in Conns : Pending(c, r) = {}
  BY DEF Taken, Listed, Pending
<1>3. \A c \in Conns : audience[c] = {}
  OBVIOUS
<1>4. Queued
  BY DEF Queued
<1> QED BY <1>1, <1>2, <1>3, <1>4 DEF NewcomerInv, SubscribesOnce, AudienceOK, ToldOK

-----------------------------------------------------------------------------
(* The lists of the relays and the registries, while an address runs one    *)
(* handshake at a time.                                                     *)

\* The session is on the list of the relay, or will be once the relay has taken
\* the updates on their way to it: it is registered, or its own handshake has
\* subscribed it there, or the drop of it has not unsubscribed it there yet.
OnList(c, r) ==
    \/ \E a \in Addrs : byIp[a] = c
    \/ pc[c] = "sub" /\ step[c] > r
    \/ pc[c] \in {"announce", "insertId", "insertIp"} /\ ~Reconnecting(c)
    \/ \E d \in Conns : pc[d] = "unsub" /\ held[d] = c /\ step[d] <= r

\* The list of a relay when all that is on its way is taken, had no queue died.
Ahead(r) == Applied(subs[r], updates[r], Len(updates[r]))

AheadOK(r) ==
    /\ Ahead(r) \in Seq(Entries)
    /\ Unique(Ahead(r))
    /\ EntrySet(Ahead(r)) = {Entry(ident[c], c) : c \in {x \in Conns : OnList(x, r)}}

\* What a drop has in hand, and that a round of messages starts at the first relay.
InHand ==
    \A c \in Conns :
        /\ pc[c] \notin {"sub", "unsub"} => step[c] = 1
        /\ pc[c] = "unsub" => held[c] # None
        /\ pc[c] = "dropIp" => held[c] = byIp[addr[c]]

\* The list is what the subscriptions come to, without the dead queues found.
LiveOK(r) ==
    /\ Unique(subs[r]) /\ Unique(lists[r])
    /\ EntrySet(lists[r]) = {e \in EntrySet(subs[r]) : e.chan \notin gone[r]}

ListsInv ==
    OneAtATime /\ NoWrap =>
        InHand /\ \A r \in Relays : AheadOK(r) /\ Ordered(subs[r], updates[r]) /\ LiveOK(r)

\* What the proofs below know of the handshakes.
Patient == Inv /\ NoWrap /\ OneAtATimeOK /\ InHand

LEMMA StepKept ==
    ASSUME TaskTypeOK, NEW d \in Conns, ServerStep(d) \/ ClientStep(d),
           NEW c \in Conns, c # d
    PROVE  step'[c] = step[c]
BY DEF TaskTypeOK, ServerStep, ClientStep, Lookup, DropById, DropByIp, Unsubscribe,
   Gather, Fetch, Subscribe, Announce, InsertById, InsertByIp, Accept, SynAck, SynAckFails,
   SendUpdate, task

\* The session a task drops has the task's address and was registered.
LEMMA DroppedIs ==
    ASSUME Patient, NEW d \in Conns, pc[d] \in {"dropIp", "unsub"}
    PROVE  /\ held[d] \in Conns /\ pc[held[d]] = "done"
           /\ ident[held[d]] = ident[d] /\ addr[held[d]] = addr[d] /\ addr[d] \in Addrs
<1>1. held[d] # None
  BY DEF Patient, Inv, Shape, HeldOK, InHand
<1>2. held[d] \in Conns /\ pc[held[d]] = "done" /\ ident[held[d]] = ident[d]
  BY <1>1 DEF Patient, Inv, Shape, HeldOK, TaskTypeOK
<1>3. addr[held[d]] = addr[d]
  BY <1>2 DEF Patient, Inv, IdOwned, Named
<1>4. addr[d] \in Addrs
  BY DEF Patient, Inv, Shape, LabelsOK
<1> QED BY <1>1, <1>2, <1>3, <1>4

\* Of a registered address, no task has anything subscribed or half dropped.
LEMMA RegisteredAlone ==
    ASSUME Patient, NEW a \in Addrs, byIp[a] # None
    PROVE  /\ byIp[a] \in Conns /\ pc[byIp[a]] = "done" /\ addr[byIp[a]] = a
           /\ \A d \in Conns : addr[d] = a => ~Fresh(d) /\ pc[d] # "insertIp"
<1>1. byIp[a] \in Conns /\ pc[byIp[a]] = "done" /\ addr[byIp[a]] = a
  BY DEF Patient, Inv, Shape, ByIpOK, MapsTypeOK
<1>2. ASSUME NEW d \in Conns, addr[d] = a PROVE ~Fresh(d) /\ pc[d] # "insertIp"
  BY <1>2 DEF Patient, OneAtATimeOK, FreshAt
<1> QED BY <1>1, <1>2

\* A session that is or will be on a list, and whose address it has.
LEMMA OnListCases ==
    ASSUME Patient, NEW c \in Conns, NEW r \in Relays, OnList(c, r)
    PROVE  /\ Named(c) /\ addr[c] \in Addrs
           /\ \/ byIp[addr[c]] = c
              \/ Active(c) /\ (Fresh(c) \/ pc[c] = "insertIp") /\ pc[c] # "unsub"
              \/ \E d \in Conns : /\ pc[d] = "unsub" /\ held[d] = c /\ step[d] <= r
                                  /\ addr[d] = addr[c] /\ Fresh(d) /\ Active(d)
<1>1. CASE \E a \in Addrs : byIp[a] = c
  <2>1. PICK a \in Addrs : byIp[a] = c
    BY <1>1
  <2>2. byIp[a] # None
    BY <2>1, NoneAssumption
  <2>3. pc[c] = "done" /\ addr[c] = a
    BY <2>1, <2>2, RegisteredAlone
  <2> QED BY <2>1, <2>3 DEF Named
<1>2. CASE \/ pc[c] = "sub" /\ step[c] > r
           \/ pc[c] \in {"announce", "insertId", "insertIp"} /\ ~Reconnecting(c)
  <2>1. addr[c] \in Addrs
    BY <1>2 DEF Patient, Inv, Shape, LabelsOK
  <2> QED BY <1>2, <2>1 DEF Named, Active, Final, Fresh
<1>3. CASE \E d \in Conns : pc[d] = "unsub" /\ held[d] = c /\ step[d] <= r
  <2>1. PICK d \in Conns : pc[d] = "unsub" /\ held[d] = c /\ step[d] <= r
    BY <1>3
  <2>2. pc[c] = "done" /\ addr[c] = addr[d] /\ addr[d] \in Addrs
    BY <2>1, DroppedIs
  <2>3. Fresh(d) /\ Active(d)
    BY <2>1 DEF Fresh, Active, Final
  <2> QED BY <2>1, <2>2, <2>3 DEF Named
<1> QED BY <1>1, <1>2, <1>3 DEF OnList

\* A relay never gets two sessions of one user on its list.
LEMMA OnListOnce ==
    ASSUME Patient, NEW r \in Relays, NEW c \in Conns, NEW d \in Conns,
           OnList(c, r), Named(d), ident[c] = ident[d],
           OnList(d, r) \/ pc[d] = "sub"
    PROVE  c = d
<1>1. addr[c] = addr[d]
  BY OnListCases DEF Patient, Inv, IdOwned
<1>2. pc[d] = "sub" => Fresh(d) /\ Active(d)
  BY DEF Fresh, Active, Final
<1>3. CASE byIp[addr[c]] = c
  <2>1. byIp[addr[c]] # None /\ addr[c] \in Addrs
    BY <1>3, NoneAssumption, OnListCases
  <2>2. \A e \in Conns : addr[e] = addr[c] => ~Fresh(e) /\ pc[e] # "insertIp"
    BY <2>1, RegisteredAlone
  <2>3. OnList(d, r)
    BY <1>1, <1>2, <2>2
  <2>4. byIp[addr[d]] = d
    BY <1>1, <2>2, <2>3, OnListCases
  <2> QED BY <1>1, <1>3, <2>4
<1>4. CASE byIp[addr[c]] # c
  <2>1. byIp[addr[d]] # d
    <3> SUFFICES ASSUME byIp[addr[d]] = d PROVE FALSE
      OBVIOUS
    <3>1. byIp[addr[d]] # None /\ addr[d] \in Addrs
      BY NoneAssumption, <1>1, OnListCases
    <3>2. \A e \in Conns : addr[e] = addr[d] => ~Fresh(e) /\ pc[e] # "insertIp"
      BY <3>1, RegisteredAlone
    <3> QED BY <1>1, <1>4, <3>2, OnListCases
  <2>2. PICK e \in Conns : /\ addr[e] = addr[c] /\ Active(e)
                           /\ \/ e = c /\ pc[c] # "unsub"
                              \/ pc[e] = "unsub" /\ held[e] = c
    BY <1>4, OnListCases
  <2>3. PICK f \in Conns : /\ addr[f] = addr[d] /\ Active(f)
                           /\ \/ f = d /\ pc[d] # "unsub"
                              \/ pc[f] = "unsub" /\ held[f] = d
    <3>1. CASE pc[d] = "sub"
      BY <1>2, <3>1
    <3>2. CASE OnList(d, r)
      BY <2>1, <3>2, OnListCases
    <3> QED BY <3>1, <3>2
  <2>4. e = f
    BY <1>1, <2>2, <2>3 DEF Patient, OneAtATimeOK, Alone
  <2> QED BY <2>2, <2>3, <2>4
<1> QED BY <1>3, <1>4

\* A task that is about to subscribe at a relay is not on its list.
LEMMA NotYetOnList ==
    ASSUME Patient, NEW d \in Conns, pc[d] = "sub"
    PROVE  ~OnList(d, step[d])
<1> SUFFICES ASSUME OnList(d, step[d]) PROVE FALSE
  OBVIOUS
<1>1. step[d] \in Relays /\ step[d] \in Nat
  BY DEF Patient, Inv, Shape, TaskTypeOK, Relays
<1>2. ASSUME NEW a \in Addrs, byIp[a] = d PROVE FALSE
  <2>1. byIp[a] # None
    BY <1>2, NoneAssumption
  <2> QED BY <1>2, <2>1, RegisteredAlone
<1>3. ASSUME NEW e \in Conns, pc[e] = "unsub", held[e] = d PROVE FALSE
  BY <1>3, DroppedIs
<1> QED BY <1>1, <1>2, <1>3 DEF OnList

-----------------------------------------------------------------------------
(* What a step does to who is on the lists. *)

\* A session that is or will be on a list keeps its id.
LEMMA OnListNamed ==
    ASSUME Patient, [Next]_vars, NEW c \in Conns, Named(c)
    PROVE  ident'[c] = ident[c] /\ Named(c)'
<1>0. TaskTypeOK
  BY DEF Patient, Inv, Shape
<1>1. ASSUME NEW d \in Conns, ServerStep(d) \/ ClientStep(d), d # c
      PROVE  ident'[c] = ident[c] /\ Named(c)'
  BY <1>0, <1>1, OthersKept DEF Kept, Named
<1>2. CASE ServerStep(c) \/ ClientStep(c)
  BY <1>0, <1>2 DEF ServerStep, ClientStep, Lookup, DropById, DropByIp, Unsubscribe, Gather,
     Fetch, Subscribe, Announce, InsertById, InsertByIp, Accept, SynAck, SynAckFails,
     SendUpdate, task, Goto, TaskTypeOK, Named
<1>3. CASE RelayStep \/ Quiet \/ UNCHANGED vars
  BY <1>3, RelaysKeep DEF Named
<1> QED BY <1>1, <1>2, <1>3 DEF Next

\* Steps that neither change clients_by_ip nor send an update.
LEMMA PlainStep ==
    ASSUME Patient, NEW d \in Conns, ServerStep(d) \/ ClientStep(d), byIp' = byIp,
           ~Subscribe(d), ~Unsubscribe(d), NEW c \in Conns, NEW r \in Relays
    PROVE  OnList(c, r)' <=> OnList(c, r)
<1>0. TaskTypeOK /\ LabelsOK /\ r \in Nat /\ r >= 1
  BY DEF Patient, Inv, Shape, Relays
<1>1. \A e \in Conns : e # d =>
         /\ pc'[e] = pc[e] /\ held'[e] = held[e] /\ step'[e] = step[e]
         /\ Reconnecting(e)' = Reconnecting(e)
  BY <1>0, OthersKept, StepKept DEF Kept, Reconnecting
<1>2. ~DropByIp(d) /\ ~InsertByIp(d)
  <2>1. CASE DropByIp(d)
    <3>1. byIp[addr[d]] = held[d] /\ held[d] # None /\ addr[held[d]] = addr[d] /\ addr[d] \in Addrs
      BY <2>1, DroppedIs, NoneAssumption DEF DropByIp, Patient, InHand
    <3>2. byIp'[addr[d]] = None
      BY <2>1, <3>1 DEF DropByIp, Patient, Inv, Shape, MapsTypeOK
    <3> QED BY <3>1, <3>2
  <2>2. CASE InsertByIp(d)
    <3>1. byIp[addr[d]] = None /\ addr[d] \in Addrs
      BY <1>0, <2>2 DEF InsertByIp, Patient, OneAtATimeOK, FreshAt, LabelsOK
    <3>2. byIp'[addr[d]] = d
      BY <2>2, <3>1 DEF InsertByIp, Patient, Inv, Shape, MapsTypeOK
    <3> QED BY <3>1, <3>2, NoneAssumption
  <2> QED BY <2>1, <2>2
<1>3. pc[d] \notin {"sub", "unsub"} /\ pc'[d] # "unsub" /\ (pc'[d] = "sub" => step'[d] = 1)
  BY <1>0, <1>2 DEF ServerStep, ClientStep, Lookup, DropById, Gather, Fetch, Announce,
     InsertById, Accept, SynAck, SynAckFails, Goto, TaskTypeOK, Patient, InHand
<1>4. pc[d] \in {"announce", "insertId", "insertIp"} /\ ~Reconnecting(d)
         <=> pc'[d] \in {"announce", "insertId", "insertIp"} /\ ~Reconnecting(d)'
  <2>1. CASE Announce(d) \/ InsertById(d)
    BY <1>0, <2>1 DEF Announce, InsertById, Goto, TaskTypeOK, Reconnecting, task
  <2>2. CASE Fetch(d)
    BY <1>0, <2>2 DEF Fetch, Goto, TaskTypeOK, Reconnecting, LabelsOK
  <2>3. CASE Lookup(d) \/ DropById(d) \/ Gather(d) \/ ClientStep(d)
    BY <1>0, <2>3 DEF Lookup, DropById, Gather, ClientStep, Accept, SynAck, SynAckFails, Goto,
       TaskTypeOK
  <2> QED BY <1>2, <2>1, <2>2, <2>3 DEF ServerStep
<1>5. \A e \in Conns : (pc[e] = "sub" /\ step[e] > r) <=> (pc'[e] = "sub" /\ step'[e] > r)
  BY <1>0, <1>1, <1>3
<1>6. \A e \in Conns : pc[e] = "unsub" <=> pc'[e] = "unsub"
  BY <1>1, <1>3
<1>7. \A e \in Conns : pc[e] = "unsub" => held'[e] = held[e] /\ step'[e] = step[e]
  BY <1>1, <1>3
<1>8. pc[c] \in {"announce", "insertId", "insertIp"} /\ ~Reconnecting(c)
         <=> pc'[c] \in {"announce", "insertId", "insertIp"} /\ ~Reconnecting(c)'
  BY <1>1, <1>4
<1> QED BY <1>5, <1>6, <1>7, <1>8 DEF OnList

\* Between clients_by_ip and the relays the dropped session is in the hand of
\* the task that drops it.
LEMMA DropByIpOnList ==
    ASSUME Patient, NEW d \in Conns, DropByIp(d), NEW c \in Conns, NEW r \in Relays
    PROVE  OnList(c, r)' <=> OnList(c, r)
<1>0. /\ TaskTypeOK /\ MapsTypeOK /\ r \in Nat /\ r >= 1
      /\ pc[d] = "dropIp" /\ pc'[d] = "unsub" /\ step[d] = 1
      /\ UNCHANGED <<addr, ident, known, utype, held, step>>
  BY DEF Patient, Inv, Shape, Relays, DropByIp, Goto, TaskTypeOK, InHand, task
<1>1. /\ held[d] = byIp[addr[d]] /\ held[d] \in Conns /\ addr[held[d]] = addr[d]
      /\ addr[d] \in Addrs
  BY <1>0, DroppedIs DEF Patient, InHand
<1>2. byIp' = [byIp EXCEPT ![addr[d]] = None]
  BY <1>1 DEF DropByIp
<1>3. \A e \in Conns : e # d => pc'[e] = pc[e]
  BY <1>0 DEF DropByIp, Goto, TaskTypeOK
<1>4. \A a \in Addrs : byIp'[a] = c <=> byIp[a] = c /\ a # addr[d]
  BY <1>0, <1>2, NoneAssumption DEF MapsTypeOK
<1>5. \A a \in Addrs : byIp[a] = held[d] => a = addr[d]
  <2> SUFFICES ASSUME NEW a \in Addrs, byIp[a] = held[d] PROVE a = addr[d]
    OBVIOUS
  <2>1. byIp[a] # None
    BY <1>1, NoneAssumption
  <2>2. addr[byIp[a]] = a
    BY <2>1, RegisteredAlone
  <2> QED BY <1>1, <2>2
<1>6. (\E a \in Addrs : byIp'[a] = c) <=> (\E a \in Addrs : byIp[a] = c) /\ c # held[d]
  BY <1>1, <1>4, <1>5
<1>7. /\ pc'[c] = "sub" <=> pc[c] = "sub"
      /\ pc'[c] \in {"announce", "insertId", "insertIp"}
            <=> pc[c] \in {"announce", "insertId", "insertIp"}
      /\ Reconnecting(c)' = Reconnecting(c)
  BY <1>0, <1>3 DEF Reconnecting
<1>8. \A e \in Conns : pc'[e] = "unsub" <=> pc[e] = "unsub" \/ e = d
  BY <1>0, <1>3
<1>9. (\E e \in Conns : pc'[e] = "unsub" /\ held'[e] = c /\ step'[e] <= r)
         <=> \/ \E e \in Conns : pc[e] = "unsub" /\ held[e] = c /\ step[e] <= r
             \/ c = held[d]
  BY <1>0, <1>8
<1>10. c = held[d] => \E a \in Addrs : byIp[a] = c
  BY <1>1
<1>11. OnList(c, r)' <=> \/ \E a \in Addrs : byIp'[a] = c
                         \/ pc'[c] = "sub" /\ step[c] > r
                         \/ pc'[c] \in {"announce", "insertId", "insertIp"} /\ ~Reconnecting(c)
                         \/ \E e \in Conns : pc'[e] = "unsub" /\ held'[e] = c /\ step'[e] <= r
  BY <1>0, <1>7 DEF OnList
<1> QED BY <1>6, <1>7, <1>9, <1>10, <1>11 DEF OnList

\* The insertion takes the place of the task that leads to it.
LEMMA InsertByIpOnList ==
    ASSUME Patient, NEW d \in Conns, InsertByIp(d), NEW c \in Conns, NEW r \in Relays
    PROVE  OnList(c, r)' <=> OnList(c, r)
<1>0. /\ TaskTypeOK /\ MapsTypeOK
      /\ pc[d] = "insertIp" /\ pc'[d] = "done"
      /\ UNCHANGED <<addr, ident, known, utype, held, step>>
      /\ addr[d] \in Addrs /\ ~Reconnecting(d) /\ byIp[addr[d]] = None
      /\ byIp' = [byIp EXCEPT ![addr[d]] = d]
  BY DEF Patient, Inv, Shape, LabelsOK, OneAtATimeOK, FreshAt, InsertByIp, Goto, TaskTypeOK, task
<1>1. \A e \in Conns : e # d => pc'[e] = pc[e]
  BY <1>0 DEF InsertByIp, Goto, TaskTypeOK
<1>2. (\E a \in Addrs : byIp'[a] = c) <=> (\E a \in Addrs : byIp[a] = c) \/ c = d
  BY <1>0, NoneAssumption DEF MapsTypeOK
<1>3. Reconnecting(c)' = Reconnecting(c)
  BY <1>0 DEF Reconnecting
<1>4. \A e \in Conns : pc'[e] = "unsub" <=> pc[e] = "unsub"
  BY <1>0, <1>1
<1>5. pc'[c] = "sub" <=> pc[c] = "sub"
  BY <1>0, <1>1
<1>6. pc'[c] \in {"announce", "insertId", "insertIp"}
         <=> pc[c] \in {"announce", "insertId", "insertIp"} /\ c # d
  BY <1>0, <1>1
<1>7. OnList(d, r)
  BY <1>0 DEF OnList
<1> QED BY <1>0, <1>2, <1>3, <1>4, <1>5, <1>6, <1>7 DEF OnList

\* A subscription puts the session on the list of the relay it goes to.
LEMMA SubscribeOnList ==
    ASSUME Patient, NEW d \in Conns, Subscribe(d), NEW c \in Conns, NEW r \in Relays
    PROVE  OnList(c, r)' <=> OnList(c, r) \/ (c = d /\ r = step[d])
<1>0. /\ TaskTypeOK /\ pc[d] = "sub" /\ ~Reconnecting(d)
      /\ UNCHANGED <<addr, ident, known, utype, held, byIp>>
      /\ step[d] \in Nat /\ r \in Nat /\ NRelays \in Nat /\ 1 <= r /\ r <= NRelays
  BY SizeAssumption DEF Patient, Inv, Shape, LabelsOK, Subscribe, SendUpdate, TaskTypeOK, Relays, maps
<1>1. \A e \in Conns : e # d => pc'[e] = pc[e] /\ step'[e] = step[e]
  BY <1>0 DEF Subscribe, SendUpdate, Goto, TaskTypeOK
<1>2. \/ step[d] = NRelays /\ pc'[d] = "announce"
      \/ step[d] # NRelays /\ pc'[d] = "sub" /\ step'[d] = step[d] + 1
  BY <1>0 DEF Subscribe, SendUpdate, Goto, TaskTypeOK
<1>3. Reconnecting(c)' = Reconnecting(c)
  BY <1>0 DEF Reconnecting
<1>4. \A e \in Conns : pc'[e] = "unsub" <=> pc[e] = "unsub"
  BY <1>0, <1>1, <1>2
<1>5. \A e \in Conns : pc[e] = "unsub" => step'[e] = step[e]
  BY <1>0, <1>1
<1>6. CASE c # d
  BY <1>0, <1>1, <1>3, <1>4, <1>5, <1>6 DEF OnList
<1>7. CASE c = d
  <2>1. ~(\E a \in Addrs : byIp[a] = d)
    <3> SUFFICES ASSUME NEW a \in Addrs, byIp[a] = d PROVE FALSE
      OBVIOUS
    <3>1. byIp[a] # None
      BY NoneAssumption
    <3> QED BY <1>0, <3>1, RegisteredAlone
  <2>2. ~(\E e \in Conns : pc[e] = "unsub" /\ held[e] = d /\ step[e] <= r)
    BY <1>0, DroppedIs
  <2>3. ~(\E e \in Conns : pc'[e] = "unsub" /\ held'[e] = d /\ step'[e] <= r)
    BY <1>0, <1>4, <1>5, <2>2
  <2>4. OnList(d, r) <=> step[d] > r
    BY <1>0, <2>1, <2>2 DEF OnList
  <2>5. OnList(d, r)' <=> pc'[d] = "announce" \/ step'[d] > r
    BY <1>0, <1>2, <1>3, <1>7, <2>1, <2>3 DEF OnList
  <2>6. step[d] <= NRelays
    BY <1>0 DEF TaskTypeOK, Relays
  <2> QED BY <1>0, <1>2, <1>7, <2>4, <2>5, <2>6
<1> QED BY <1>6, <1>7

\* An unsubscription takes the dropped session from the list of the relay.
LEMMA UnsubscribeOnList ==
    ASSUME Patient, NEW d \in Conns, Unsubscribe(d), NEW c \in Conns, NEW r \in Relays
    PROVE  /\ OnList(c, r)' <=> OnList(c, r) /\ ~(c = held[d] /\ r = step[d])
           /\ OnList(held[d], step[d])
<1>0. /\ TaskTypeOK /\ pc[d] = "unsub"
      /\ UNCHANGED <<addr, ident, known, utype, byIp>>
      /\ step[d] \in Nat /\ r \in Nat /\ NRelays \in Nat /\ 1 <= r /\ r <= NRelays
      /\ step[d] <= NRelays /\ 1 <= step[d]
  BY SizeAssumption DEF Patient, Inv, Shape, Unsubscribe, SendUpdate, TaskTypeOK, Relays, maps
<1>1. \A e \in Conns : e # d => pc'[e] = pc[e] /\ step'[e] = step[e] /\ held'[e] = held[e]
  BY <1>0 DEF Unsubscribe, SendUpdate, Goto, TaskTypeOK
<1>2. \/ step[d] = NRelays /\ pc'[d] = "gather"
      \/ step[d] # NRelays /\ pc'[d] = "unsub" /\ step'[d] = step[d] + 1 /\ held'[d] = held[d]
  BY <1>0 DEF Unsubscribe, SendUpdate, Goto, TaskTypeOK
<1>3. Reconnecting(c)' = Reconnecting(c)
  BY <1>0 DEF Reconnecting
<1>4. /\ held[d] \in Conns /\ pc[held[d]] = "done" /\ addr[held[d]] = addr[d]
      /\ addr[d] \in Addrs
  BY <1>0, DroppedIs
<1>5. \A e \in Conns : pc[e] = "unsub" /\ held[e] = held[d] => e = d
  <2> SUFFICES ASSUME NEW e \in Conns, pc[e] = "unsub", held[e] = held[d] PROVE e = d
    OBVIOUS
  <2>1. addr[e] = addr[d]
    BY <1>4, DroppedIs
  <2> QED BY <1>0, <2>1 DEF Patient, OneAtATimeOK, Alone, Active, Final
<1>6. ~(\E a \in Addrs : byIp[a] = held[d])
  <2> SUFFICES ASSUME NEW a \in Addrs, byIp[a] = held[d] PROVE FALSE
    OBVIOUS
  <2>1. byIp[a] # None
    BY <1>4, NoneAssumption
  <2>2. addr[d] = a /\ Fresh(d)
    BY <1>0, <1>4, <2>1, RegisteredAlone DEF Fresh
  <2> QED BY <2>1, <2>2, RegisteredAlone
<1>7. pc'[c] # pc[c] => c = d /\ pc'[c] = "gather" /\ pc[c] = "unsub"
  BY <1>0, <1>1, <1>2
<1>8. c # d => step'[c] = step[c]
  BY <1>1
<1>9. (pc'[c] = "sub" /\ step'[c] > r) <=> (pc[c] = "sub" /\ step[c] > r)
  BY <1>0, <1>7, <1>8
<1>10. (\E e \in Conns : pc'[e] = "unsub" /\ held'[e] = c /\ step'[e] <= r)
          <=> /\ \E e \in Conns : pc[e] = "unsub" /\ held[e] = c /\ step[e] <= r
              /\ ~(c = held[d] /\ r = step[d])
  <2>1. CASE c # held[d]
    BY <1>0, <1>1, <1>2, <2>1
  <2>2. CASE c = held[d]
    <3>1. (\E e \in Conns : pc[e] = "unsub" /\ held[e] = c /\ step[e] <= r) <=> step[d] <= r
      BY <1>0, <1>5, <2>2
    <3>2. (\E e \in Conns : pc'[e] = "unsub" /\ held'[e] = c /\ step'[e] <= r)
             <=> pc'[d] = "unsub" /\ held'[d] = c /\ step'[d] <= r
      BY <1>1, <1>5, <2>2
    <3>3. pc'[d] = "unsub" /\ held'[d] = c /\ step'[d] <= r
             <=> step[d] # NRelays /\ step[d] + 1 <= r
      BY <1>2, <2>2
    <3>4. (step[d] # NRelays /\ step[d] + 1 <= r) <=> (step[d] <= r /\ r # step[d])
      BY <1>0
    <3> QED BY <2>2, <3>1, <3>2, <3>3, <3>4
  <2> QED BY <2>1, <2>2
<1>11. OnList(held[d], step[d])
  BY <1>0 DEF OnList
<1>12. /\ c = held[d] => pc[c] = "done"
       /\ pc'[c] \in {"announce", "insertId", "insertIp"}
             <=> pc[c] \in {"announce", "insertId", "insertIp"}
  BY <1>4, <1>7
<1>13. OnList(c, r)' <=> \/ \E a \in Addrs : byIp[a] = c
                         \/ pc'[c] = "sub" /\ step'[c] > r
                         \/ pc'[c] \in {"announce", "insertId", "insertIp"} /\ ~Reconnecting(c)
                         \/ \E e \in Conns : pc'[e] = "unsub" /\ held'[e] = c /\ step'[e] <= r
  BY <1>0, <1>3 DEF OnList
<1> QED BY <1>6, <1>9, <1>10, <1>11, <1>12, <1>13 DEF OnList

-----------------------------------------------------------------------------
(* ListsInv is inductive. *)

LEMMA InHandStep ==
    ASSUME Patient, OneAtATime, [Next]_vars
    PROVE  InHand'
<1>0. TaskTypeOK /\ MapsTypeOK /\ Shape /\ IdOwned
  BY DEF Patient, Inv, Shape
<1> SUFFICES ASSUME NEW c \in Conns
             PROVE  /\ pc'[c] \notin {"sub", "unsub"} => step'[c] = 1
                    /\ pc'[c] = "unsub" => held'[c] # None
                    /\ pc'[c] = "dropIp" => held'[c] = byIp'[addr'[c]]
  BY DEF InHand
<1>1. /\ pc[c] \notin {"sub", "unsub"} => step[c] = 1
      /\ pc[c] = "unsub" => held[c] # None
      /\ pc[c] = "dropIp" => held[c] = byIp[addr[c]]
  BY DEF Patient, InHand
<1>2. CASE TaskStep(c)
  <2>1. CASE Lookup(c) \/ Gather(c) \/ Fetch(c) \/ Announce(c) \/ InsertById(c) \/ InsertByIp(c)
             \/ SynAckFails(c) \/ \E t \in Types \union {"other"} : SynAck(c, t)
    BY <1>0, <1>1, <2>1 DEF Lookup, Gather, Fetch, Announce, InsertById, InsertByIp, SynAck,
       SynAckFails, Goto, TaskTypeOK, task
  <2>2. CASE Subscribe(c) \/ Unsubscribe(c)
    BY <1>0, <1>1, <2>2 DEF Subscribe, Unsubscribe, SendUpdate, Goto, TaskTypeOK
  <2>3. CASE DropByIp(c)
    <3>1. held[c] # None
      BY <1>0, <2>3 DEF DropByIp, Shape, HeldOK
    <3> QED BY <1>0, <1>1, <2>3, <3>1 DEF DropByIp, Goto, TaskTypeOK, task
  <2>4. CASE DropById(c)
    <3>1. byId[ident[c]] = byIp[addr[c]]
      BY <2>4 DEF DropById, Patient, OneAtATimeOK, FoundAt, Found
    <3> QED BY <1>0, <1>1, <2>4, <3>1 DEF DropById, Goto, TaskTypeOK
  <2> QED BY <1>2, <2>1, <2>2, <2>3, <2>4 DEF TaskStep, ServerStep
<1>3. ASSUME NEW d \in Conns, d # c, TaskStep(d)
      PROVE  /\ pc'[c] \notin {"sub", "unsub"} => step'[c] = 1
             /\ pc'[c] = "unsub" => held'[c] # None
             /\ pc'[c] = "dropIp" => held'[c] = byIp'[addr'[c]]
  <2>1. Active(d) /\ addr' = addr /\ (ServerStep(d) \/ ClientStep(d))
    BY <1>0, <1>3, TaskStepActive
  <2>2. pc'[c] = pc[c] /\ held'[c] = held[c] /\ step'[c] = step[c]
    BY <1>0, <1>3, <2>1, OthersKept, StepKept DEF Kept
  <2>3. CASE pc[c] = "dropIp"
    <3>1. addr[c] \in Addrs /\ addr[c] # addr[d]
      BY <1>0, <1>3, <2>1, <2>3
         DEF Shape, LabelsOK, Patient, OneAtATimeOK, Alone, Active, Final
    <3>2. byIp'[addr[c]] = byIp[addr[c]]
      BY <1>0, <1>3, <3>1, LocalEffect DEF Patient
    <3> QED BY <1>1, <2>1, <2>2, <3>2
  <2> QED BY <1>1, <2>2, <2>3
<1>4. ASSUME NEW d \in Conns, NEW a \in Addrs, Accept(d, a)
      PROVE  /\ pc'[c] \notin {"sub", "unsub"} => step'[c] = 1
             /\ pc'[c] = "unsub" => held'[c] # None
             /\ pc'[c] = "dropIp" => held'[c] = byIp'[addr'[c]]
  BY <1>0, <1>1, <1>4 DEF Accept, Goto, TaskTypeOK, maps
<1>5. CASE RelayStep \/ Quiet \/ UNCHANGED vars
  BY <1>1, <1>5, RelaysKeep
<1> QED BY <1>2, <1>3, <1>4, <1>5 DEF Next, ClientStep, TaskStep

\* The entries a list will have, as the registries and the tasks tell.
Expected(r) == {Entry(ident[c], c) : c \in {x \in Conns : OnList(x, r)}}

LEMMA ExpectedKept ==
    ASSUME Patient, [Next]_vars, NEW r \in Relays,
           \A c \in Conns : OnList(c, r)' <=> OnList(c, r)
    PROVE  Expected(r)' = Expected(r)
<1>1. \A c \in Conns : OnList(c, r) => ident'[c] = ident[c]
  BY OnListCases, OnListNamed
<1> QED BY <1>1 DEF Expected

\* A relay's list is where it was bound for, whoever takes which step.
LEMMA AheadKept ==
    ASSUME NEW r \in Relays, subs'[r] = subs[r], updates'[r] = updates[r],
           AheadOK(r), Ordered(subs[r], updates[r]), Expected(r)' = Expected(r)
    PROVE  AheadOK(r)' /\ Ordered(subs'[r], updates'[r])
<1>1. Ahead(r)' = Ahead(r)
  BY DEF Ahead
<1>2. EntrySet(Ahead(r)) = Expected(r) /\ Unique(Ahead(r))
  BY DEF AheadOK, Expected
<1> QED BY <1>1, <1>2 DEF AheadOK, Expected

\* A subscription finds no session of its user on the list.
LEMMA SubscribeOrdered ==
    ASSUME Patient, [Next]_vars, ListsTypeOK, NEW d \in Conns, Subscribe(d), subs' = subs,
           NEW r \in Relays, AheadOK(r), Ordered(subs[r], updates[r])
    PROVE  AheadOK(r)' /\ Ordered(subs'[r], updates'[r])
<1> DEFINE E == Entries
           msg == Sub(ident[d], d)
<1>0. /\ TaskTypeOK /\ ChansTypeOK /\ pc[d] = "sub" /\ Named(d) /\ ident[d] \in Ids
      /\ updates[r] \in Seq(Update) /\ step[d] \in Relays
      /\ updates' = [updates EXCEPT ![step[d]] = Append(@, msg)]
  BY DEF Patient, Inv, Shape, TaskTypeOK, ChansTypeOK, Subscribe, SendUpdate, Named
<1>1. CASE r # step[d]
  <2>1. \A c \in Conns : OnList(c, r)' <=> OnList(c, r)
    BY <1>1, SubscribeOnList
  <2>2. updates'[r] = updates[r]
    BY <1>0, <1>1 DEF ChansTypeOK
  <2> QED BY <2>1, <2>2, ExpectedKept, AheadKept
<1>2. CASE r = step[d]
  <2>1. updates'[r] = Append(updates[r], msg) /\ msg \in Update
    BY <1>0, <1>2 DEF ChansTypeOK, Update, Sub
  <2>2. Ahead(r) \in Seq(E) /\ Unique(Ahead(r)) /\ EntrySet(Ahead(r)) = Expected(r)
    BY DEF AheadOK, Expected
  <2>3. ~OnList(d, r)
    BY <1>0, <1>2, NotYetOnList
  <2>4. ~Holds(Ahead(r), ident[d])
    <3> SUFFICES ASSUME NEW e \in Expected(r), e.user = ident[d] PROVE FALSE
      BY <2>2, InEntrySet
    <3>1. PICK c \in Conns : OnList(c, r) /\ ident[c] = ident[d]
      BY DEF Expected, Entry
    <3>2. c = d
      BY <1>0, <3>1, OnListOnce
    <3> QED BY <2>3, <3>1, <3>2
  <2>5. Cardinality(EntriesFor(Ahead(r), ident[d])) = 0
    BY <2>2, <2>4, UsersOnce
  <2>6. msg.user = ident[d] /\ msg.op = "subscribe" /\ msg.chan = d
    BY DEF Sub
  <2> DEFINE entry == Entry(ident[d], d)
  <2> HIDE DEF msg
  <2>7. /\ Ordered(subs[r], Append(updates[r], msg))
        /\ Applied(subs[r], Append(updates[r], msg), Len(Append(updates[r], msg)))
               = Apply(Ahead(r), msg)
    BY <1>0, <2>1, <2>5, <2>6, OrderedAppend DEF Ahead
  <2>8. Ahead(r)' = Append(Ahead(r), entry)
    BY <2>1, <2>6, <2>7 DEF Ahead, Apply
  <2>9. entry \in E /\ entry.user = ident[d]
    BY <1>0 DEF Entry, Entries
  <2> HIDE DEF E, entry
  <2>10. /\ EntrySet(Append(Ahead(r), entry)) = Expected(r) \union {entry}
         /\ Unique(Append(Ahead(r), entry)) /\ Append(Ahead(r), entry) \in Seq(E)
    <3>1. Append(Ahead(r), entry) \in Seq(E)
      BY ONLY <2>2, <2>9
    <3> QED BY <2>2, <2>4, <2>9, <3>1, AppendLeaves
  <2>11. Expected(r)' = Expected(r) \union {entry}
    <3>1. \A c \in Conns : OnList(c, r)' <=> OnList(c, r) \/ c = d
      BY <1>2, SubscribeOnList
    <3>2. \A c \in Conns : OnList(c, r) \/ c = d => ident'[c] = ident[c]
      BY <1>0, OnListCases, OnListNamed
    <3> QED BY <3>1, <3>2 DEF Expected, entry
  <2>12. EntrySet(Ahead(r)') = Expected(r)' /\ Unique(Ahead(r)') /\ Ahead(r)' \in Seq(E)
    BY <2>8, <2>10, <2>11
  <2>13. AheadOK(r)'
    BY <2>12 DEF AheadOK, Expected, E
  <2> QED BY <2>1, <2>7, <2>13
<1> QED BY <1>1, <1>2

\* An unsubscription finds the one session of its user, and takes it away.
LEMMA UnsubscribeOrdered ==
    ASSUME Patient, [Next]_vars, ListsTypeOK, NEW d \in Conns, Unsubscribe(d), subs' = subs,
           NEW r \in Relays, AheadOK(r), Ordered(subs[r], updates[r])
    PROVE  AheadOK(r)' /\ Ordered(subs'[r], updates'[r])
<1> DEFINE E == Entries
           msg == Unsub(ident[d], None)
           old == held[d]
<1>0. /\ TaskTypeOK /\ ChansTypeOK /\ pc[d] = "unsub" /\ ident[d] \in Ids
      /\ updates[r] \in Seq(Update) /\ step[d] \in Relays
      /\ updates' = [updates EXCEPT ![step[d]] = Append(@, msg)]
  BY DEF Patient, Inv, Shape, TaskTypeOK, ChansTypeOK, Unsubscribe, SendUpdate
<1>1. CASE r # step[d]
  <2>1. \A c \in Conns : OnList(c, r)' <=> OnList(c, r)
    BY <1>1, UnsubscribeOnList
  <2>2. updates'[r] = updates[r]
    BY <1>0, <1>1 DEF ChansTypeOK
  <2> QED BY <2>1, <2>2, ExpectedKept, AheadKept
<1>2. CASE r = step[d]
  <2>1. updates'[r] = Append(updates[r], msg) /\ msg \in Update
    BY <1>0, <1>2 DEF ChansTypeOK, Update, Unsub
  <2>2. Ahead(r) \in Seq(E) /\ Unique(Ahead(r)) /\ EntrySet(Ahead(r)) = Expected(r)
    BY DEF AheadOK, Expected
  <2>3. OnList(old, r) /\ old \in Conns /\ ident[old] = ident[d]
    BY <1>0, <1>2, UnsubscribeOnList, DroppedIs
  <2>4. Holds(Ahead(r), ident[d])
    <3>1. Entry(ident[old], old) \in Expected(r) /\ Entry(ident[old], old).user = ident[d]
      BY <2>3 DEF Expected, Entry
    <3> QED BY <2>2, <3>1, InEntrySet
  <2>5. Cardinality(EntriesFor(Ahead(r), ident[d])) = 1
    BY <2>2, <2>4, UsersOnce
  <2>6. msg.user = ident[d] /\ msg.op # "subscribe"
    BY DEF Unsub
  <2> HIDE DEF msg
  <2>7. /\ Ordered(subs[r], Append(updates[r], msg))
        /\ Applied(subs[r], Append(updates[r], msg), Len(Append(updates[r], msg)))
               = Apply(Ahead(r), msg)
    BY <1>0, <2>1, <2>5, <2>6, OrderedAppend DEF Ahead
  <2>8. Ahead(r)' = Remove(Ahead(r), ident[d])
    BY <2>1, <2>6, <2>7 DEF Ahead, Apply
  <2> HIDE DEF E, old
  <2>9. LET rest == Remove(Ahead(r), ident[d]) IN
        /\ rest \in Seq(E) /\ Unique(rest)
        /\ EntrySet(rest) = {e \in Expected(r) : e.user # ident[d]}
    BY <2>2, RemoveLeaves
  <2>10. Expected(r)' = {e \in Expected(r) : e.user # ident[d]}
    <3>1. \A c \in Conns : OnList(c, r)' <=> OnList(c, r) /\ c # old
      BY <1>2, UnsubscribeOnList DEF old
    <3>2. \A c \in Conns : OnList(c, r) => ident'[c] = ident[c]
      BY OnListCases, OnListNamed
    <3>3. \A c \in Conns : OnList(c, r) => (c # old <=> ident[c] # ident[d])
      BY <2>3, OnListOnce, OnListCases
    <3>4. \A c \in Conns : Entry(ident[c], c).user = ident[c]
      BY DEF Entry
    <3> QED BY <3>1, <3>2, <3>3, <3>4 DEF Expected
  <2>11. EntrySet(Ahead(r)') = Expected(r)' /\ Unique(Ahead(r)') /\ Ahead(r)' \in Seq(E)
    BY <2>8, <2>9, <2>10
  <2>12. AheadOK(r)'
    BY <2>11 DEF AheadOK, Expected, E
  <2> QED BY <2>1, <2>7, <2>12
<1> QED BY <1>1, <1>2

\* The relay follows: it gets nearer to where its list is bound for.
LEMMA RelayOrdered ==
    ASSUME Patient, [Next]_vars, ListsTypeOK, NEW s \in Relays, UpdateList(s),
           NEW r \in Relays, AheadOK(r), Ordered(subs[r], updates[r])
    PROVE  AheadOK(r)' /\ Ordered(subs'[r], updates'[r])
<1>0. ChansTypeOK /\ UNCHANGED <<pc, addr, ident, known, utype, held, step, byIp>>
  BY DEF Patient, Inv, UpdateList, TakeUpdate, task, maps
<1>1. \A c \in Conns : OnList(c, r)' <=> OnList(c, r)
  BY <1>0 DEF OnList, Reconnecting
<1>2. Expected(r)' = Expected(r)
  BY <1>1, ExpectedKept
<1>3. CASE r # s
  <2>1. subs'[r] = subs[r] /\ updates'[r] = updates[r]
    BY <1>0, <1>3 DEF UpdateList, TakeUpdate, ListsTypeOK, ChansTypeOK
  <2> QED BY <1>2, <2>1, AheadKept
<1>4. CASE r = s
  <2>1. /\ updates[r] \in Seq(Update) /\ updates[r] # <<>> /\ updates'[r] = Tail(updates[r])
        /\ subs'[r] = Apply(subs[r], Head(updates[r]))
    BY <1>0, <1>4 DEF UpdateList, TakeUpdate, ListsTypeOK, ChansTypeOK
  <2>2. /\ Ordered(Apply(subs[r], Head(updates[r])), Tail(updates[r]))
        /\ Applied(Apply(subs[r], Head(updates[r])), Tail(updates[r]), Len(Tail(updates[r])))
               = Ahead(r)
    BY <2>1, OrderedTail DEF Ahead
  <2>3. Ahead(r)' = Ahead(r)
    BY <2>1, <2>2 DEF Ahead
  <2>4. EntrySet(Ahead(r)) = Expected(r) /\ Unique(Ahead(r))
    BY DEF AheadOK, Expected
  <2>5. AheadOK(r)'
    BY <1>2, <2>3, <2>4 DEF AheadOK, Expected
  <2> QED BY <2>1, <2>2, <2>5
<1> QED BY <1>3, <1>4

\* A dead queue found leaves the list with the entry of its user, and neither
\* comes back: a session subscribes once.
LEMMA LiveStep ==
    ASSUME ChansTypeOK, NewcomerInv, [ServerNext]_serverVars, NEW r \in Relays,
           Ordered(subs[r], updates[r]), LiveOK(r)
    PROVE  LiveOK(r)'
<1>0. /\ lists[r] \in Seq(Entries) /\ subs[r] \in Seq(Entries) /\ ListsTypeOK
      /\ Unique(subs[r]) /\ Unique(lists[r])
      /\ EntrySet(lists[r]) = {e \in EntrySet(subs[r]) : e.chan \notin gone[r]}
      /\ updates[r] \in Seq(Update)
  BY DEF NewcomerInv, ListsTypeOK, LiveOK, ChansTypeOK
<1>1. CASE lists'[r] = lists[r] /\ subs'[r] = subs[r] /\ gone'[r] = gone[r]
  BY <1>0, <1>1 DEF LiveOK
<1>2. CASE UpdateList(r)
  <2> DEFINE msg == Head(updates[r])
             entry == Entry(msg.user, msg.chan)
  <2>1. /\ updates[r] # <<>> /\ msg = updates[r][1] /\ msg \in Update /\ 1 \in DOMAIN updates[r]
        /\ lists'[r] = Apply(lists[r], msg) /\ subs'[r] = Apply(subs[r], msg)
        /\ gone'[r] = gone[r]
    BY <1>0, <1>2, TailLeaves DEF UpdateList, TakeUpdate, ListsTypeOK
  <2>2. Cardinality(EntriesFor(subs[r], msg.user)) = IF msg.op = "subscribe" THEN 0 ELSE 1
    <3>1. Applied(subs[r], updates[r], 1 - 1) = subs[r]
      BY AppliedSteps
    <3> QED BY <2>1, <3>1 DEF Ordered
  <2>3. CASE msg.op = "subscribe"
    <3>1. ~Holds(subs[r], msg.user)
      BY <1>0, <2>2, <2>3, UsersOnce
    <3>2. ~Holds(lists[r], msg.user)
      BY <1>0, <3>1, InEntrySet
    <3>3. entry \in Entries /\ entry.user = msg.user /\ entry.chan = msg.chan
      BY <2>1 DEF Entry, Entries, Update
    <3>4. msg.chan \in Conns /\ 1 \in Pending(msg.chan, r)
      BY <2>1, <2>3 DEF NewcomerInv, Queued, Pending
    <3>5. msg.chan \notin gone[r]
      BY <3>4 DEF NewcomerInv, SubscribesOnce, Taken
    <3>6. lists'[r] = Append(lists[r], entry) /\ subs'[r] = Append(subs[r], entry)
      BY <2>1, <2>3 DEF Apply
    <3> HIDE DEF msg, entry
    <3>7. /\ EntrySet(lists'[r]) = EntrySet(lists[r]) \union {entry} /\ Unique(lists'[r])
          /\ EntrySet(subs'[r]) = EntrySet(subs[r]) \union {entry} /\ Unique(subs'[r])
      BY <1>0, <3>1, <3>2, <3>3, <3>6, AppendLeaves
    <3>8. EntrySet(lists'[r]) = {e \in EntrySet(subs'[r]) : e.chan \notin gone'[r]}
      BY <1>0, <2>1, <3>3, <3>5, <3>7
    <3> QED BY <3>7, <3>8 DEF LiveOK
  <2>4. CASE msg.op # "subscribe"
    <3>1. lists'[r] = Remove(lists[r], msg.user) /\ subs'[r] = Remove(subs[r], msg.user)
      BY <2>1, <2>4 DEF Apply
    <3> HIDE DEF msg
    <3>2. /\ Unique(lists'[r]) /\ Unique(subs'[r])
          /\ EntrySet(lists'[r]) = {e \in EntrySet(lists[r]) : e.user # msg.user}
          /\ EntrySet(subs'[r]) = {e \in EntrySet(subs[r]) : e.user # msg.user}
      BY <1>0, <3>1, RemoveLeaves
    <3>3. EntrySet(lists'[r]) = {e \in EntrySet(subs'[r]) : e.chan \notin gone'[r]}
      BY <1>0, <2>1, <3>2
    <3> QED BY <3>2, <3>3 DEF LiveOK
  <2> QED BY <2>3, <2>4
<1>3. ASSUME NEW bad \in Failing(r), CleanUp(r, bad), subs' = subs PROVE LiveOK(r)'
  <2>1. lists'[r] = Without(lists[r], bad) /\ gone'[r] = gone[r] \union bad
    BY <1>0, <1>3, CleanUpLeaves
  <2>2. /\ Unique(lists'[r])
        /\ EntrySet(lists'[r]) = {e \in EntrySet(lists[r]) : e.chan \notin bad}
    BY <1>0, <2>1, WithoutLeaves
  <2>3. EntrySet(lists'[r]) = {e \in EntrySet(subs'[r]) : e.chan \notin gone'[r]}
    BY <1>0, <1>3, <2>1, <2>2
  <2> QED BY <1>0, <1>3, <2>2, <2>3 DEF LiveOK
<1>4. ASSUME NEW s \in Relays, s # r, NEW bad \in Failing(s), CleanUp(s, bad), subs' = subs
      PROVE  LiveOK(r)'
  BY <1>0, <1>1, <1>4, CleanUpLeaves
<1>5. ASSUME TellAll \/ \E s \in Relays : TellOthers(s) PROVE LiveOK(r)'
  <2>1. subs' = subs
    BY <1>5 DEF TellAll, TellOthers
  <2>2. \E s \in Relays : \E bad \in Failing(s) : CleanUp(s, bad)
    BY <1>5, EventRelayAssumption DEF TellAll, TellOthers
  <2> QED BY <1>3, <1>4, <2>1, <2>2
<1>6. ASSUME NEW s \in Relays, UpdateList(s), s # r PROVE LiveOK(r)'
  <2>1. lists'[r] = lists[r] /\ subs'[r] = subs[r] /\ gone'[r] = gone[r]
    BY <1>0, <1>6 DEF UpdateList, ListsTypeOK
  <2> QED BY <1>1, <2>1
<1>7. CASE (\E c \in Conns : Connects(c) \/ Handshakes(c)) \/ AllQuiet \/ UNCHANGED serverVars
  BY <1>1, <1>7 DEF Connects, Handshakes, AllQuiet, serverVars
<1> QED BY <1>2, <1>5, <1>6, <1>7 DEF ServerNext

LEMMA ListsStep ==
    Inv /\ PatientInv /\ NewcomerInv /\ ListsInv /\ [ServerNext]_serverVars => ListsInv'
<1> SUFFICES ASSUME Inv, PatientInv, NewcomerInv, ListsInv, [ServerNext]_serverVars,
                    OneAtATime, NoWrap'
             PROVE  InHand' /\ \A r \in Relays :
                        AheadOK(r)' /\ Ordered(subs'[r], updates'[r]) /\ LiveOK(r)'
  BY DEF ListsInv
<1>0. [Next]_vars
  BY HandshakeStep
<1>1. NoWrap
  <2>1. issued \in Nat /\ IdSpace \in Nat /\ (issued' = issued \/ issued' = issued + 1)
    BY <1>0, RelaysKeep, SizeAssumption DEF Inv, Shape, TaskTypeOK, Next, ServerStep, ClientStep, Lookup,
       DropById, DropByIp, Unsubscribe, Gather, Fetch, Subscribe, Announce, InsertById,
       InsertByIp, Accept, SynAck, SynAckFails
  <2> QED BY <2>1 DEF NoWrap
<1>2. /\ Patient /\ ListsTypeOK
      /\ \A r \in Relays : AheadOK(r) /\ Ordered(subs[r], updates[r]) /\ LiveOK(r)
  BY <1>1 DEF ListsInv, Patient, PatientInv, NewcomerInv
<1>3. InHand'
  BY <1>0, <1>2, InHandStep
<1> SUFFICES ASSUME NEW r \in Relays PROVE AheadOK(r)' /\ Ordered(subs'[r], updates'[r])
  <2>1. \A q \in Relays : LiveOK(q)'
    BY <1>2, LiveStep DEF Inv
  <2> QED BY <1>3, <2>1
<1>4. ASSUME NEW d \in Conns, Connects(d) \/ Handshakes(d)
      PROVE  AheadOK(r)' /\ Ordered(subs'[r], updates'[r])
  <2>1. subs' = subs /\ (ServerStep(d) \/ ClientStep(d))
    BY <1>4 DEF Connects, Handshakes, ClientStep
  <2>2. CASE Subscribe(d)
    BY <1>0, <1>2, <2>1, <2>2, SubscribeOrdered
  <2>3. CASE Unsubscribe(d)
    BY <1>0, <1>2, <2>1, <2>3, UnsubscribeOrdered
  <2>4. CASE ~Subscribe(d) /\ ~Unsubscribe(d)
    <3>1. updates' = updates
      BY <2>1, <2>4 DEF ServerStep, ClientStep, Lookup, DropById, DropByIp, Gather, Fetch,
         Announce, InsertById, InsertByIp, Accept, SynAck, SynAckFails, chans
    <3>2. DropByIp(d) \/ InsertByIp(d) \/ byIp' = byIp
      BY <2>1, <2>4 DEF ServerStep, ClientStep, Lookup, DropById, Gather, Fetch, Announce,
         InsertById, Accept, SynAck, SynAckFails, maps
    <3>3. \A c \in Conns : OnList(c, r)' <=> OnList(c, r)
      BY <1>2, <2>1, <2>4, <3>2, PlainStep, DropByIpOnList, InsertByIpOnList
    <3> QED BY <1>0, <1>2, <2>1, <3>1, <3>3, ExpectedKept, AheadKept
  <2> QED BY <2>2, <2>3, <2>4
<1>5. ASSUME NEW s \in Relays, UpdateList(s)
      PROVE  AheadOK(r)' /\ Ordered(subs'[r], updates'[r])
  BY <1>0, <1>2, <1>5, RelayOrdered
<1>6. CASE TellAll \/ (\E s \in Relays : TellOthers(s)) \/ AllQuiet \/ UNCHANGED serverVars
  <2>1. /\ subs' = subs /\ updates' = updates
        /\ UNCHANGED <<pc, addr, ident, known, utype, held, step, byIp>>
    BY <1>6 DEF TellAll, TellOthers, TakeEvent, AllQuiet, Quiet, serverVars, vars, task, maps, chans
  <2>2. \A c \in Conns : OnList(c, r)' <=> OnList(c, r)
    BY <2>1 DEF OnList, Reconnecting
  <2> QED BY <1>0, <1>2, <2>1, <2>2, ExpectedKept, AheadKept
<1> QED BY <1>4, <1>5, <1>6 DEF ServerNext

LEMMA ListsInit == ServerInit => ListsInv
<1> SUFFICES ASSUME ServerInit
             PROVE  InHand /\ \A r \in Relays :
                        AheadOK(r) /\ Ordered(subs[r], updates[r]) /\ LiveOK(r)
  BY DEF ListsInv
<1>1. InHand
  BY DEF ServerInit, Init, InHand
<1> SUFFICES ASSUME NEW r \in Relays
             PROVE  AheadOK(r) /\ Ordered(subs[r], updates[r]) /\ LiveOK(r)
  BY <1>1
<1>2. subs[r] = <<>> /\ lists[r] = <<>> /\ updates[r] = <<>>
  BY DEF ServerInit, Init
<1>3. Ahead(r) = <<>>
  <2>1. Len(<<>>) = 0
    OBVIOUS
  <2> QED BY <1>2, <2>1, AppliedSteps DEF Ahead
<1>4. \A c \in Conns : ~OnList(c, r)
  BY NoneAssumption DEF ServerInit, Init, OnList
<1>5. EntrySet(<<>>) = {} /\ Unique(<<>>) /\ Ordered(subs[r], <<>>)
  BY DEF EntrySet, Unique, Ordered
<1>6. \A S : <<>> \in Seq(S)
  OBVIOUS
<1> QED BY <1>2, <1>3, <1>4, <1>5, <1>6 DEF AheadOK, LiveOK

-----------------------------------------------------------------------------
(* Theorems. *)

THEOREM NewcomerInvariance == ServerSpec => []NewcomerInv
<1>1. ServerInit => NewcomerInv
  BY NewcomerInit
<1>2. Inv /\ NewcomerInv /\ [ServerNext]_serverVars => NewcomerInv'
  <2> SUFFICES ASSUME Inv, NewcomerInv, [ServerNext]_serverVars PROVE NewcomerInv'
    OBVIOUS
  <2>1. /\ Shape /\ TaskTypeOK /\ ChansTypeOK
        /\ ListsTypeOK /\ Queued /\ SubscribesOnce /\ AudienceOK
    BY DEF Inv, Shape, NewcomerInv
  <2>2. Queued'
    BY <2>1, HandshakeStep, QueuedStep
  <2> QED BY <2>1, <2>2, ListsTypeStep, SubscribesStep, AudienceStep, ToldStep DEF NewcomerInv
<1>3. ServerSpec => []Inv
  BY ServerIsHandshake, Invariance, PTL
<1> QED BY <1>1, <1>2, <1>3, PTL DEF ServerSpec

\* No announcement passes by a client that is on the event relay's list from the
\* newcomer's connection to its registration, whatever other handshakes, drops
\* and list updates happen in between.
THEOREM NewcomersAreTold == ServerSpec => []NewcomerIsTold
<1>1. NewcomerInv => NewcomerIsTold
  <2> SUFFICES ASSUME NewcomerInv, NEW c \in Conns, NEW d \in Conns, pc[d] = "done",
                      AtRest(EventRelay), c \in audience[d], c \in Listed(EventRelay),
                      c \notin gone[EventRelay]
               PROVE  ident[d] \in told[c]
    BY DEF NewcomerIsTold
  <2>1. ~Coming(ident[d])
    BY DEF AtRest, Coming
  <2> QED BY <2>1 DEF NewcomerInv, ToldOK, Announced
<1> QED BY <1>1, NewcomerInvariance, PTL

\* While ids do not wrap and an address runs one handshake at a time, every list
\* is on its way to the sessions the registries and the tasks account for.
THEOREM ListsInvariance == ServerSpec => []ListsInv
<1>1. ServerSpec => [](Inv /\ PatientInv /\ NewcomerInv)
  BY ServerIsHandshake, Invariance, PatientInvariance, NewcomerInvariance, PTL
<1> QED BY <1>1, ListsInit, ListsStep, PTL DEF ServerSpec

LEMMA HeadMeets ==
    ASSUME ListsInv, OneAtATime, NoWrap, NewcomerInv, ChansTypeOK,
           NEW r \in Relays, updates[r] # <<>>
    PROVE  LET msg == Head(updates[r]) IN
           Cardinality(EntriesFor(lists[r], msg.user)) =
               IF msg.op = "subscribe" \/ CutOff(r, msg.user) THEN 0 ELSE 1
<1> DEFINE msg == Head(updates[r])
<1>1. /\ Unique(subs[r]) /\ Unique(lists[r])
      /\ EntrySet(lists[r]) = {e \in EntrySet(subs[r]) : e.chan \notin gone[r]}
      /\ Ordered(subs[r], updates[r])
  BY DEF ListsInv, LiveOK
<1>2. msg = updates[r][1] /\ 1 \in DOMAIN updates[r]
  BY TailLeaves DEF ChansTypeOK
<1>3. Cardinality(EntriesFor(subs[r], msg.user)) = IF msg.op = "subscribe" THEN 0 ELSE 1
  <2>1. Applied(subs[r], updates[r], 1 - 1) = subs[r]
    BY AppliedSteps
  <2> QED BY <1>1, <1>2, <2>1 DEF Ordered
<1> HIDE DEF msg
<1>4. msg.op # "subscribe" <=> Holds(subs[r], msg.user)
  BY <1>1, <1>3, UsersOnce
<1>5. Holds(lists[r], msg.user) <=> Holds(subs[r], msg.user) /\ ~CutOff(r, msg.user)
  <2>1. CutOff(r, msg.user) <=>
            \E e \in EntrySet(subs[r]) : e.user = msg.user /\ e.chan \in gone[r]
    BY DEF CutOff, EntriesFor, EntrySet
  <2>2. \A e, f \in EntrySet(subs[r]) : e.user = f.user => e = f
    BY <1>1 DEF Unique, EntrySet
  <2>3. Holds(lists[r], msg.user) <=>
            \E e \in EntrySet(subs[r]) : e.user = msg.user /\ e.chan \notin gone[r]
    BY <1>1, InEntrySet
  <2>4. Holds(subs[r], msg.user) <=> \E e \in EntrySet(subs[r]) : e.user = msg.user
    BY InEntrySet
  <2> QED BY <2>1, <2>2, <2>3, <2>4
<1>6. Cardinality(EntriesFor(lists[r], msg.user)) = IF Holds(lists[r], msg.user) THEN 1 ELSE 0
  BY <1>1, UsersOnce
<1>7. Cardinality(EntriesFor(lists[r], msg.user)) =
          IF msg.op = "subscribe" \/ CutOff(r, msg.user) THEN 0 ELSE 1
  BY <1>4, <1>5, <1>6
<1> QED BY <1>7 DEF msg

\* A Subscribe reaches a list without its user; an Unsubscribe one that has it
\* once, or has lost it because of a dead queue and nothing else, however many
\* handshakes send to the relay: what Relay assumes.
THEOREM UpdatesMeetTheirList == ServerSpec => []UpdatesInOrder
<1>1. Inv /\ NewcomerInv /\ ListsInv => UpdatesInOrder
  BY HeadMeets DEF UpdatesInOrder, Inv
<1>2. ServerSpec => [](Inv /\ NewcomerInv)
  BY ServerIsHandshake, Invariance, NewcomerInvariance, PTL
<1> QED BY <1>1, <1>2, ListsInvariance, PTL

LEMMA ListsAtRest ==
    ASSUME Inv, ListsInv, OneAtATime, NoWrap, \A c \in Conns : ~Active(c),
           ListsTypeOK, NEW r \in Relays, updates[r] = <<>>
    PROVE  /\ Len(lists[r]) = Cardinality(Listed(r))
           /\ Listed(r) = Registered \ gone[r]
           /\ \A k \in DOMAIN lists[r] : lists[r][k].user = ident[lists[r][k].chan]
<1> DEFINE list == lists[r]
<1>1. Ahead(r) = subs[r]
  <2>1. Len(<<>>) = 0
    OBVIOUS
  <2> QED BY <2>1, AppliedSteps DEF Ahead
<1>2. /\ Unique(list) /\ list \in Seq(Entries)
      /\ EntrySet(list) = {e \in {Entry(ident[c], c) : c \in {x \in Conns : OnList(x, r)}} :
                              e.chan \notin gone[r]}
  BY <1>1 DEF ListsInv, AheadOK, LiveOK, ListsTypeOK
<1>3. \A c \in Conns : OnList(c, r) <=> \E a \in Addrs : byIp[a] = c
  BY DEF OnList, Active, Final
<1>4. \A k \in DOMAIN list :
         /\ list[k].chan \in Conns /\ OnList(list[k].chan, r) /\ list[k].chan \notin gone[r]
         /\ list[k].user = ident[list[k].chan]
  <2> TAKE k \in DOMAIN list
  <2>1. list[k] \in EntrySet(list)
    BY DEF EntrySet
  <2>2. PICK c \in Conns : OnList(c, r) /\ list[k] = Entry(ident[c], c) /\ list[k].chan \notin gone[r]
    BY <1>2, <2>1
  <2> QED BY <2>2 DEF Entry
<1>5. \A c \in Conns : OnList(c, r) /\ c \notin gone[r] => \E k \in DOMAIN list : list[k].chan = c
  <2> TAKE c \in Conns
  <2> HAVE OnList(c, r) /\ c \notin gone[r]
  <2>1. Entry(ident[c], c).chan = c
    BY DEF Entry
  <2>2. Entry(ident[c], c) \in EntrySet(list)
    BY <1>2, <2>1
  <2>3. PICK k \in DOMAIN list : list[k] = Entry(ident[c], c)
    BY <2>2 DEF EntrySet
  <2> QED BY <2>1, <2>3
<1>6. Listed(r) = Registered \ gone[r]
  <2>1. \A a \in Addrs : byIp[a] # None => byIp[a] \in Conns
    BY DEF Inv, Shape, MapsTypeOK
  <2>2. \A c : c \in Registered <=> c \in Conns /\ OnList(c, r)
    BY <1>3, <2>1, NoneAssumption DEF Registered
  <2>3. \A c : c \in Listed(r) <=> \E k \in DOMAIN list : list[k].chan = c
    BY DEF Listed
  <2> QED BY <1>4, <1>5, <2>2, <2>3
<1>7. Len(list) = Cardinality(Listed(r))
  <2> DEFINE f == [k \in DOMAIN list |-> list[k].chan]
             S == 1..Len(list)
  <2>1. \A j, k \in DOMAIN list : list[j].chan = list[k].chan => j = k
    BY <1>2, <1>4 DEF Unique
  <2>2. f \in Bijection(DOMAIN list, Listed(r))
    BY <2>1 DEF Bijection, Injection, Surjection, IsInjective, Listed
  <2>3. Len(list) \in Nat /\ DOMAIN list = 1..Len(list)
    BY <1>2
  <2>4. IsFiniteSet(1..Len(list)) /\ Cardinality(1..Len(list)) = Len(list)
    BY <2>3, FS_Interval
  <2> HIDE DEF f
  <2>5. ExistsBijection(1..Len(list), Listed(r))
    BY <2>2, <2>3 DEF ExistsBijection
  <2> QED BY ONLY <2>4, <2>5, FS_Bijection
<1> QED BY <1>4, <1>6, <1>7

\* When the handshakes are over and a relay has taken its updates, its list has
\* the registered sessions whose queue it has not found dead, each once and
\* under its own user.
THEOREM ListsFollowRegistries == ServerSpec => []ListsMatchRegistries
<1>1. Inv /\ ListsInv /\ ListsTypeOK => ListsMatchRegistries
  BY ListsAtRest DEF ListsMatchRegistries
<1>2. ServerSpec => []Inv
  BY ServerIsHandshake, Invariance, PTL
<1>3. NewcomerInv => ListsTypeOK
  BY DEF NewcomerInv
<1> QED BY <1>1, <1>2, <1>3, NewcomerInvariance, ListsInvariance, PTL
=============================================================================
