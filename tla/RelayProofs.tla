------------------------------ MODULE RelayProofs ------------------------------
(***************************************************************************)
(* Proofs about Relay, for any users, queues, capacities and number of     *)
(* messages: no user is on the list twice, no live subscriber is taken off *)
(* it by a clean-up, every subscriber is sent each message from its        *)
(* subscription on, once and in order, and so the relay implements         *)
(* Broadcast.                                                              *)
(***************************************************************************)
EXTENDS Relay, ListenerProofs, FiniteSetTheorems

Subscribes(i, u) == upd[i].op = "subscribe" /\ upd[i].user = u
Unsubscribes(i, u) == upd[i].op # "subscribe" /\ upd[i].user = u

\* Nothing is lost or overtaken on the way to the relay; bad_ids is empty but
\* while a message is multiplied.
Counted ==
    /\ taken <= published
    /\ main = [i \in 1..(published - taken) |-> taken + i]
    /\ cur = taken
    /\ phase = "send" => taken > 0 /\ idx <= Len(list) + 1
    /\ bad = <<>> \/ phase = "send"

\* A queue is created for one user and subscribed once.
SubscribedOnce ==
    /\ \A e \in EntrySet(list) : owner[e.chan] = e.user
    /\ \A k \in Chans : from[k] # None => owner[k] # None
    /\ \A i \in DOMAIN upd : upd[i].op = "subscribe" =>
          /\ upd[i].chan \in Chans /\ owner[upd[i].chan] = upd[i].user
          /\ from[upd[i].chan] = None /\ \A e \in EntrySet(list) : e.chan # upd[i].chan
          /\ \A j \in DOMAIN upd :
                upd[j].op = "subscribe" /\ upd[j].chan = upd[i].chan => j = i

\* Between two subscriptions of a user there is an Unsubscribe, on its way or
\* already applied.
After(i, u) == \E m \in DOMAIN upd : m > i /\ Unsubscribes(m, u)
Before(i, u) == \E m \in DOMAIN upd : m < i /\ Unsubscribes(m, u)
Between(i, j, u) == \E m \in DOMAIN upd : i < m /\ m < j /\ Unsubscribes(m, u)

AlternatesFor(u) ==
    /\ Holds(list, u) /\ reg[u] = None => \E m \in DOMAIN upd : Unsubscribes(m, u)
    /\ \A i \in DOMAIN upd : Subscribes(i, u) =>
          /\ Holds(list, u) => Before(i, u)
          /\ reg[u] = None => After(i, u)
          /\ \A j \in DOMAIN upd : j > i /\ Subscribes(j, u) => Between(i, j, u)

Alternates == \A u \in Users : AlternatesFor(u)

\* A send fails because the queue is dead, and a queue does not come to life.
BadAreDead ==
    \A i \in DOMAIN bad, e \in EntrySet(list) : e.user = bad[i] => ~open[e.chan]

\* How much has been offered to the p-th entry.
Offered(p) == IF phase = "send" /\ p >= idx THEN taken - 1 ELSE taken

ServedUpTo(k, n) ==
    /\ from[k] \in Nat /\ from[k] <= n
    /\ seen[k] = [i \in 1..(n - from[k]) |-> from[k] + i]

\* A live subscriber has been sent what was offered to it since it came.
Served ==
    /\ \A k \in Chans : from[k] = None => seen[k] = <<>>
    /\ \A p \in DOMAIN list :
          open[list[p].chan] => ServedUpTo(list[p].chan, Offered(p))

RelayInv ==
    /\ TypeOK
    /\ Counted
    /\ Unique(list)
    /\ SubscribedOnce
    /\ Alternates
    /\ BadAreDead
    /\ Served

-----------------------------------------------------------------------------
(* Types. *)

ListEntry == [user : Users, chan : Chans]
Update == [op : {"subscribe", "unsubscribe"}, user : Users, chan : Chans \union {None}]

\* What the update the relay takes does to the list.
LEMMA ListOfUpdate ==
    ASSUME RelayInv, TakeUpdate
    PROVE  LET msg == Head(upd) IN
           /\ msg = upd[1] /\ 1 \in DOMAIN upd /\ msg.user \in Users
           /\ list' \in Seq(ListEntry) /\ Unique(list')
           /\ msg.op = "subscribe" =>
                 /\ msg.chan \in Chans /\ ~Holds(list, msg.user)
                 /\ list' = Append(list, Entry(msg.user, msg.chan))
                 /\ EntrySet(list') = EntrySet(list) \union {Entry(msg.user, msg.chan)}
           /\ msg.op # "subscribe" =>
                 /\ EntrySet(list') \subseteq EntrySet(list)
                 /\ \A e \in EntrySet(list') : e.user # msg.user
                 /\ \A e \in EntrySet(list) : e.user # msg.user => e \in EntrySet(list')
<1> DEFINE msg == Head(upd)
<1>1. /\ upd \in Seq(Update) /\ upd # <<>> /\ list \in Seq(ListEntry) /\ Unique(list)
      /\ list' = Apply(list, msg)
  BY DEF TakeUpdate, RelayInv, TypeOK, ListEntry, Update
<1>2. msg = upd[1] /\ 1 \in DOMAIN upd /\ msg \in Update
  BY <1>1
<1>3. msg.user \in Users
  BY <1>2 DEF Update
<1>4. CASE msg.op = "subscribe"
  <2>1. msg.chan \in Chans /\ ~Holds(list, msg.user)
    <3>1. msg.chan \in Chans
      BY <1>2, <1>4 DEF RelayInv, SubscribedOnce
    <3>2. ~Before(1, msg.user)
      BY <1>1 DEF Before
    <3>3. Subscribes(1, msg.user)
      BY <1>2, <1>4 DEF Subscribes
    <3> QED BY <1>2, <1>3, <3>1, <3>2, <3>3 DEF RelayInv, Alternates, AlternatesFor
  <2>2. list' = Append(list, Entry(msg.user, msg.chan))
    BY <1>1, <1>4 DEF Apply
  <2>3. /\ Entry(msg.user, msg.chan) \in ListEntry
        /\ Entry(msg.user, msg.chan).user = msg.user
    BY <1>3, <2>1 DEF Entry, ListEntry
  <2> HIDE DEF msg
  <2>4. /\ EntrySet(list') = EntrySet(list) \union {Entry(msg.user, msg.chan)}
        /\ Unique(list') /\ list' \in Seq(ListEntry)
    BY <1>1, <2>1, <2>2, <2>3, AppendLeaves
  <2> QED BY <1>2, <1>3, <1>4, <2>1, <2>2, <2>4 DEF msg
<1>5. CASE msg.op # "subscribe"
  <2>1. list' = Remove(list, msg.user)
    BY <1>1, <1>5 DEF Apply
  <2> QED BY <1>1, <1>2, <1>3, <1>5, <2>1, RemoveLeaves
<1> QED BY <1>4, <1>5

\* What the clean-up does to the list.
LEMMA ListOfSendDone ==
    ASSUME RelayInv, SendDone
    PROVE  /\ list' \in Seq(ListEntry) /\ Unique(list')
           /\ EntrySet(list') \subseteq EntrySet(list)
           /\ \A e \in EntrySet(list) : open[e.chan] => e \in EntrySet(list')
<1> DEFINE Bad == {bad[i] : i \in DOMAIN bad}
<1>1. list \in Seq(ListEntry) /\ Unique(list) /\ list' = RemoveAll(list, bad)
  BY DEF SendDone, RelayInv, TypeOK, ListEntry
<1>2. bad \in Seq(Bad)
  BY DEF RelayInv, TypeOK
<1>3. \A e \in EntrySet(list) : open[e.chan] => e.user \notin Bad
  BY DEF RelayInv, BadAreDead
<1> HIDE DEF Bad
<1> QED BY <1>1, <1>2, <1>3, RemoveAllLeaves

\* The other steps leave the list as it is.
LEMMA ListKept ==
    ASSUME [Next]_vars, ~TakeUpdate, ~SendDone
    PROVE  list' = list
BY DEF Next, RelayStep, Publish, Register, Unregister, Receive, CloseReceiver, CloseInput,
   TakeMain, MainEnds, UpdatesEnd, SendNext, Quiet, vars, relay

\* The main channel holds what is published and not taken.
LEMMA MainHolds ==
    ASSUME RelayInv
    PROVE  /\ published \in Nat /\ taken \in Nat /\ MaxMsgs \in Nat
           /\ Len(main) = published - taken
           /\ main # <<>> => /\ taken < published
                             /\ Head(main) = taken + 1
                             /\ Tail(main) = [i \in 1..(published - (taken + 1)) |-> taken + 1 + i]
<1>1. /\ published \in Nat /\ taken \in Nat /\ MaxMsgs \in Nat /\ taken <= published
      /\ main = [i \in 1..(published - taken) |-> taken + i]
      /\ main \in Seq(1..MaxMsgs)
  BY SizeAssumption DEF RelayInv, TypeOK, Counted
<1>2. Len(main) = published - taken
  <2>1. DOMAIN main = 1..(published - taken) /\ published - taken \in Nat
    BY <1>1
  <2> QED BY <1>1, <2>1
<1>3. ASSUME main # <<>>
      PROVE  /\ taken < published
             /\ Head(main) = taken + 1
             /\ Tail(main) = [i \in 1..(published - (taken + 1)) |-> taken + 1 + i]
  <2>1. taken < published
    BY <1>1, <1>2, <1>3
  <2>2. Head(main) = taken + 1
    BY <1>1, <1>2, <2>1
  <2>3. Tail(main) = [i \in 1..(Len(main) - 1) |-> main[i + 1]]
    BY <1>1, <1>3
  <2>4. \A i \in 1..(published - (taken + 1)) : main[i + 1] = taken + 1 + i
    <3> TAKE i \in 1..(published - (taken + 1))
    <3>1. i + 1 \in 1..(published - taken)
      BY <1>1
    <3>2. main[i + 1] = taken + (i + 1)
      BY <1>1, <3>1
    <3> QED BY <1>1, <3>2
  <2>5. Len(main) - 1 = published - (taken + 1)
    BY <1>1, <1>2
  <2>6. Tail(main) = [i \in 1..(published - (taken + 1)) |-> taken + 1 + i]
    BY ONLY <2>3, <2>4, <2>5
  <2> QED BY <2>1, <2>2, <2>6
<1> QED BY <1>1, <1>2, <1>3

LEMMA TypeStep == RelayInv /\ [Next]_vars => TypeOK'
<1> SUFFICES ASSUME RelayInv, [Next]_vars PROVE TypeOK'
  OBVIOUS
<1>0. TypeOK
  BY DEF RelayInv
<1> USE SizeAssumption
<1>1. CASE Publish
  <2> DEFINE S == 1..MaxMsgs
  <2>1. /\ published \in Nat /\ MaxMsgs \in Nat /\ published < MaxMsgs
        /\ published' = published + 1
    BY <1>0, <1>1 DEF Publish, TypeOK
  <2>2. published + 1 \in S /\ published' \in 0..MaxMsgs
    BY ONLY <2>1
  <2>3. main \in Seq(S) /\ Len(main) < MainCap /\ main' = Append(main, published + 1)
    BY <1>0, <1>1 DEF Publish, MainRoom, TypeOK
  <2>4. MainCap \in Nat
    OBVIOUS
  <2> HIDE DEF S
  <2>5. main' \in Seq(S) /\ Len(main') <= MainCap
    BY ONLY <2>2, <2>3, <2>4
  <2>6. main' \in Seq(1..MaxMsgs)
    BY <2>5 DEF S
  <2> QED BY <1>0, <1>1, <2>2, <2>5, <2>6 DEF Publish, TypeOK, relay, clients, history
<1>2. ASSUME NEW u \in Users, NEW k \in Chans, Register(u, k) PROVE TypeOK'
  <2>1. Sub(u, k) \in Update
    BY DEF Sub, Update
  <2>2. upd' \in Seq(Update) /\ Len(upd') <= UpdCap
    BY <1>0, <1>2, <2>1 DEF Register, TypeOK, Update
  <2> QED BY <1>0, <1>2, <2>2 DEF Register, TypeOK, Update, relay, clients, history
<1>3. ASSUME NEW u \in Users, Unregister(u) PROVE TypeOK'
  <2>1. Unsub(u, None) \in Update
    BY DEF Unsub, Update
  <2>2. upd' \in Seq(Update) /\ Len(upd') <= UpdCap
    BY <1>0, <1>3, <2>1 DEF Unregister, TypeOK, Update
  <2> QED BY <1>0, <1>3, <2>2 DEF Unregister, TypeOK, Update, relay, clients, history
<1>4. ASSUME NEW k \in Chans, Receive(k) PROVE TypeOK'
  <2>1. /\ queue' = [queue EXCEPT ![k] = Tail(queue[k])] /\ queue[k] # <<>>
        /\ UNCHANGED <<inputs, relay, open, env, history>>
    BY <1>4 DEF Receive
  <2>2. queue[k] \in Seq(1..MaxMsgs) /\ Len(queue[k]) <= QueueCap
    BY <1>0 DEF TypeOK
  <2>3. Tail(queue[k]) \in Seq(1..MaxMsgs) /\ Len(Tail(queue[k])) <= QueueCap
    <3>1. /\ Tail(queue[k]) \in Seq(1..MaxMsgs) /\ Len(Tail(queue[k])) = Len(queue[k]) - 1
      BY <2>1, <2>2, TailLeaves
    <3>2. Len(queue[k]) \in Nat
      BY <2>2
    <3> QED BY <2>2, <3>1, <3>2
  <2> QED BY <1>0, <2>1, <2>3 DEF TypeOK, relay, inputs, env, history
<1>5. ASSUME NEW k \in Chans, CloseReceiver(k) PROVE TypeOK'
  <2>1. /\ queue' = [queue EXCEPT ![k] = <<>>] /\ open' = [open EXCEPT ![k] = FALSE]
        /\ UNCHANGED <<inputs, relay, env, history>>
    BY <1>5 DEF CloseReceiver
  <2>2. <<>> \in Seq(1..MaxMsgs) /\ Len(<<>>) <= QueueCap
    OBVIOUS
  <2>3. /\ queue' \in [Chans -> Seq(1..MaxMsgs)] /\ open' \in [Chans -> BOOLEAN]
        /\ \A x \in Chans : Len(queue'[x]) <= QueueCap
    BY <1>0, <2>1, <2>2 DEF TypeOK
  <2> QED BY <1>0, <2>1, <2>3 DEF TypeOK, relay, inputs, env, history
<1>6. CASE CloseInput
  BY <1>0, <1>6 DEF CloseInput, TypeOK, relay, clients, env, history
<1>7. CASE TakeMain
  <2>1. taken' \in 0..MaxMsgs
    BY <1>0, <1>7, MainHolds DEF TakeMain, TypeOK
  <2>2. main \in Seq(1..MaxMsgs) /\ main # <<>> /\ Len(main) <= MainCap
    BY <1>0, <1>7 DEF TakeMain, TypeOK
  <2>3. Head(main) \in 0..MaxMsgs /\ Tail(main) \in Seq(1..MaxMsgs) /\ Len(Tail(main)) <= MainCap
    BY <2>2
  <2>4. /\ cur' \in 0..MaxMsgs /\ main' \in Seq(1..MaxMsgs) /\ Len(main') <= MainCap
        /\ idx' = 1 /\ phase' = "send"
        /\ UNCHANGED <<upd, mainOpen, updOpen, bad, list, queue, open, owner, reg, published,
                       from, seen>>
    BY <1>7, <2>3 DEF TakeMain, clients, env
  <2> QED BY SMTT(20), <1>0, <2>1, <2>4 DEF TypeOK
<1>8. CASE TakeUpdate
  <2>1. upd' \in Seq(Update) /\ Len(upd') <= UpdCap
    BY <1>0, <1>8 DEF TakeUpdate, TypeOK, Update
  <2>2. list' \in Seq(ListEntry)
    BY <1>8, ListOfUpdate
  <2>3. from' \in [Chans -> (0..MaxMsgs) \union {None}]
    BY <1>0, <1>8 DEF TakeUpdate, TypeOK
  <2> QED BY <1>0, <1>8, <2>1, <2>2, <2>3 DEF TakeUpdate, TypeOK, Update, ListEntry, clients, env
<1>9. CASE SendNext
  <2>1. PICK e \in ListEntry : e = list[idx]
    <3>1. list \in Seq(ListEntry) /\ idx \in Nat \ {0} /\ idx <= Len(list)
      BY <1>0, <1>9 DEF SendNext, TypeOK, ListEntry
    <3> QED BY <3>1
  <2>2. e.chan \in Chans /\ e.user \in Users
    BY DEF ListEntry
  <2>3. cur \in 1..MaxMsgs
    <3>1. cur = taken /\ taken \in 0..MaxMsgs /\ taken > 0
      BY <1>0, <1>9 DEF RelayInv, Counted, TypeOK, SendNext
    <3> QED BY <3>1
  <2>4. bad' \in Seq(Users)
    <3>1. bad \in Seq(Users) /\ (bad' = bad \/ bad' = Append(bad, e.user))
      BY <1>0, <1>9, <2>1 DEF SendNext, TypeOK
    <3> QED BY <2>2, <3>1
  <2>5. /\ queue' \in [Chans -> Seq(1..MaxMsgs)] /\ seen' \in [Chans -> Seq(1..MaxMsgs)]
        /\ \A k \in Chans : Len(queue'[k]) <= QueueCap
    <3> DEFINE k == e.chan
    <3>1. CASE open[k]
      <4>1. /\ queue' = [queue EXCEPT ![k] = Append(@, cur)] /\ Len(queue[k]) < QueueCap
            /\ seen' = [seen EXCEPT ![k] = Append(@, cur)]
        BY <1>9, <2>1, <3>1 DEF SendNext
      <4>2. /\ Append(queue[k], cur) \in Seq(1..MaxMsgs)
            /\ Append(seen[k], cur) \in Seq(1..MaxMsgs)
            /\ Len(Append(queue[k], cur)) <= QueueCap
        <5>1. queue[k] \in Seq(1..MaxMsgs) /\ seen[k] \in Seq(1..MaxMsgs)
          BY <1>0, <2>2 DEF TypeOK
        <5> QED BY <2>3, <4>1, <5>1
      <4> QED BY <1>0, <2>2, <4>1, <4>2 DEF TypeOK
    <3>2. CASE ~open[k]
      BY <1>0, <1>9, <2>1, <3>2 DEF SendNext, TypeOK
    <3> QED BY <3>1, <3>2
  <2>6. idx' \in Nat \ {0}
    <3>1. idx' = idx + 1 /\ idx \in Nat \ {0}
      BY <1>0, <1>9 DEF SendNext, TypeOK
    <3> QED BY ONLY <3>1
  <2>7. UNCHANGED <<main, upd, mainOpen, updOpen, phase, cur, list, open, owner, reg, published,
                    taken, from>>
    BY <1>9 DEF SendNext, inputs, env
  <2> QED BY <1>0, <2>4, <2>5, <2>6, <2>7 DEF TypeOK
<1>10. CASE SendDone
  BY SMTT(20), <1>0, <1>10, ListOfSendDone DEF SendDone, TypeOK, ListEntry, inputs, clients, env, history
<1>11. CASE MainEnds \/ UpdatesEnd \/ Quiet \/ UNCHANGED vars
  BY <1>0, <1>11 DEF MainEnds, UpdatesEnd, Quiet, TypeOK, vars, relay, inputs, clients, env, history
<1> QED BY <1>1, <1>2, <1>3, <1>4, <1>5, <1>6, <1>7, <1>8, <1>9, <1>10, <1>11 DEF Next, RelayStep

LEMMA CountedStep == RelayInv /\ [Next]_vars => Counted'
<1> SUFFICES ASSUME RelayInv, [Next]_vars PROVE Counted'
  OBVIOUS
<1>0. TypeOK /\ Counted
  BY DEF RelayInv
<1>1. CASE Publish
  <2>1. /\ main' = Append(main, published + 1) /\ published' = published + 1
        /\ UNCHANGED <<taken, cur, idx, list, phase, bad>>
    BY <1>1 DEF Publish, relay, history
  <2>2. Append(main, published + 1) = [i \in 1..(published + 1 - taken) |-> taken + i]
    <3>1. /\ main = [i \in 1..(published - taken) |-> taken + i]
          /\ Len(main) = published - taken /\ published \in Nat /\ taken \in Nat
          /\ taken <= published
      BY <1>0, MainHolds DEF Counted
    <3>2. Append(main, published + 1)
             = [i \in 1..(Len(main) + 1) |-> IF i = Len(main) + 1 THEN published + 1 ELSE main[i]]
      BY <1>0 DEF TypeOK
    <3> QED BY <3>1, <3>2
  <2> QED BY SMTT(20), <1>0, <2>1, <2>2, MainHolds DEF Counted
<1>2. CASE TakeMain
  <2>1. /\ main # <<>> /\ main' = Tail(main) /\ taken' = taken + 1 /\ published' = published
        /\ cur' = Head(main) /\ idx' = 1 /\ bad' = bad /\ list' = list /\ phase = "select"
    BY <1>2 DEF TakeMain, env
  <2> QED BY SMTT(20), <1>0, <2>1, MainHolds DEF Counted, TypeOK
<1>3. CASE SendNext
  <2>1. /\ phase = "send" /\ idx <= Len(list) /\ idx' = idx + 1
        /\ UNCHANGED <<main, published, taken, cur, list, phase>>
    BY <1>3 DEF SendNext, inputs, env
  <2>2. idx \in Nat /\ Len(list) \in Nat
    BY <1>0 DEF TypeOK
  <2>3. idx' <= Len(list') + 1
    BY ONLY <2>1, <2>2
  <2> QED BY <1>0, <2>1, <2>3 DEF Counted
<1>4. CASE SendDone
  BY <1>0, <1>4 DEF SendDone, Counted, inputs, env, history
<1>5. CASE TakeUpdate
  BY <1>0, <1>5 DEF TakeUpdate, Counted, env
<1>6. CASE MainEnds \/ UpdatesEnd \/ Quiet \/ UNCHANGED vars
  BY <1>0, <1>6 DEF MainEnds, UpdatesEnd, Quiet, Counted, vars, relay, inputs, env, history
<1>7. CASE \/ \E u \in Users : Unregister(u) \/ \E k \in Chans : Register(u, k)
           \/ \E k \in Chans : Receive(k) \/ CloseReceiver(k)
           \/ CloseInput
  BY <1>0, <1>7 DEF Unregister, Register, Receive, CloseReceiver, CloseInput, Counted, relay,
     inputs, env, history
<1> QED BY <1>1, <1>2, <1>3, <1>4, <1>5, <1>6, <1>7 DEF Next, RelayStep

-----------------------------------------------------------------------------
(* The list and the updates on their way to it. *)

LEMMA UniqueStep == RelayInv /\ [Next]_vars => Unique(list)'
BY ListOfUpdate, ListOfSendDone, ListKept DEF RelayInv, Unique

LEMMA SubscribedMeans ==
    /\ \A k : Subscribed(k) <=> \E e \in EntrySet(list) : e.chan = k
    /\ \A k : Subscribed(k)' <=> \E e \in EntrySet(list') : e.chan = k
<1>1. \A l, k : EntriesOf(l, k) # {} <=> \E e \in EntrySet(l) : e.chan = k
  BY InEntrySet
<1> QED BY <1>1 DEF Subscribed

\* What the type invariant says of the entries and of the updates.
LEMMA TypesOfParts ==
    ASSUME TypeOK
    PROVE  /\ \A e \in EntrySet(list) : e \in ListEntry /\ e.user \in Users /\ e.chan \in Chans
           /\ upd \in Seq(Update)
           /\ \A i \in DOMAIN upd : upd[i] \in Update /\ upd[i].user \in Users
           /\ None \notin Users /\ None \notin Chans
<1>1. list \in Seq(ListEntry) /\ upd \in Seq(Update)
  BY DEF TypeOK, ListEntry, Update
<1>2. \A e \in EntrySet(list) : e \in ListEntry
  BY <1>1, Elements DEF EntrySet
<1>3. \A i \in DOMAIN upd : upd[i] \in Update
  BY <1>1, Elements
<1> QED BY <1>1, <1>2, <1>3, SizeAssumption DEF ListEntry, Update

\* The steps that touch neither the list nor the updates.
LEMMA OthersKeep ==
    ASSUME [Next]_vars, ~TakeUpdate, ~SendDone,
           ~ \E u \in Users : Unregister(u) \/ \E k \in Chans : Register(u, k)
    PROVE  UNCHANGED <<list, upd, owner, reg, from>>
BY DEF Next, RelayStep, Publish, Receive, CloseReceiver, CloseInput,
   TakeMain, MainEnds, UpdatesEnd, SendNext, Quiet, vars, relay, inputs, env, history

LEMMA SubscribedOnceStep == RelayInv /\ [Next]_vars => SubscribedOnce'
<1> SUFFICES ASSUME RelayInv, [Next]_vars PROVE SubscribedOnce'
  OBVIOUS
<1>0. TypeOK /\ SubscribedOnce
  BY DEF RelayInv
<1> USE SubscribedMeans
<1>1. ASSUME NEW u \in Users, NEW k \in Chans, Register(u, k) PROVE SubscribedOnce'
  <2>1. /\ upd' = Append(upd, Sub(u, k)) /\ owner' = [owner EXCEPT ![k] = u]
        /\ owner[k] = None /\ UNCHANGED <<list, from>>
    BY <1>1 DEF Register, InOrder, relay, history
  <2>2. \A x \in Chans : owner'[x] = IF x = k THEN u ELSE owner[x]
    BY <1>0, <2>1 DEF TypeOK
  <2>3. \A e \in EntrySet(list) : e.chan # k /\ owner'[e.chan] = e.user
    BY <1>0, <2>1, <2>2, TypesOfParts DEF SubscribedOnce
  <2>4. from[k] = None
    BY <1>0, <2>1 DEF SubscribedOnce
  <2>5. \A i \in DOMAIN upd : upd[i].op = "subscribe" =>
           upd[i].chan # k /\ owner'[upd[i].chan] = upd[i].user
    BY <1>0, <2>1, <2>2, TypesOfParts DEF SubscribedOnce
  <2>6. \A i \in DOMAIN upd' :
           \/ i \in DOMAIN upd /\ upd'[i] = upd[i]
           \/ i = Len(upd) + 1 /\ upd'[i] = Sub(u, k)
    <3>1. upd \in Seq(Update)
      BY <1>0, TypesOfParts
    <3> QED BY <2>1, <3>1, AppendEnds
  <2>7. Sub(u, k).chan = k /\ Sub(u, k).user = u
    BY DEF Sub
  <2>8. \A x \in Chans : from'[x] # None => owner'[x] # None
    BY <1>0, <2>1, <2>2, TypesOfParts DEF SubscribedOnce
  <2>9. ASSUME NEW i \in DOMAIN upd', upd'[i].op = "subscribe"
        PROVE  /\ upd'[i].chan \in Chans /\ owner'[upd'[i].chan] = upd'[i].user
               /\ from'[upd'[i].chan] = None
               /\ \A e \in EntrySet(list') : e.chan # upd'[i].chan
               /\ \A j \in DOMAIN upd' :
                     upd'[j].op = "subscribe" /\ upd'[j].chan = upd'[i].chan => j = i
    BY <1>0, <2>1, <2>2, <2>3, <2>4, <2>5, <2>6, <2>7, <2>9 DEF SubscribedOnce
  <2> QED BY <2>1, <2>3, <2>8, <2>9 DEF SubscribedOnce
<1>2. ASSUME NEW u \in Users, Unregister(u) PROVE SubscribedOnce'
  <2>1. upd' = Append(upd, Unsub(u, None)) /\ UNCHANGED <<list, from, owner>>
    BY <1>2 DEF Unregister, relay, history
  <2>2. \A i \in DOMAIN upd' : upd'[i].op = "subscribe" => i \in DOMAIN upd /\ upd'[i] = upd[i]
    BY <1>0, <2>1, TypesOfParts DEF Unsub
  <2> QED BY <1>0, <2>1, <2>2 DEF SubscribedOnce
<1>3. CASE TakeUpdate
  <2> DEFINE msg == Head(upd)
  <2>1. upd' = Tail(upd) /\ upd # <<>> /\ owner' = owner
    BY <1>3 DEF TakeUpdate, env
  <2>2. /\ \A i \in DOMAIN upd' : /\ i \in Nat \ {0} /\ i + 1 \in DOMAIN upd
                                  /\ upd'[i] = upd[i + 1]
        /\ msg = upd[1] /\ 1 \in DOMAIN upd
    BY <1>0, <2>1, TypesOfParts, TailLeaves
  <2>3. CASE msg.op = "subscribe"
    <3>1. /\ EntrySet(list') = EntrySet(list) \union {Entry(msg.user, msg.chan)}
          /\ msg.chan \in Chans
      BY <1>3, <2>3, ListOfUpdate
    <3>2. \A x \in Chans : x # msg.chan => from'[x] = from[x]
      BY <1>0, <1>3, <3>1 DEF TakeUpdate, TypeOK
    <3>3. \A i \in DOMAIN upd' : upd'[i].op = "subscribe" => upd'[i].chan # msg.chan
      BY <1>0, <2>2, <2>3 DEF SubscribedOnce
    <3>4. owner[msg.chan] = msg.user /\ msg.user # None
      BY <1>0, <2>2, <2>3, TypesOfParts DEF SubscribedOnce
    <3>5. /\ Entry(msg.user, msg.chan).user = msg.user
          /\ Entry(msg.user, msg.chan).chan = msg.chan
      BY DEF Entry
    <3> HIDE DEF msg
    <3>6. \A e \in EntrySet(list') : owner'[e.chan] = e.user
      BY <1>0, <2>1, <3>1, <3>4, <3>5 DEF SubscribedOnce
    <3>7. \A x \in Chans : from'[x] # None => owner'[x] # None
      BY <1>0, <2>1, <3>2, <3>4 DEF SubscribedOnce
    <3>8. ASSUME NEW i \in DOMAIN upd', upd'[i].op = "subscribe"
          PROVE  /\ upd'[i].chan \in Chans /\ owner'[upd'[i].chan] = upd'[i].user
                 /\ from'[upd'[i].chan] = None
                 /\ \A e \in EntrySet(list') : e.chan # upd'[i].chan
                 /\ \A j \in DOMAIN upd' :
                       upd'[j].op = "subscribe" /\ upd'[j].chan = upd'[i].chan => j = i
      BY <1>0, <2>1, <2>2, <3>1, <3>2, <3>3, <3>5, <3>8 DEF SubscribedOnce
    <3> QED BY <3>6, <3>7, <3>8 DEF SubscribedOnce
  <2>4. CASE msg.op # "subscribe"
    <3>1. EntrySet(list') \subseteq EntrySet(list)
      BY <1>3, <2>4, ListOfUpdate
    <3>2. from' = from
      BY <1>3, <2>4 DEF TakeUpdate
    <3> QED BY <1>0, <2>1, <2>2, <3>1, <3>2 DEF SubscribedOnce
  <2> QED BY <2>3, <2>4
<1>4. CASE SendDone
  <2>1. EntrySet(list') \subseteq EntrySet(list) /\ UNCHANGED <<upd, owner, from>>
    BY <1>4, ListOfSendDone DEF SendDone, inputs, env, history
  <2> QED BY <1>0, <2>1 DEF SubscribedOnce
<1>5. CASE UNCHANGED <<list, upd, owner, from>>
  BY <1>0, <1>5 DEF SubscribedOnce
<1> QED BY <1>1, <1>2, <1>3, <1>4, <1>5, OthersKeep

\* A message that joins the queue of updates comes after the others; the relay
\* takes the one that came first.
LEMMA UpdateJoins ==
    ASSUME TypeOK, NEW msg, upd' = Append(upd, msg), NEW v
    PROVE  \E n \in DOMAIN upd' :
           /\ Subscribes(n, v)' <=> msg.op = "subscribe" /\ msg.user = v
           /\ Unsubscribes(n, v)' <=> msg.op # "subscribe" /\ msg.user = v
           /\ \A i \in DOMAIN upd' : i \in DOMAIN upd \/ i = n
           /\ \A i \in DOMAIN upd :
                 /\ i \in DOMAIN upd' /\ i \in Nat /\ i < n /\ ~(i > n) /\ i # n
                 /\ Subscribes(i, v)' <=> Subscribes(i, v)
                 /\ Unsubscribes(i, v)' <=> Unsubscribes(i, v)
<1>1. upd \in Seq(Update)
  BY TypesOfParts
<1>2. /\ Len(upd) + 1 \in DOMAIN upd' /\ upd'[Len(upd) + 1] = msg
      /\ \A i \in DOMAIN upd' : i \in DOMAIN upd \/ i = Len(upd) + 1
      /\ \A i \in DOMAIN upd : /\ i \in DOMAIN upd' /\ upd'[i] = upd[i] /\ i \in Nat
                               /\ i < Len(upd) + 1 /\ i # Len(upd) + 1
      /\ Len(upd) \in Nat
  BY <1>1, AppendEnds
<1>3. PICK n \in DOMAIN upd' : n = Len(upd) + 1
  BY <1>2
<1>4. \A i \in DOMAIN upd : i < n /\ ~(i > n) /\ i # n
  BY <1>2, <1>3
<1> QED BY <1>2, <1>3, <1>4 DEF Subscribes, Unsubscribes

LEMMA UpdateLeaves ==
    ASSUME TypeOK, upd # <<>>, upd' = Tail(upd), NEW v
    PROVE  /\ 1 \in DOMAIN upd /\ Head(upd) = upd[1]
           /\ \A i \in DOMAIN upd' :
                 /\ i \in Nat \ {0} /\ i + 1 \in DOMAIN upd
                 /\ Subscribes(i, v)' <=> Subscribes(i + 1, v)
                 /\ Unsubscribes(i, v)' <=> Unsubscribes(i + 1, v)
           /\ \A i \in DOMAIN upd : i \in Nat \ {0} /\ (i # 1 => i - 1 \in DOMAIN upd')
<1>1. upd \in Seq(Update)
  BY TypesOfParts
<1>2. /\ 1 \in DOMAIN upd /\ Head(upd) = upd[1]
      /\ \A i \in DOMAIN upd' :
            i \in Nat \ {0} /\ i + 1 \in DOMAIN upd /\ upd'[i] = upd[i + 1]
      /\ \A i \in DOMAIN upd : i \in Nat \ {0} /\ (i # 1 => i - 1 \in DOMAIN upd')
  BY <1>1, TailLeaves
<1> QED BY <1>2 DEF Subscribes, Unsubscribes

LEMMA AlternatesStep == RelayInv /\ [Next]_vars => Alternates'
<1> SUFFICES ASSUME RelayInv, [Next]_vars, NEW v \in Users PROVE AlternatesFor(v)'
  BY DEF Alternates
<1>0. TypeOK /\ None \notin Chans
  BY TypesOfParts DEF RelayInv
<1>1. AlternatesFor(v)
  BY DEF RelayInv, Alternates
<1>2. ASSUME NEW u \in Users, NEW k \in Chans, Register(u, k) PROVE AlternatesFor(v)'
  <2> DEFINE msg == Sub(u, k)
  <2>1. /\ upd' = Append(upd, msg) /\ list' = list /\ reg[u] = None
        /\ reg'[v] = IF v = u THEN k ELSE reg[v]
    BY <1>0, <1>2 DEF Register, relay, TypeOK
  <2>2. msg.op = "subscribe" /\ msg.user = u
    BY DEF Sub
  <2> HIDE DEF msg
  <2>3. PICK n \in DOMAIN upd' :
           /\ Subscribes(n, v)' <=> u = v
           /\ ~Unsubscribes(n, v)'
           /\ \A i \in DOMAIN upd' : i \in DOMAIN upd \/ i = n
           /\ \A i \in DOMAIN upd :
                 /\ i \in DOMAIN upd' /\ i \in Nat /\ i < n /\ ~(i > n) /\ i # n
                 /\ Subscribes(i, v)' <=> Subscribes(i, v)
                 /\ Unsubscribes(i, v)' <=> Unsubscribes(i, v)
    BY ZenonT(40), <1>0, <2>1, <2>2, UpdateJoins
  <2> QED BY <1>0, <1>1, <2>1, <2>3 DEF AlternatesFor, After, Before, Between
<1>3. ASSUME NEW u \in Users, Unregister(u) PROVE AlternatesFor(v)'
  <2> DEFINE msg == Unsub(u, None)
  <2>1. /\ upd' = Append(upd, msg) /\ list' = list
        /\ v # u => reg'[v] = reg[v]
    BY <1>0, <1>3 DEF Unregister, relay, TypeOK
  <2>2. msg.op # "subscribe" /\ msg.user = u
    BY DEF Unsub
  <2> HIDE DEF msg
  <2>3. PICK n \in DOMAIN upd' :
           /\ ~Subscribes(n, v)'
           /\ Unsubscribes(n, v)' <=> u = v
           /\ \A i \in DOMAIN upd' : i \in DOMAIN upd \/ i = n
           /\ \A i \in DOMAIN upd :
                 /\ i \in DOMAIN upd' /\ i \in Nat /\ i < n /\ ~(i > n) /\ i # n
                 /\ Subscribes(i, v)' <=> Subscribes(i, v)
                 /\ Unsubscribes(i, v)' <=> Unsubscribes(i, v)
    BY <1>0, <2>1, <2>2, UpdateJoins
  <2>4. \A i \in DOMAIN upd : n > i
    BY <2>3
  <2> QED BY <1>0, <1>1, <2>1, <2>3, <2>4 DEF AlternatesFor, After, Before, Between
<1>4. CASE TakeUpdate
  <2> DEFINE msg == Head(upd)
  <2>1. upd # <<>> /\ upd' = Tail(upd) /\ reg' = reg
    BY <1>4 DEF TakeUpdate, env
  <2>2. /\ msg.op = "subscribe" => (Holds(list, v)' => Holds(list, v) \/ msg.user = v)
        /\ msg.op # "subscribe" => (Holds(list, v)' => Holds(list, v) /\ msg.user # v)
    BY <1>4, ListOfUpdate, InEntrySet DEF Entry
  <2>3. /\ Subscribes(1, v) <=> msg.op = "subscribe" /\ msg.user = v
        /\ Unsubscribes(1, v) <=> msg.op # "subscribe" /\ msg.user = v
    BY <1>0, <2>1, UpdateLeaves DEF Subscribes, Unsubscribes
  <2>4. /\ 1 \in DOMAIN upd
        /\ \A i \in DOMAIN upd' :
              /\ i \in Nat \ {0} /\ i + 1 \in DOMAIN upd
              /\ Subscribes(i, v)' <=> Subscribes(i + 1, v)
              /\ Unsubscribes(i, v)' <=> Unsubscribes(i + 1, v)
        /\ \A i \in DOMAIN upd : i \in Nat \ {0} /\ (i # 1 => i - 1 \in DOMAIN upd')
    BY <1>0, <2>1, UpdateLeaves
  <2> HIDE DEF msg
  <2>5. \A m \in DOMAIN upd : m # 1 /\ Unsubscribes(m, v) =>
           m - 1 \in DOMAIN upd' /\ Unsubscribes(m - 1, v)'
    BY <2>4
  <2>6. ASSUME NEW i \in DOMAIN upd', Subscribes(i, v)' PROVE After(i, v)' <=> After(i + 1, v)
    BY <2>4, <2>5 DEF After
  <2>7. ASSUME NEW i \in DOMAIN upd', Subscribes(i, v)', Holds(list, v)' PROVE Before(i, v)'
    <3>1. CASE msg.user = v
      <4>1. Subscribes(1, v) /\ i + 1 > 1
        BY <2>2, <2>3, <2>4, <2>7, <3>1
      <4>2. Between(1, i + 1, v)
        BY <1>1, <2>4, <2>7, <4>1 DEF AlternatesFor
      <4> QED BY <2>4, <2>5, <4>2 DEF Before, Between
    <3>2. CASE msg.user # v
      <4>1. Before(i + 1, v)
        BY <1>1, <2>2, <2>4, <2>7, <3>2 DEF AlternatesFor
      <4> QED BY <2>3, <2>4, <2>5, <3>2, <4>1 DEF Before
    <3> QED BY <3>1, <3>2
  <2>8. ASSUME NEW i \in DOMAIN upd', Subscribes(i, v)', reg'[v] = None PROVE After(i, v)'
    BY <1>1, <2>1, <2>4, <2>6, <2>8 DEF AlternatesFor
  <2>9. ASSUME NEW i \in DOMAIN upd', Subscribes(i, v)',
               NEW j \in DOMAIN upd', j > i, Subscribes(j, v)'
        PROVE  Between(i, j, v)'
    <3>1. Between(i + 1, j + 1, v)
      BY <1>1, <2>4, <2>9 DEF AlternatesFor
    <3> QED BY <2>4, <2>5, <3>1 DEF Between
  <2>10. ASSUME Holds(list, v)', reg'[v] = None
         PROVE  \E m \in DOMAIN upd' : Unsubscribes(m, v)'
    <3>1. CASE msg.user = v
      <4>1. After(1, v)
        BY <1>1, <2>1, <2>2, <2>3, <2>4, <2>10, <3>1 DEF AlternatesFor
      <4> QED BY <2>4, <2>5, <4>1 DEF After
    <3>2. CASE msg.user # v
      BY <1>1, <2>1, <2>2, <2>3, <2>5, <2>10, <3>2 DEF AlternatesFor
    <3> QED BY <3>1, <3>2
  <2> QED BY <2>7, <2>8, <2>9, <2>10 DEF AlternatesFor
<1>5. CASE SendDone \/ UNCHANGED <<list, upd, reg>>
  <2>1. UNCHANGED <<upd, reg>> /\ (Holds(list, v)' => Holds(list, v))
    BY <1>5, ListOfSendDone, InEntrySet DEF SendDone, inputs, env
  <2> QED BY <1>1, <2>1 DEF AlternatesFor, Subscribes, Unsubscribes, After, Before, Between
<1> QED BY <1>2, <1>3, <1>4, <1>5, OthersKeep

-----------------------------------------------------------------------------
(* What the subscribers are sent. *)

\* A queue is on the list once.
LEMMA OneEntryPerQueue ==
    ASSUME RelayInv, NEW p \in DOMAIN list, NEW q \in DOMAIN list,
           list[p].chan = list[q].chan
    PROVE  p = q
<1>1. list[p] \in EntrySet(list) /\ list[q] \in EntrySet(list)
  BY InEntrySet
<1> QED BY <1>1 DEF RelayInv, SubscribedOnce, Unique

LEMMA BadAreDeadStep == RelayInv /\ [Next]_vars => BadAreDead'
<1> SUFFICES ASSUME RelayInv, [Next]_vars PROVE BadAreDead'
  OBVIOUS
<1>0. TypeOK /\ Unique(list) /\ BadAreDead /\ (phase # "send" => bad = <<>>)
  BY DEF RelayInv, Counted
<1>1. CASE SendNext
  <2>1. idx \in DOMAIN list
    BY SMTT(20), <1>0, <1>1 DEF SendNext, TypeOK
  <2>2. \A e \in EntrySet(list) : e.user = list[idx].user => e = list[idx]
    BY <1>0, <2>1 DEF EntrySet, Unique
  <2>3. list' = list /\ open' = open
    BY <1>1 DEF SendNext
  <2>4. CASE bad' = bad
    BY <1>0, <2>3, <2>4 DEF BadAreDead
  <2>5. CASE ~open[list[idx].chan] /\ bad' = Append(bad, list[idx].user)
    <3>1. bad \in Seq(Users)
      BY <1>0 DEF TypeOK
    <3>2. \A i \in DOMAIN bad' :
             \/ i \in DOMAIN bad /\ bad'[i] = bad[i]
             \/ bad'[i] = list[idx].user
      BY <2>5, <3>1, AppendEnds
    <3> QED BY <1>0, <2>2, <2>3, <2>5, <3>2 DEF BadAreDead
  <2> QED BY <1>1, <2>4, <2>5 DEF SendNext
<1>2. CASE SendDone \/ TakeUpdate
  <2>1. bad' = <<>>
    BY <1>0, <1>2 DEF SendDone, TakeUpdate
  <2> QED BY <2>1 DEF BadAreDead
<1>3. CASE ~SendNext /\ ~SendDone /\ ~TakeUpdate
  <2>1. list' = list
    BY <1>3, ListKept
  <2>2. bad' = bad
    BY <1>3 DEF Next, RelayStep, Publish, Register, Unregister, Receive, CloseReceiver,
       CloseInput, TakeMain, MainEnds, UpdatesEnd, Quiet, vars, relay
  <2>3. \A k \in Chans : open'[k] => open[k]
    BY <1>0, <1>3 DEF Next, RelayStep, Publish, Register, Unregister, Receive, CloseReceiver,
       CloseInput, TakeMain, MainEnds, UpdatesEnd, Quiet, vars, clients, TypeOK
  <2>4. \A e \in EntrySet(list) : e.chan \in Chans
    BY <1>0, TypesOfParts
  <2> QED BY <1>0, <2>1, <2>2, <2>3, <2>4 DEF BadAreDead
<1> QED BY <1>1, <1>2, <1>3

\* At its select! the relay has served every live subscriber.
LEMMA AllServed ==
    ASSUME RelayInv, phase # "send" \/ idx = Len(list) + 1,
           NEW e \in EntrySet(list), open[e.chan]
    PROVE  ServedUpTo(e.chan, taken)
<1>1. PICK p \in DOMAIN list : e = list[p]
  BY DEF EntrySet
<1>2. ServedUpTo(e.chan, Offered(p))
  BY <1>1 DEF RelayInv, Served
<1>3. Offered(p) = taken
  <2>1. p \in 1..Len(list) /\ Len(list) \in Nat
    BY SMTT(20) DEF RelayInv, TypeOK
  <2>2. idx = Len(list) + 1 => ~(p >= idx)
    BY <2>1
  <2> QED BY <2>2 DEF Offered
<1> QED BY <1>2, <1>3

LEMMA ServedStep == RelayInv /\ [Next]_vars => Served'
<1> SUFFICES ASSUME RelayInv, [Next]_vars PROVE Served'
  OBVIOUS
<1>0. /\ TypeOK /\ Served /\ SubscribedOnce
      /\ taken \in Nat /\ cur = taken /\ (phase = "send" => taken > 0)
      /\ idx \in Nat
      /\ None \notin Nat
      /\ list \in Seq(ListEntry)
      /\ \A p \in DOMAIN list : list[p].chan \in Chans /\ list[p].user \in Users /\ p \in Nat \ {0}
  <2>1. list \in Seq(ListEntry)
    BY DEF RelayInv, TypeOK, ListEntry
  <2>2. \A p \in DOMAIN list : list[p] \in ListEntry /\ p \in Nat \ {0}
    BY <2>1
  <2> QED BY SMTT(20), <2>1, <2>2, SizeAssumption DEF RelayInv, TypeOK, Counted, ListEntry
<1>1. CASE TakeMain
  <2>1. /\ phase = "select" /\ phase' = "send" /\ idx' = 1 /\ taken' = taken + 1
        /\ UNCHANGED <<list, open, from, seen>>
    BY <1>1 DEF TakeMain, clients
  <2>2. \A p \in DOMAIN list : Offered(p)' = taken /\ Offered(p) = taken
    BY <1>0, <2>1 DEF Offered
  <2> QED BY <1>0, <2>1, <2>2 DEF Served, ServedUpTo
<1>2. CASE SendNext
  <2>1. /\ phase = "send" /\ phase' = "send" /\ idx' = idx + 1
        /\ idx \in DOMAIN list
        /\ UNCHANGED <<list, open, from, taken>>
    BY SMTT(20), <1>0, <1>2 DEF SendNext, TypeOK
  <2> DEFINE k == list[idx].chan
  <2>2. k \in Chans
    BY <1>0, <2>1
  <2>3. \A p \in DOMAIN list : p # idx => list[p].chan # k /\ Offered(p)' = Offered(p)
    BY <1>0, <2>1, OneEntryPerQueue DEF Offered
  <2>4. Offered(idx) = taken - 1 /\ taken - 1 \in Nat
    BY <1>0, <2>1 DEF Offered
  <2>5. \A p \in DOMAIN list : p = idx => Offered(p)' = taken
    BY <1>0, <2>1 DEF Offered
  <2>6. CASE ~open[k]
    <3>1. seen' = seen
      BY <1>2, <2>6 DEF SendNext
    <3> HIDE DEF k
    <3>2. \A p \in DOMAIN list : open[list[p].chan] => p # idx
      BY <2>6 DEF k
    <3> QED BY SMTT(20), <1>0, <2>1, <2>3, <3>1, <3>2 DEF Served, ServedUpTo
  <2>7. CASE open[k]
    <3>1. seen' = [seen EXCEPT ![k] = Append(seen[k], taken)]
      BY <1>0, <1>2, <2>7 DEF SendNext
    <3>2. /\ from[k] \in Nat /\ from[k] <= taken - 1
          /\ seen[k] = [i \in 1..(taken - 1 - from[k]) |-> from[k] + i]
      BY <1>0, <2>1, <2>4, <2>7 DEF Served, ServedUpTo
    <3>3. \A x \in Chans : seen'[x] = IF x = k THEN Append(seen[k], taken) ELSE seen[x]
      BY <1>0, <2>2, <3>1 DEF TypeOK
    <3> HIDE DEF k
    <3>4. Append(seen[k], taken) = [i \in 1..(taken - from[k]) |-> from[k] + i]
      <4> DEFINE s == seen[k]
                 f == from[k]
      <4>1. /\ s = [i \in 1..(taken - 1 - f) |-> f + i]
            /\ f \in Nat /\ f <= taken - 1 /\ s \in Seq(1..MaxMsgs)
        BY <1>0, <2>2, <3>2 DEF TypeOK
      <4> HIDE DEF s, f
      <4>2. Len(s) = taken - 1 - f
        <5>1. DOMAIN s = 1..(taken - 1 - f) /\ taken - 1 - f \in Nat
          BY <1>0, <4>1
        <5> QED BY <4>1, <5>1
      <4>3. Append(s, taken)
               = [i \in 1..(Len(s) + 1) |-> IF i = Len(s) + 1 THEN taken ELSE s[i]]
        <5> DEFINE Numbers == 1..MaxMsgs
        <5>1. s \in Seq(Numbers) /\ taken \in Numbers
          BY <1>0, <2>1, <4>1 DEF TypeOK
        <5> HIDE DEF Numbers
        <5> QED BY <5>1, AppendIs
      <4>4. Append(s, taken) = [i \in 1..(taken - f) |-> f + i]
        BY <1>0, <4>1, <4>2, <4>3
      <4> QED BY <4>4 DEF s, f
    <3>5. \A x \in Chans : from'[x] = None => seen'[x] = <<>>
      BY <1>0, <2>1, <3>2, <3>3 DEF Served
    <3>6. ASSUME NEW p \in DOMAIN list, open[list[p].chan]
          PROVE  ServedUpTo(list[p].chan, Offered(p))'
      <4>1. CASE p = idx
        <5>1. Offered(p)' = taken /\ list'[p].chan = k
          BY <2>1, <2>5, <4>1 DEF k
        <5>2. from'[k] \in Nat /\ from'[k] <= taken /\ seen'[k] = Append(seen[k], taken)
          <6>1. taken - 1 <= taken
            BY <1>0
          <6>2. from[k] <= taken
            BY <1>0, <3>2, <6>1
          <6> QED BY <2>1, <2>2, <3>2, <3>3, <6>2
        <5> QED BY <2>1, <3>4, <5>1, <5>2 DEF ServedUpTo
      <4>2. CASE p # idx
        <5>1. /\ list'[p].chan = list[p].chan /\ Offered(p)' = Offered(p)
              /\ seen'[list[p].chan] = seen[list[p].chan]
          BY <1>0, <2>1, <2>3, <3>3, <4>2
        <5> QED BY <1>0, <2>1, <3>6, <5>1 DEF Served, ServedUpTo
      <4> QED BY <4>1, <4>2
    <3> QED BY <2>1, <3>5, <3>6 DEF Served
  <2> QED BY <2>6, <2>7
<1>3. ASSUME phase # "send" \/ SendDone, phase' # "send", taken' = taken,
             NEW e \in EntrySet(list), NEW p \in DOMAIN list', list'[p] = e,
             open[e.chan], from'[e.chan] = from[e.chan], seen'[e.chan] = seen[e.chan]
      PROVE  ServedUpTo(list[p].chan, Offered(p))'
  <2>1. ServedUpTo(e.chan, taken)
    BY <1>3, AllServed DEF SendDone
  <2>2. Offered(p)' = taken
    BY <1>3 DEF Offered
  <2> QED BY <1>3, <2>1, <2>2 DEF ServedUpTo
<1>4. CASE SendDone
  <2>1. /\ phase' = "select" /\ UNCHANGED <<open, from, seen, taken>>
        /\ EntrySet(list') \subseteq EntrySet(list)
    BY <1>4, ListOfSendDone DEF SendDone, clients, history
  <2>2. ASSUME NEW p \in DOMAIN list', open'[list'[p].chan]
        PROVE  ServedUpTo(list[p].chan, Offered(p))'
    <3>1. PICK e \in EntrySet(list) : e = list'[p]
      BY <2>1, InEntrySet
    <3> QED BY <1>3, <1>4, <2>1, <2>2, <3>1
  <2> QED BY <1>0, <2>1, <2>2 DEF Served
<1>5. CASE TakeUpdate
  <2> DEFINE msg == Head(upd)
  <2>1. phase = "select" /\ phase' = "select" /\ UNCHANGED <<open, seen, taken>>
    BY <1>5 DEF TakeUpdate, clients
  <2>2. CASE msg.op = "subscribe"
    <3>1. /\ msg.chan \in Chans
          /\ EntrySet(list') = EntrySet(list) \union {Entry(msg.user, msg.chan)}
          /\ msg = upd[1] /\ 1 \in DOMAIN upd
      BY <1>5, <2>2, ListOfUpdate
    <3>2. from[msg.chan] = None /\ \A e \in EntrySet(list) : e.chan # msg.chan
      BY <1>0, <2>2, <3>1 DEF SubscribedOnce
    <3>3. /\ \A x \in Chans : x # msg.chan => from'[x] = from[x]
          /\ open[msg.chan] => from'[msg.chan] = taken
          /\ ~open[msg.chan] => from' = from
      BY <1>0, <1>5, <2>2, <3>1 DEF TakeUpdate, TypeOK
    <3>4. seen[msg.chan] = <<>>
      BY <1>0, <3>1, <3>2 DEF Served
    <3>5. Entry(msg.user, msg.chan).chan = msg.chan
      BY DEF Entry
    <3>6. \A e \in EntrySet(list) : e.chan \in Chans
      BY <1>0, TypesOfParts
    <3> HIDE DEF msg
    <3>7. \A x \in Chans : from'[x] = None => seen'[x] = <<>>
      BY <1>0, <2>1, <3>3, <3>4 DEF Served
    <3>8. ASSUME NEW p \in DOMAIN list', open'[list'[p].chan]
          PROVE  ServedUpTo(list[p].chan, Offered(p))'
      <4>1. list'[p] \in EntrySet(list) \/ list'[p] = Entry(msg.user, msg.chan)
        BY <3>1, InEntrySet
      <4>2. CASE list'[p] \in EntrySet(list)
        <5>1. PICK e \in EntrySet(list) : e = list'[p]
          BY <4>2
        <5>2. from'[e.chan] = from[e.chan] /\ seen'[e.chan] = seen[e.chan]
          BY <2>1, <3>2, <3>3, <3>6
        <5> QED BY <1>3, <2>1, <3>8, <5>1, <5>2
      <4>3. CASE list'[p] = Entry(msg.user, msg.chan)
        <5>1. /\ list'[p].chan = msg.chan /\ from'[msg.chan] = taken
              /\ seen'[msg.chan] = <<>> /\ Offered(p)' = taken
          BY <2>1, <3>3, <3>4, <3>5, <3>8, <4>3 DEF Offered
        <5>2. <<>> = [i \in 1..(taken - taken) |-> taken + i]
          BY <1>0
        <5> QED BY <1>0, <5>1, <5>2 DEF ServedUpTo
      <4> QED BY <4>1, <4>2, <4>3
    <3> QED BY <3>7, <3>8 DEF Served
  <2>3. CASE msg.op # "subscribe"
    <3>1. from' = from /\ EntrySet(list') \subseteq EntrySet(list)
      BY <1>5, <2>3, ListOfUpdate DEF TakeUpdate
    <3>2. ASSUME NEW p \in DOMAIN list', open'[list'[p].chan]
          PROVE  ServedUpTo(list[p].chan, Offered(p))'
      <4>1. PICK e \in EntrySet(list) : e = list'[p]
        BY <3>1, InEntrySet
      <4> QED BY <1>3, <2>1, <3>1, <3>2, <4>1
    <3> QED BY <1>0, <2>1, <3>1, <3>2 DEF Served
  <2> QED BY <2>2, <2>3
<1>6. CASE ~TakeMain /\ ~SendNext /\ ~SendDone /\ ~TakeUpdate
  <2>1. UNCHANGED <<list, from, seen, taken, idx>> /\ (phase' = "send" <=> phase = "send")
    BY <1>6 DEF Next, RelayStep, Publish, Register, Unregister, Receive, CloseReceiver,
       CloseInput, MainEnds, UpdatesEnd, Quiet, vars, relay, history
  <2>2. \A k \in Chans : open'[k] => open[k]
    BY <1>0, <1>6 DEF Next, RelayStep, Publish, Register, Unregister, Receive, CloseReceiver,
       CloseInput, MainEnds, UpdatesEnd, Quiet, vars, clients, TypeOK
  <2>3. \A p \in DOMAIN list : Offered(p)' = Offered(p)
    BY <2>1 DEF Offered
  <2> QED BY <1>0, <2>1, <2>2, <2>3 DEF Served, ServedUpTo
<1> QED BY <1>1, <1>2, <1>4, <1>5, <1>6

-----------------------------------------------------------------------------
(* Theorems. *)

LEMMA RelayInit == Init => RelayInv
<1> SUFFICES ASSUME Init PROVE RelayInv
  OBVIOUS
<1> USE SizeAssumption DEF Init
<1>1. EntrySet(list) = {} /\ \A u : ~Holds(list, u)
  BY DEF EntrySet, Holds
<1>2. TypeOK
  <2>1. \A S : <<>> \in Seq(S) /\ Len(<<>>) = 0
    OBVIOUS
  <2> QED BY <2>1 DEF TypeOK
<1>3. Counted
  <2>1. <<>> = [i \in 1..(0 - 0) |-> 0 + i]
    OBVIOUS
  <2> QED BY <2>1 DEF Counted
<1>4. SubscribedOnce /\ Alternates /\ BadAreDead /\ Served /\ Unique(list)
  BY <1>1 DEF SubscribedOnce, Alternates, AlternatesFor, BadAreDead, Served, Unique
<1> QED BY <1>2, <1>3, <1>4 DEF RelayInv

\* The invariant the properties of the relay follow from.
THEOREM RelayInvariance == Spec => []RelayInv
<1>1. RelayInv /\ [Next]_vars => RelayInv'
  BY TypeStep, CountedStep, UniqueStep, SubscribedOnceStep, AlternatesStep, BadAreDeadStep,
     ServedStep DEF RelayInv
<1> QED BY <1>1, RelayInit, PTL DEF Spec

\* Every value the relay, the queues and their histories take has its type.
THEOREM RelayTypes == Spec => []TypeOK
BY RelayInvariance, PTL DEF RelayInv

\* No user is on the list twice, so a removal by user id removes the right
\* entry: Listener::remove looks for no more.
THEOREM UsersListedOnce == Spec => []OneEntryPerUser
<1>1. RelayInv => OneEntryPerUser
  <2> SUFFICES ASSUME RelayInv, NEW u \in Users PROVE Cardinality(EntriesFor(list, u)) <= 1
    BY DEF OneEntryPerUser
  <2>1. CASE EntriesFor(list, u) = {}
    BY <2>1, FS_EmptySet
  <2>2. CASE EntriesFor(list, u) # {}
    <3>1. PICK k \in EntriesFor(list, u) : TRUE
      BY <2>2
    <3>2. EntriesFor(list, u) = {k}
      BY DEF EntriesFor, RelayInv, Unique
    <3> QED BY <3>2, FS_Singleton
  <2> QED BY <2>1, <2>2
<1> QED BY <1>1, RelayInvariance, PTL

\* Whenever the relay is back at its select!, a live subscriber has been sent
\* every message taken since its subscription, once and in order.
THEOREM NoGaps == Spec => []GapFree
<1>1. RelayInv => GapFree
  <2> SUFFICES ASSUME RelayInv, NEW k \in Chans, phase = "select", open[k], Subscribed(k)
               PROVE  seen[k] = [i \in 1..(taken - from[k]) |-> from[k] + i]
    BY DEF GapFree
  <2>1. PICK e \in EntrySet(list) : e.chan = k
    BY SubscribedMeans
  <2>2. ServedUpTo(k, taken)
    BY <2>1, AllServed
  <2> QED BY <2>2 DEF ServedUpTo
<1> QED BY <1>1, RelayInvariance, PTL

\* What takes a live subscriber off the list is an Unsubscribe of its own user.
LEMMA LeavesByOwnUnsubscribe ==
    ASSUME RelayInv, [Next]_vars, NEW k \in Chans,
           open[k], Subscribed(k), ~Subscribed(k)'
    PROVE  /\ TakeUpdate /\ upd # <<>> /\ upd' = Tail(upd)
           /\ Head(upd).op # "subscribe" /\ Head(upd).user = owner[k]
           /\ Head(upd).op = "unsubscribe"
<1>1. PICK e \in EntrySet(list) : e.chan = k
  BY SubscribedMeans
<1>2. e \notin EntrySet(list')
  BY <1>1, SubscribedMeans
<1>3. TakeUpdate
  BY <1>1, <1>2, ListOfSendDone, ListKept
<1>4. Head(upd).op # "subscribe" /\ Head(upd).user = e.user
  BY <1>2, <1>3, ListOfUpdate
<1>5. owner[k] = e.user
  BY <1>1 DEF RelayInv, SubscribedOnce
<1>6. Head(upd) \in Update
  <2>1. upd \in Seq(Update) /\ upd # <<>>
    BY <1>3, TypesOfParts DEF TakeUpdate, RelayInv
  <2> QED BY <2>1
<1> QED BY <1>3, <1>4, <1>5, <1>6 DEF TakeUpdate, Update

\* A live subscriber goes from the list with an Unsubscribe of its own user only:
\* not with another's, nor with the clean-up after failed sends.
THEOREM OwnUnsubscribes == Spec => OnlyOwnUnsubscribe
<1>1. ASSUME RelayInv, [Next]_vars, NEW k \in Chans,
             open[k] /\ Subscribed(k) /\ ~Subscribed(k)'
      PROVE  /\ upd # <<>> /\ upd' = Tail(upd)
             /\ Head(upd).op = "unsubscribe" /\ Head(upd).user = owner[k]
  BY <1>1, LeavesByOwnUnsubscribe
<1>2. RelayInv /\ [Next]_vars =>
         [\A k \in Chans : open[k] /\ Subscribed(k) /\ ~Subscribed(k)' =>
            /\ upd # <<>> /\ upd' = Tail(upd)
            /\ Head(upd).op = "unsubscribe" /\ Head(upd).user = owner[k]]_vars
  BY <1>1
<1> QED BY <1>2, RelayInvariance, PTL DEF Spec, OnlyOwnUnsubscribe

-----------------------------------------------------------------------------
(* The relay implements Broadcast. *)

\* The refinement mapping of Promise, one operator per variable.
StateOf(k) ==
    IF ~open[k] THEN "failed"
    ELSE IF Subscribed(k) THEN "in"
    ELSE IF from[k] # None THEN "left" ELSE "out"
FromOf(k) == IF from[k] = None THEN 0 ELSE from[k]

logOf == [i \in 1..taken |-> i]
stateOf == [k \in Chans |-> StateOf(k)]
fromOf == [k \in Chans |-> FromOf(k)]
promised == <<logOf, stateOf, fromOf, seen>>

\* A step that changes neither who lives nor what is sent, and takes only dead
\* entries off the list, is none of Broadcast.
LEMMA Stutters ==
    ASSUME UNCHANGED <<open, from, taken, seen>>,
           \A k \in Chans : open[k] => (Subscribed(k)' <=> Subscribed(k))
    PROVE  UNCHANGED promised
<1>1. \A k \in Chans : StateOf(k)' = StateOf(k) /\ FromOf(k)' = FromOf(k)
  BY DEF StateOf, FromOf
<1> QED BY <1>1 DEF promised, logOf, stateOf, fromOf

LEMMA SubscribedKept == list' = list => \A k : Subscribed(k)' <=> Subscribed(k)
BY DEF Subscribed

LEMMA SendsOne ==
    ASSUME RelayInv, TakeMain
    PROVE  \E m \in 1..MaxMsgs : Promise!Send(m)
<1>1. taken \in Nat /\ taken + 1 \in 1..MaxMsgs
  <2>1. main # <<>> /\ published <= MaxMsgs
    BY DEF TakeMain, RelayInv, TypeOK
  <2> QED BY <2>1, MainHolds
<1>2. UNCHANGED <<list, open, from, seen>> /\ taken' = taken + 1
  BY DEF TakeMain, clients
<1>3. UNCHANGED <<stateOf, fromOf>>
  BY <1>2, SubscribedKept DEF stateOf, fromOf, StateOf, FromOf
<1>4. logOf' = Append(logOf, taken + 1)
  <2>1. logOf \in Seq(Nat) /\ Len(logOf) = taken
    <3>1. \A n \in Nat : [i \in 1..n |-> i] \in Seq(Nat) /\ Len([i \in 1..n |-> i]) = n
      OBVIOUS
    <3> QED BY <1>1, <3>1 DEF logOf
  <2>2. Append(logOf, taken + 1)
           = [i \in 1..(taken + 1) |-> IF i = taken + 1 THEN taken + 1 ELSE logOf[i]]
    BY <1>1, <2>1, AppendIs
  <2> QED BY <1>1, <1>2, <2>2 DEF logOf
<1>5. \E m \in 1..MaxMsgs : logOf' = Append(logOf, m)
  BY <1>1, <1>4
<1> QED BY <1>2, <1>3, <1>5 DEF Promise!Send, logOf, stateOf, fromOf, StateOf, FromOf

\* One subscriber changes its state and nothing else.
LEMMA OneChanges ==
    ASSUME TypeOK, NEW k \in Chans, NEW new,
           StateOf(k)' = new,
           \A x \in Chans : x # k => StateOf(x)' = StateOf(x)
    PROVE  stateOf' = [stateOf EXCEPT ![k] = new]
BY DEF stateOf

LEMMA Fails ==
    ASSUME RelayInv, NEW k \in Chans, CloseReceiver(k)
    PROVE  Promise!Fail(k)
<1>1. /\ open[k] /\ open' = [open EXCEPT ![k] = FALSE]
      /\ UNCHANGED <<list, from, taken, seen>>
  BY DEF CloseReceiver, relay, history
<1>2. TypeOK
  BY DEF RelayInv
<1>3. \A x \in Chans : open'[x] = IF x = k THEN FALSE ELSE open[x]
  BY <1>1, <1>2 DEF TypeOK
<1>4. /\ StateOf(k)' = "failed" /\ StateOf(k) # "failed"
      /\ \A x \in Chans : x # k => StateOf(x)' = StateOf(x)
      /\ UNCHANGED <<logOf, fromOf>>
  BY <1>1, <1>3, SubscribedKept DEF StateOf, logOf, fromOf, FromOf
<1>5. stateOf' = [stateOf EXCEPT ![k] = "failed"] /\ stateOf[k] # "failed"
  BY <1>2, <1>4, OneChanges DEF stateOf
<1> QED BY <1>1, <1>4, <1>5 DEF Promise!Fail, logOf, stateOf, fromOf, StateOf, FromOf

LEMMA Delivers ==
    ASSUME RelayInv, SendNext, open[list[idx].chan]
    PROVE  \E k \in Chans : Promise!Deliver(k)
<1> DEFINE k == list[idx].chan
<1>1. /\ phase = "send" /\ seen' = [seen EXCEPT ![k] = Append(@, cur)]
      /\ UNCHANGED <<list, open, from, taken>>
  BY DEF SendNext
<1>2. /\ TypeOK /\ cur = taken /\ taken \in Nat /\ taken > 0 /\ None \notin Nat
      /\ idx \in DOMAIN list /\ idx >= idx
  BY SMTT(20), <1>1, SizeAssumption DEF SendNext, RelayInv, Counted, TypeOK
<1>3. k \in Chans /\ Subscribed(k)
  <2>1. list[idx] \in EntrySet(list)
    BY <1>2, InEntrySet
  <2> QED BY <1>2, <2>1, TypesOfParts, SubscribedMeans
<1>4. /\ from[k] \in Nat /\ from[k] <= taken - 1
      /\ seen[k] = [i \in 1..(taken - 1 - from[k]) |-> from[k] + i]
  BY <1>1, <1>2 DEF RelayInv, Served, ServedUpTo, Offered
<1> HIDE DEF k
<1>5. Len(seen[k]) = taken - 1 - from[k]
  <2>1. \A n \in Nat, f \in Nat : Len([i \in 1..n |-> f + i]) = n
    OBVIOUS
  <2>2. taken - 1 - from[k] \in Nat
    BY <1>2, <1>4
  <2> QED BY <1>4, <2>1, <2>2
<1>6. StateOf(k) = "in" /\ FromOf(k) = from[k]
  BY <1>2, <1>3, <1>4 DEF StateOf, FromOf, k
<1>7. UNCHANGED <<logOf, stateOf, fromOf>>
  BY <1>1, SubscribedKept DEF logOf, stateOf, fromOf, StateOf, FromOf
<1>8. /\ stateOf[k] = "in" /\ fromOf[k] + Len(seen[k]) = taken - 1
      /\ Len(logOf) = taken /\ logOf[taken - 1 + 1] = taken
  <2>1. Len(logOf) = taken
    <3>1. \A n \in Nat : Len([i \in 1..n |-> i]) = n
      OBVIOUS
    <3> QED BY <1>2, <3>1 DEF logOf
  <2>2. logOf[taken] = taken /\ taken - 1 + 1 = taken
    BY <1>2 DEF logOf
  <2>3. from[k] + (taken - 1 - from[k]) = taken - 1
    BY <1>2, <1>4
  <2> QED BY <1>3, <1>5, <1>6, <2>1, <2>2, <2>3 DEF stateOf, fromOf
<1>9. taken - 1 < taken
  BY <1>2
<1>10. /\ stateOf[k] = "in"
       /\ fromOf[k] + Len(seen[k]) < Len(logOf)
       /\ seen' = [seen EXCEPT ![k] = Append(@, logOf[fromOf[k] + Len(seen[k]) + 1])]
  BY <1>1, <1>2, <1>8, <1>9 DEF k
<1> QED BY <1>3, <1>7, <1>10
       DEF Promise!Deliver, Promise!Position, logOf, stateOf, fromOf, StateOf, FromOf

LEMMA Joins ==
    ASSUME RelayInv, TakeUpdate, Head(upd).op = "subscribe", open[Head(upd).chan]
    PROVE  \E k \in Chans : Promise!Join(k)
<1> DEFINE k == Head(upd).chan
           new == Entry(Head(upd).user, k)
<1>1. /\ k \in Chans /\ EntrySet(list') = EntrySet(list) \union {new}
      /\ Head(upd) = upd[1] /\ 1 \in DOMAIN upd
  BY ListOfUpdate
<1>2. new.chan = k
  BY DEF Entry
<1>3. /\ TypeOK /\ taken \in Nat /\ None \notin Nat
      /\ from[k] = None /\ \A e \in EntrySet(list) : e.chan # k
  BY <1>1, SizeAssumption DEF RelayInv, TypeOK, SubscribedOnce
<1>4. UNCHANGED <<open, seen, taken>> /\ from' = [from EXCEPT ![k] = taken]
  BY DEF TakeUpdate, clients
<1>5. open[k]
  OBVIOUS
<1> HIDE DEF k, new
<1>6. \A x \in Chans : /\ x # k => (Subscribed(x)' <=> Subscribed(x))
                       /\ x = k => Subscribed(x)' /\ ~Subscribed(x)
  BY <1>1, <1>2, <1>3, SubscribedMeans
<1>7. \A x \in Chans : from'[x] = IF x = k THEN taken ELSE from[x]
  BY <1>1, <1>3, <1>4 DEF TypeOK
<1>8. /\ \A x \in Chans : x # k => StateOf(x)' = StateOf(x)
      /\ \A x \in Chans : x = k => StateOf(x)' = "in" /\ StateOf(x) = "out"
  BY <1>3, <1>4, <1>5, <1>6, <1>7 DEF StateOf
<1>9. stateOf[k] = "out" /\ stateOf' = [stateOf EXCEPT ![k] = "in"]
  BY <1>1, <1>8 DEF stateOf
<1>10. fromOf' = [fromOf EXCEPT ![k] = Len(logOf)] /\ logOf' = logOf
  <2>1. Len(logOf) = taken
    <3>1. \A n \in Nat : Len([i \in 1..n |-> i]) = n
      OBVIOUS
    <3> QED BY <1>3, <3>1 DEF logOf
  <2>2. \A x \in Chans : FromOf(x)' = IF x = k THEN taken ELSE FromOf(x)
    BY <1>3, <1>7 DEF FromOf
  <2>3. logOf' = logOf
    BY <1>4 DEF logOf
  <2> QED BY <2>1, <2>2, <2>3 DEF fromOf
<1> QED BY <1>1, <1>4, <1>9, <1>10 DEF Promise!Join, logOf, stateOf, fromOf, StateOf, FromOf

LEMMA Leaves ==
    ASSUME RelayInv, TakeUpdate, NEW k \in Chans,
           open[k], Subscribed(k), ~Subscribed(k)'
    PROVE  Promise!Leave(k)
<1>1. [Next]_vars
  BY DEF Next, RelayStep
<1>2. Head(upd).op # "subscribe" /\ Head(upd).user = owner[k]
  BY <1>1, LeavesByOwnUnsubscribe
<1>3. /\ EntrySet(list') \subseteq EntrySet(list)
      /\ phase = "select" /\ UNCHANGED <<open, seen, from, taken>>
  BY <1>2, ListOfUpdate DEF TakeUpdate, clients
<1>4. \A x \in Chans : x # k /\ open[x] => (Subscribed(x)' <=> Subscribed(x))
  <2> SUFFICES ASSUME NEW x \in Chans, open[x], Subscribed(x), ~Subscribed(x)' PROVE x = k
    BY <1>3, SubscribedMeans
  <2>1. owner[x] = owner[k]
    BY <1>1, <1>2, LeavesByOwnUnsubscribe
  <2>2. PICK e \in EntrySet(list), f \in EntrySet(list) : e.chan = k /\ f.chan = x
    BY SubscribedMeans
  <2>3. e.user = f.user
    BY <2>1, <2>2 DEF RelayInv, SubscribedOnce
  <2>4. e = f
    BY <2>3 DEF RelayInv, Unique, EntrySet
  <2> QED BY <2>2, <2>4
<1>5. PICK e \in EntrySet(list) : e.chan = k
  BY SubscribedMeans
<1>6. ServedUpTo(k, taken)
  BY <1>3, <1>5, AllServed
<1>7. /\ taken \in Nat /\ None \notin Nat
      /\ from[k] \in Nat /\ from[k] <= taken
      /\ seen[k] = [i \in 1..(taken - from[k]) |-> from[k] + i]
  BY <1>6, SizeAssumption DEF ServedUpTo, RelayInv, TypeOK
<1>8. /\ \A x \in Chans : x # k => StateOf(x)' = StateOf(x)
      /\ \A x \in Chans : x = k => StateOf(x)' = "left" /\ StateOf(x) = "in"
  BY <1>3, <1>4, <1>7 DEF StateOf
<1>9. stateOf[k] = "in" /\ stateOf' = [stateOf EXCEPT ![k] = "left"]
  BY <1>8 DEF stateOf
<1>10. UNCHANGED <<logOf, fromOf>>
  BY <1>3 DEF logOf, fromOf, FromOf
<1>11. fromOf[k] + Len(seen[k]) = Len(logOf)
  <2>1. \A n \in Nat, f \in Nat : Len([i \in 1..n |-> f + i]) = n /\ Len([i \in 1..n |-> i]) = n
    OBVIOUS
  <2>2. taken - from[k] \in Nat /\ from[k] + (taken - from[k]) = taken
    BY <1>7
  <2>3. Len(seen[k]) = taken - from[k] /\ Len(logOf) = taken
    BY <1>7, <2>1, <2>2 DEF logOf
  <2>4. fromOf[k] = from[k]
    BY <1>7 DEF fromOf, FromOf
  <2> QED BY <2>2, <2>3, <2>4
<1> QED BY <1>3, <1>9, <1>10, <1>11
       DEF Promise!Leave, Promise!Position, logOf, stateOf, fromOf, StateOf, FromOf

\* Every step of the relay is one of Broadcast, or none.
LEMMA StepImplements == RelayInv /\ [Next]_vars => [Promise!Next]_promised
<1> SUFFICES ASSUME RelayInv, [Next]_vars PROVE Promise!Next \/ UNCHANGED promised
  OBVIOUS
<1>1. CASE TakeMain
  BY <1>1, SendsOne DEF Promise!Next
<1>2. ASSUME NEW k \in Chans, CloseReceiver(k) PROVE Promise!Next
  BY <1>2, Fails DEF Promise!Next
<1>3. CASE SendNext
  <2>1. CASE open[list[idx].chan]
    BY <1>3, <2>1, Delivers DEF Promise!Next
  <2>2. CASE ~open[list[idx].chan]
    BY <1>3, <2>2, Stutters, SubscribedKept DEF SendNext
  <2> QED BY <2>1, <2>2
<1>4. CASE TakeUpdate
  <2>1. UNCHANGED <<open, taken, seen>>
    BY <1>4 DEF TakeUpdate, clients
  <2>2. CASE Head(upd).op = "subscribe" /\ open[Head(upd).chan]
    BY <1>4, <2>2, Joins DEF Promise!Next
  <2>3. CASE Head(upd).op = "subscribe" /\ ~open[Head(upd).chan]
    <3>1. from' = from
      BY <1>4, <2>3 DEF TakeUpdate
    <3>2. /\ EntrySet(list') = EntrySet(list) \union {Entry(Head(upd).user, Head(upd).chan)}
          /\ Entry(Head(upd).user, Head(upd).chan).chan = Head(upd).chan
      BY <1>4, <2>3, ListOfUpdate DEF Entry
    <3>3. \A k \in Chans : open[k] => (Subscribed(k)' <=> Subscribed(k))
      BY <2>3, <3>2, SubscribedMeans
    <3> QED BY <2>1, <3>1, <3>3, Stutters
  <2>4. CASE Head(upd).op # "subscribe"
    <3>1. from' = from /\ EntrySet(list') \subseteq EntrySet(list)
      BY <1>4, <2>4, ListOfUpdate DEF TakeUpdate
    <3>2. CASE \E k \in Chans : open[k] /\ Subscribed(k) /\ ~Subscribed(k)'
      BY <1>4, <3>2, Leaves DEF Promise!Next
    <3>3. CASE ~ \E k \in Chans : open[k] /\ Subscribed(k) /\ ~Subscribed(k)'
      <4>1. \A k \in Chans : open[k] => (Subscribed(k)' <=> Subscribed(k))
        BY <3>1, <3>3, SubscribedMeans
      <4> QED BY <2>1, <3>1, <4>1, Stutters
    <3> QED BY <3>2, <3>3
  <2> QED BY <2>2, <2>3, <2>4
<1>5. CASE SendDone
  <2>1. UNCHANGED <<open, from, taken, seen>>
    BY <1>5 DEF SendDone, clients, history
  <2>2. \A k \in Chans : open[k] => (Subscribed(k)' <=> Subscribed(k))
    BY <1>5, ListOfSendDone, SubscribedMeans
  <2> QED BY <2>1, <2>2, Stutters
<1>6. CASE \/ Publish \/ CloseInput \/ MainEnds \/ UpdatesEnd \/ Quiet \/ UNCHANGED vars
           \/ \E u \in Users : Unregister(u) \/ \E k \in Chans : Register(u, k)
           \/ \E k \in Chans : Receive(k)
  <2>1. UNCHANGED <<list, open, from, taken, seen>>
    BY <1>6 DEF Publish, CloseInput, MainEnds, UpdatesEnd, Quiet, Unregister, Register, Receive,
       vars, relay, clients, history
  <2> QED BY <2>1, Stutters, SubscribedKept
<1> QED BY <1>1, <1>2, <1>3, <1>4, <1>5, <1>6 DEF Next, RelayStep

LEMMA InitImplements == Init => Promise!Init
<1> SUFFICES ASSUME Init PROVE Promise!Init
  OBVIOUS
<1>1. \A k : ~Subscribed(k)
  BY DEF Init, Subscribed, EntriesOf
<1>2. [i \in 1..taken |-> i] = <<>>
  BY DEF Init
<1> QED BY <1>1, <1>2 DEF Init, Promise!Init

\* The relay implements the broadcast its comment promises: whatever comes, goes
\* or dies, a live member is sent what is broadcast between its joining and its
\* leaving, in order and once, and it is given up only when its receiver is gone.
THEOREM RelayIsBroadcast == Spec => ImplementsBroadcast
<1>1. RelayInv /\ [Next]_vars => [Promise!Next]_(Promise!vars)
  BY StepImplements
     DEF promised, Promise!vars, logOf, stateOf, fromOf, StateOf, FromOf
<1> QED BY <1>1, InitImplements, RelayInvariance, PTL DEF Spec, ImplementsBroadcast, Promise!Spec
=============================================================================
