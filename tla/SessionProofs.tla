---------------------------- MODULE SessionProofs ----------------------------
(***************************************************************************)
(* Proofs about Session, for every capacity and any number of connections, *)
(* messages and events: a task that runs tries every message relayed to it *)
(* once and in order, the event sender starts on the newest connection     *)
(* handed to it, and the tasks that must last while the session is         *)
(* registered do.                                                          *)
(***************************************************************************)
EXTENDS Session, TLAPS, ListenerProofs

Lives == phase \notin Dead

(* The inductive invariant. *)

\* A message is in hand exactly while it is written, and only a transmitter
\* works without a connection.
AtWork ==
    /\ hand # 0 <=> phase = "write"
    /\ kind # "udp" /\ phase \in {"select", "write", "deliver", "sleep"} => sock # 0

\* The connections reach the task in the order they were made: its own is older
\* than those that wait, the last of which was handed over last.
ConnsInOrder ==
    /\ listener # "accept" => handed < made
    /\ sock <= handed
    /\ \A k \in DOMAIN socks : sock < socks[k] /\ socks[k] <= handed
    /\ \A j, k \in DOMAIN socks : j < k => socks[j] < socks[k]
    /\ Lives => handed = IF socks = <<>> THEN sock ELSE socks[Len(socks)]

\* The senders are dropped after the session has left the registry.
LeavesFirst == ~serving \/ ~relaying \/ writer = "unsub" => ~registered

\* The messages 1..fed: tried, in hand, and queued.
Started == Len(tried) + (IF hand = 0 THEN 0 ELSE 1)

MessagesInOrder ==
    Lives =>
        /\ \A i \in DOMAIN tried : tried[i].msg = i
        /\ hand # 0 => hand = Len(tried) + 1
        /\ \A i \in DOMAIN queue : queue[i] = Started + i
        /\ fed = Started + Len(queue)

TriedInOrder ==
    /\ \A i \in DOMAIN tried : tried[i].sock <= sock
    /\ \A i, j \in DOMAIN tried : i < j => tried[i].sock <= tried[j].sock

SessionInv ==
    /\ TypeOK
    /\ AtWork
    /\ ConnsInOrder
    /\ LeavesFirst
    /\ MessagesInOrder
    /\ TriedInOrder
    /\ StaysServed

-----------------------------------------------------------------------------
(* Types. *)

Writes == [msg : 1..MaxMsgs, sock : 0..MaxSocks]

LEMMA TypeFacts ==
    ASSUME TypeOK
    PROVE  /\ MaxSocks \in Nat /\ MaxMsgs \in Nat /\ MaxInbox \in Nat
           /\ SockCap \in Nat \ {0} /\ MsgCap \in Nat \ {0} /\ EvCap \in Nat \ {0}
           /\ made \in Nat /\ handed \in Nat /\ sock \in Nat /\ fed \in Nat /\ hand \in Nat
           /\ pending \in Nat /\ evq \in Nat
           /\ Len(socks) \in Nat /\ Len(queue) \in Nat /\ Len(tried) \in Nat
           /\ DOMAIN socks = 1..Len(socks) /\ DOMAIN queue = 1..Len(queue)
           /\ DOMAIN tried = 1..Len(tried)
<1>1. /\ MaxSocks \in Nat /\ MaxMsgs \in Nat /\ MaxInbox \in Nat
      /\ SockCap \in Nat \ {0} /\ MsgCap \in Nat \ {0} /\ EvCap \in Nat \ {0}
  BY SizeAssumption
<1>2. made \in 0..MaxSocks /\ sock \in 0..MaxSocks /\ fed \in 0..MaxMsgs /\ hand \in 0..MaxMsgs
  BY DEF TypeOK
<1>3. handed \in 0..made /\ pending \in 0..MaxInbox /\ evq \in 0..EvCap
  BY DEF TypeOK
<1>4. ASSUME NEW S, NEW s \in Seq(S)
      PROVE  Len(s) \in Nat /\ DOMAIN s = 1..Len(s)
  OBVIOUS
<1>5. socks \in Seq(Socks) /\ queue \in Seq(1..MaxMsgs) /\ tried \in Seq(Writes)
  BY DEF TypeOK, Writes
<1> QED BY <1>1, <1>2, <1>3, <1>4, <1>5

\* The steps of the others leave the task and its channels alone.
Outside ==
    \/ \E s \in Socks : PeerLeaves(s) \/ PeerSends(s)
    \/ Connect \/ FindUser
    \/ WantLock \/ GetLock \/ Release \/ RelayLetsGo
    \/ ServerTakes \/ ServerLooksUp
    \/ Halted \/ UNCHANGED vars

LEMMA OutsideKeeps ==
    Outside => UNCHANGED <<kind, socks, phase, sock, hand, tried, pending, queue, fed, handed>>
BY DEF Outside, PeerLeaves, PeerSends, Connect, FindUser, WantLock, GetLock, Release,
   RelayLetsGo, ServerTakes, ServerLooksUp, Halted, vars, conns, task

LEMMA Steps ==
    [Next]_vars => Outside \/ Feed \/ HandOver \/ TaskStep
BY DEF Next, Outside

LEMMA OutsideTypes ==
    TypeOK /\ Outside => TypeOK'
<1> SUFFICES ASSUME TypeOK, Outside PROVE TypeOK'
  OBVIOUS
<1> USE TypeFacts, OutsideKeeps
<1>0. MaxInbox \in Nat
  OBVIOUS
<1>1. ASSUME NEW s \in Socks, PeerLeaves(s) PROVE TypeOK'
  BY SMTT(20), <1>1 DEF PeerLeaves, TypeOK, registry, task
<1>2. ASSUME NEW s \in Socks, PeerSends(s) PROVE TypeOK'
  <2>1. inbox' \in [Socks -> 0..MaxInbox]
    <3>1. inbox \in [Socks -> 0..MaxInbox] /\ inbox[s] \in 0..MaxInbox /\ inbox[s] < MaxInbox
      BY <1>2 DEF PeerSends, TypeOK
    <3>2. inbox[s] + 1 \in 0..MaxInbox
      BY ONLY <1>0, <3>1
    <3>3. inbox' = [inbox EXCEPT ![s] = inbox[s] + 1]
      BY <1>2 DEF PeerSends
    <3> QED BY <3>1, <3>2, <3>3
  <2> QED BY SMTT(20), <1>2, <2>1 DEF PeerSends, TypeOK, registry, conns, task
<1>3. CASE Connect
  <2>1. made' \in 0..MaxSocks /\ handed' \in 0..made'
    BY SMTT(20), <1>3 DEF Connect, TypeOK
  <2> QED BY <1>3, <2>1 DEF Connect, TypeOK, registry, task
<1>4. CASE FindUser
  BY <1>4 DEF FindUser, TypeOK, registry, task
<1>5. CASE WantLock \/ GetLock
  BY <1>5 DEF WantLock, GetLock, TypeOK, conns, task
<1>6. CASE Release \/ RelayLetsGo
  BY <1>6 DEF Release, RelayLetsGo, TypeOK, conns, task
<1>7. CASE ServerTakes \/ ServerLooksUp
  <2>1. evq' \in 0..EvCap /\ server' \in {"recv", "lock"}
    <3>1. evq \in 0..EvCap /\ EvCap \in Nat
      BY DEF TypeOK
    <3>2. evq' = evq \/ (evq > 0 /\ evq' = evq - 1)
      BY <1>7 DEF ServerTakes, ServerLooksUp
    <3>3. evq' \in 0..EvCap
      BY SMTT(20), <3>1, <3>2
    <3> QED BY <1>7, <3>3 DEF ServerTakes, ServerLooksUp
  <2> QED BY <1>7, <2>1 DEF ServerTakes, ServerLooksUp, TypeOK, registry, conns, task
<1>8. CASE Halted \/ UNCHANGED vars
  BY ZenonT(40), <1>8 DEF Halted, vars, TypeOK, registry, conns, task
<1> QED BY <1>1, <1>2, <1>3, <1>4, <1>5, <1>6, <1>7, <1>8 DEF Outside

\* What a stop leaves behind has its types.
LEMMA StopTypes ==
    ASSUME NEW how \in Dead, Stop(how)
    PROVE  /\ phase' \in Dead /\ socks' = <<>> /\ queue' = <<>>
           /\ socks' \in Seq(Socks) /\ Len(socks') = 0
           /\ queue' \in Seq(1..MaxMsgs) /\ Len(queue') = 0
<1>1. \A S : <<>> \in Seq(S) /\ Len(<<>>) = 0
  OBVIOUS
<1> QED BY <1>1 DEF Stop

LEMMA TakeTypes ==
    ASSUME TypeOK, TakeSock
    PROVE  TypeOK'
<1> USE TypeFacts
<1>1. socks # <<>> /\ socks \in Seq(Socks)
  BY DEF TakeSock, TypeOK
<1>2. /\ Head(socks) \in Socks /\ Tail(socks) \in Seq(Socks)
      /\ Len(Tail(socks)) = Len(socks) - 1
  BY <1>1, TailLeaves
<1>3. Head(socks) \in 0..MaxSocks /\ Len(Tail(socks)) <= SockCap
  <2>1. Len(socks) <= SockCap /\ SockCap \in Nat /\ Len(socks) \in Nat /\ MaxSocks \in Nat
    BY DEF TypeOK
  <2> QED BY ONLY <1>2, <2>1 DEF Socks
<1>4. peer' \in [Socks -> {"open", "closed", "reset"}]
  BY DEF TakeSock, NextSock, TypeOK
<1>5. inbox' \in [Socks -> 0..MaxInbox]
  <2>1. 0 \in 0..MaxInbox
    OBVIOUS
  <2>2. inbox \in [Socks -> 0..MaxInbox]
    BY DEF TypeOK
  <2>3. inbox' = [s \in Socks |-> IF s < sock' THEN 0 ELSE inbox[s]]
    BY DEF TakeSock, NextSock
  <2> QED BY <2>1, <2>2, <2>3
<1> QED BY <1>2, <1>3, <1>4, <1>5 DEF TakeSock, NextSock, TypeOK, registry

LEMMA WriteTypes ==
    ASSUME TypeOK, AtWork, WriteEnds \/ WriteFails
    PROVE  TypeOK'
<1> USE TypeFacts
<1>1. phase = "write" /\ hand' = 0 /\ tried' = Append(tried, [msg |-> hand, sock |-> sock])
  BY DEF WriteEnds, WriteFails, Tried
<1>2. hand \in 1..MaxMsgs /\ sock \in 0..MaxSocks /\ 0 \in 0..MaxMsgs
  BY <1>1 DEF AtWork, TypeOK
<1>3. tried' \in Seq(Writes)
  <2>1. [msg |-> hand, sock |-> sock] \in Writes
    BY <1>2 DEF Writes
  <2>2. tried \in Seq(Writes)
    BY DEF TypeOK, Writes
  <2> QED BY <1>1, <2>1, <2>2
<1>4. \/ phase' = "select" /\ UNCHANGED <<socks, queue>>
      \/ Stop("panicked")
  BY DEF WriteEnds, WriteFails
<1>5. /\ phase' \in {"select"} \union Dead
      /\ socks' \in Seq(Socks) /\ Len(socks') <= SockCap
      /\ queue' \in Seq(1..MaxMsgs) /\ Len(queue') <= MsgCap
  <2>1. CASE phase' = "select" /\ UNCHANGED <<socks, queue>>
    BY <2>1 DEF TypeOK
  <2>2. CASE Stop("panicked")
    BY <2>2, StopTypes DEF Dead
  <2> QED BY <1>4, <2>1, <2>2
<1>6. UNCHANGED <<kind, registry, conns, sock, pending, fed, inbox, evq, server>>
  BY DEF WriteEnds, WriteFails
<1> QED BY <1>1, <1>2, <1>3, <1>5, <1>6 DEF TypeOK, Writes, registry, conns

LEMMA TaskTypes ==
    TypeOK /\ AtWork /\ TaskStep => TypeOK'
<1> SUFFICES ASSUME TypeOK, AtWork, TaskStep PROVE TypeOK'
  OBVIOUS
<1> USE TypeFacts
<1>1. CASE SocksEnd \/ MsgsEnd
  <2>1. Stop("ended") /\ "ended" \in Dead
    BY <1>1 DEF SocksEnd, MsgsEnd, Dead
  <2>2. /\ phase' \in Dead
        /\ socks' \in Seq(Socks) /\ Len(socks') <= SockCap
        /\ queue' \in Seq(1..MaxMsgs) /\ Len(queue') <= MsgCap
    BY SMTT(20), <2>1, StopTypes
  <2>3. UNCHANGED <<kind, registry, conns, sock, hand, tried, pending, fed, inbox, evq, server>>
    BY <1>1 DEF SocksEnd, MsgsEnd
  <2> QED BY <2>2, <2>3 DEF TypeOK, registry, conns
<1>2. CASE EncodePanics
  <2>1. Stop("panicked") /\ "panicked" \in Dead /\ 0 \in 0..MaxMsgs
    BY <1>2 DEF EncodePanics, Dead
  <2> QED BY SMTT(20), <1>2, <2>1, StopTypes DEF EncodePanics, TypeOK, registry, conns
<1>3. CASE TakeMsg
  <2>1. queue # <<>> /\ queue \in Seq(1..MaxMsgs)
    BY <1>3 DEF TakeMsg, TypeOK
  <2>2. /\ Head(queue) \in 1..MaxMsgs /\ Tail(queue) \in Seq(1..MaxMsgs)
        /\ Len(Tail(queue)) = Len(queue) - 1
    <3> DEFINE S == 1..MaxMsgs
    <3>1. queue # <<>> /\ queue \in Seq(S)
      BY <2>1
    <3> HIDE DEF S
    <3>2. Head(queue) \in S /\ Tail(queue) \in Seq(S) /\ Len(Tail(queue)) = Len(queue) - 1
      BY <3>1, TailLeaves
    <3> QED BY <3>2 DEF S
  <2>3. Head(queue) \in 0..MaxMsgs /\ Len(Tail(queue)) <= MsgCap
    <3>1. Len(queue) <= MsgCap /\ Len(queue) \in Nat /\ MsgCap \in Nat
      BY DEF TypeOK
    <3>2. Len(Tail(queue)) <= MsgCap
      BY ONLY <2>2, <3>1
    <3>3. \A m \in 1..MaxMsgs : m \in 0..MaxMsgs
      OBVIOUS
    <3> QED BY <2>2, <3>2, <3>3
  <2> QED BY <1>3, <2>2, <2>3 DEF TakeMsg, TypeOK, registry, conns
<1>4. CASE Read
  <2>1. sock \in Socks /\ inbox[sock] \in 0..MaxInbox
    <3>1. sock # 0 /\ sock \in 0..MaxSocks
      BY <1>4 DEF Read, AtWork, TypeOK
    <3>2. sock \in Socks
      BY <3>1 DEF Socks
    <3> QED BY <3>2 DEF TypeOK
  <2>2. inbox' \in [Socks -> 0..MaxInbox]
    <3>1. 0 \in 0..MaxInbox
      OBVIOUS
    <3> QED BY <1>4, <3>1 DEF Read, TypeOK
  <2>3. \/ pending' \in 0..inbox[sock] /\ phase' = "deliver" /\ UNCHANGED <<socks, queue>>
        \/ Stop("panicked") /\ UNCHANGED pending
    BY <1>4 DEF Read
  <2>4. pending' \in 0..MaxInbox
    <3>1. CASE pending' \in 0..inbox[sock]
      BY SMTT(20), <2>1, <3>1
    <3>2. CASE UNCHANGED pending
      BY <3>2 DEF TypeOK
    <3> QED BY <2>3, <3>1, <3>2
  <2>5. /\ phase' \in {"deliver"} \union Dead
        /\ socks' \in Seq(Socks) /\ Len(socks') <= SockCap
        /\ queue' \in Seq(1..MaxMsgs) /\ Len(queue') <= MsgCap
    <3>1. CASE phase' = "deliver" /\ UNCHANGED <<socks, queue>>
      BY <3>1 DEF TypeOK
    <3>2. CASE Stop("panicked")
      BY <3>2, StopTypes DEF Dead
    <3> QED BY <2>3, <3>1, <3>2
  <2>6. UNCHANGED <<kind, registry, conns, sock, hand, tried, fed, evq, server>>
    BY <1>4 DEF Read
  <2> QED BY <2>2, <2>4, <2>5, <2>6 DEF TypeOK, registry, conns
<1>5. CASE ReadEnds
  <2>1. \/ phase' = "sleep" /\ UNCHANGED <<socks, queue>>
        \/ Stop("ended")
    BY <1>5 DEF ReadEnds
  <2>2. /\ phase' \in {"sleep"} \union Dead
        /\ socks' \in Seq(Socks) /\ Len(socks') <= SockCap
        /\ queue' \in Seq(1..MaxMsgs) /\ Len(queue') <= MsgCap
    BY SMTT(20), <2>1, StopTypes DEF TypeOK, Dead
  <2>3. UNCHANGED <<kind, registry, conns, sock, hand, tried, pending, fed, inbox, evq, server>>
    BY <1>5 DEF ReadEnds
  <2> QED BY <2>2, <2>3 DEF TypeOK, registry, conns
<1>6. CASE Wake
  BY <1>6 DEF Wake, TypeOK, registry, conns
<1>7. CASE Deliver
  <2>1. pending' \in 0..MaxInbox /\ evq' \in 0..EvCap
    <3>1. \/ pending' = pending /\ evq' = evq
          \/ pending > 0 /\ evq < EvCap /\ pending' = pending - 1 /\ evq' = evq + 1
      BY <1>7 DEF Deliver
    <3>2. pending \in 0..MaxInbox /\ evq \in 0..EvCap /\ EvCap \in Nat /\ MaxInbox \in Nat
      BY DEF TypeOK
    <3>3. CASE pending' = pending /\ evq' = evq
      BY <3>2, <3>3
    <3>4. CASE pending > 0 /\ evq < EvCap /\ pending' = pending - 1 /\ evq' = evq + 1
      BY ONLY <3>2, <3>4
    <3> QED BY <3>1, <3>3, <3>4
  <2>2. phase' \in {phase, "select"}
    BY <1>7 DEF Deliver
  <2> QED BY <1>7, <2>1, <2>2 DEF Deliver, TypeOK, registry, conns
<1> QED BY <1>1, <1>2, <1>3, <1>4, <1>5, <1>6, <1>7, TakeTypes, WriteTypes DEF TaskStep

LEMMA TypeStep ==
    TypeOK /\ AtWork /\ ConnsInOrder /\ [Next]_vars => TypeOK'
<1> SUFFICES ASSUME TypeOK, AtWork, ConnsInOrder, [Next]_vars PROVE TypeOK'
  OBVIOUS
<1> USE TypeFacts
<1>1. CASE Feed
  <2>1. fed + 1 \in 1..MaxMsgs /\ fed + 1 \in 0..MaxMsgs
    <3>1. fed < MaxMsgs /\ fed \in Nat /\ MaxMsgs \in Nat
      BY <1>1 DEF Feed
    <3> QED BY ONLY <3>1
  <2>2. queue' \in Seq(1..MaxMsgs) /\ Len(queue') <= MsgCap
    <3> DEFINE S == 1..MaxMsgs
    <3>1. queue \in Seq(S) /\ fed + 1 \in S /\ Len(queue) < MsgCap /\ queue' = Append(queue, fed + 1)
      BY <1>1, <2>1 DEF Feed, TypeOK
    <3> HIDE DEF S
    <3>2. queue' \in Seq(S) /\ Len(queue') = Len(queue) + 1
      BY ONLY <3>1
    <3>3. Len(queue') <= MsgCap
      <4>1. Len(queue) \in Nat /\ MsgCap \in Nat
        OBVIOUS
      <4> QED BY ONLY <3>1, <3>2, <4>1
    <3> QED BY <3>2, <3>3 DEF S
  <2> QED BY <1>1, <2>1, <2>2 DEF Feed, TypeOK, registry, conns, task
<1>2. CASE HandOver
  <2>1. made \in Socks /\ made \in 0..made
    BY <1>2 DEF HandOver, ConnsInOrder, Socks, TypeOK
  <2>2. socks' \in Seq(Socks) /\ Len(socks') <= SockCap /\ handed' \in 0..made
    <3>1. CASE UNCHANGED <<socks, handed>>
      BY <3>1 DEF TypeOK
    <3>2. CASE SockRoom /\ socks' = Append(socks, made) /\ handed' = made
      BY SMTT(20), <2>1, <3>2 DEF SockRoom, TypeOK
    <3> QED BY <1>2, <3>1, <3>2 DEF HandOver
  <2> QED BY <1>2, <2>2 DEF HandOver, TypeOK, registry, task
<1> QED BY <1>1, <1>2, Steps, OutsideTypes, TaskTypes

-----------------------------------------------------------------------------
(* The task and its registration. *)

LEMMA WorkStep ==
    TypeOK /\ AtWork /\ ConnsInOrder /\ [Next]_vars => AtWork'
<1> SUFFICES ASSUME TypeOK, AtWork, ConnsInOrder, [Next]_vars PROVE AtWork'
  OBVIOUS
<1>1. CASE Outside
  BY <1>1, OutsideKeeps DEF AtWork
<1>2. CASE Feed \/ HandOver
  BY <1>2 DEF Feed, HandOver, task, AtWork
<1>3. CASE TakeSock
  <2>1. socks # <<>> /\ socks \in Seq(Socks)
    BY <1>3 DEF TakeSock, TypeOK
  <2>2. Head(socks) \in Socks
    BY <2>1
  <2>3. Head(socks) # 0
    BY <2>2, SizeAssumption DEF Socks
  <2> QED BY <1>3, <2>3 DEF TakeSock, NextSock, AtWork
<1>4. CASE SocksEnd \/ MsgsEnd
  BY <1>4 DEF SocksEnd, MsgsEnd, Stop, AtWork
<1>5. CASE TakeMsg
  <2>1. queue # <<>> /\ queue \in Seq(1..MaxMsgs)
    BY <1>5 DEF TakeMsg, TypeOK
  <2>2. Head(queue) \in 1..MaxMsgs
    <3> DEFINE S == 1..MaxMsgs
    <3>1. queue # <<>> /\ queue \in Seq(S)
      BY <2>1
    <3> HIDE DEF S
    <3>2. Head(queue) \in S
      BY <3>1
    <3> QED BY <3>2 DEF S
  <2>3. Head(queue) # 0
    BY <2>2, SizeAssumption
  <2> QED BY <1>5, <2>3 DEF TakeMsg, AtWork
<1>6. CASE EncodePanics \/ WriteEnds \/ WriteFails
  BY <1>6 DEF EncodePanics, WriteEnds, WriteFails, Stop, AtWork
<1>7. CASE Read \/ ReadEnds \/ Wake \/ Deliver
  BY <1>7 DEF Read, ReadEnds, Wake, Deliver, Stop, AtWork
<1> QED BY <1>1, <1>2, <1>3, <1>4, <1>5, <1>6, <1>7, Steps DEF TaskStep

LEMMA LeavesStep == TypeOK /\ LeavesFirst /\ [Next]_vars => LeavesFirst'
<1> SUFFICES ASSUME TypeOK, LeavesFirst, [Next]_vars PROVE LeavesFirst'
  OBVIOUS
<1>1. CASE UNCHANGED registry
  BY <1>1 DEF registry, LeavesFirst
<1>2. CASE WantLock
  BY <1>2 DEF WantLock, LeavesFirst
<1>3. CASE GetLock
  BY <1>3 DEF GetLock, LeavesFirst
<1>4. CASE Release \/ RelayLetsGo
  BY <1>4 DEF Release, RelayLetsGo, LeavesFirst
<1>5. ASSUME NEW s \in Socks, PeerLeaves(s) \/ PeerSends(s) PROVE UNCHANGED registry
  BY <1>5 DEF PeerLeaves, PeerSends
<1>6. CASE \/ Feed \/ Connect \/ FindUser \/ HandOver \/ ServerTakes \/ ServerLooksUp
           \/ Halted \/ UNCHANGED vars
  BY <1>1, <1>6 DEF Feed, Connect, FindUser, HandOver, ServerTakes, ServerLooksUp, Halted, vars
<1>7. CASE TaskStep
  BY <1>1, <1>7 DEF TaskStep, TakeSock, SocksEnd, TakeMsg, MsgsEnd, EncodePanics, WriteEnds,
     WriteFails, Read, ReadEnds, Wake, Deliver
<1> QED BY <1>1, <1>2, <1>3, <1>4, <1>5, <1>6, <1>7 DEF Next

\* Only these steps end a task.
LEMMA DeathsAre ==
    ASSUME [Next]_vars, Lives, phase' \in Dead
    PROVE  \/ kind # "udp" /\ ~serving /\ phase' = "ended"
           \/ kind # "listen" /\ ~relaying /\ phase' = "ended"
           \/ kind = "udp" /\ phase' = "panicked"
           \/ kind = "track" \/ kind = "listen"
<1>1. CASE Outside
  BY <1>1, OutsideKeeps DEF Lives
<1>2. CASE Feed \/ HandOver
  BY <1>2 DEF Feed, HandOver, task, Lives
<1>3. CASE TakeSock \/ TakeMsg \/ WriteEnds \/ Wake \/ Deliver
  BY <1>3 DEF TakeSock, NextSock, TakeMsg, WriteEnds, Wake, Deliver, Dead, Lives
<1>4. CASE SocksEnd \/ MsgsEnd \/ EncodePanics
  BY <1>4 DEF SocksEnd, MsgsEnd, EncodePanics, Stop
<1>5. CASE WriteFails \/ Read \/ ReadEnds
  BY <1>5 DEF WriteFails, Read, ReadEnds, Stop, Dead
<1> QED BY <1>1, <1>2, <1>3, <1>4, <1>5, Steps DEF TaskStep

\* A dead task stays as it is, and no step registers the session again.
LEMMA KindAndRegistration ==
    TypeOK /\ [Next]_vars =>
        /\ kind' = kind
        /\ registered' => registered
        /\ phase \in Dead => phase' = phase
<1> SUFFICES ASSUME TypeOK, [Next]_vars
             PROVE  /\ kind' = kind
                    /\ registered' => registered
                    /\ phase \in Dead => phase' = phase
  OBVIOUS
<1>1. CASE Outside
  <2>1. registered' => registered
    BY <1>1 DEF TypeOK, Outside, PeerLeaves, PeerSends, Connect, FindUser, WantLock, GetLock, Release,
       RelayLetsGo, ServerTakes, ServerLooksUp, Halted, vars, registry
  <2> QED BY <1>1, <2>1, OutsideKeeps
<1>2. CASE Feed \/ HandOver
  BY <1>2 DEF Feed, HandOver, task, registry
<1>3. CASE TaskStep
  <2>1. phase \notin Dead
    BY <1>3 DEF TaskStep, TakeSock, SocksEnd, TakeMsg, MsgsEnd, EncodePanics, WriteEnds,
       WriteFails, Read, ReadEnds, Wake, Deliver, Dead
  <2>2. kind' = kind /\ UNCHANGED registry
    BY <1>3 DEF TaskStep, TakeSock, SocksEnd, TakeMsg, MsgsEnd, EncodePanics, WriteEnds,
       WriteFails, Read, ReadEnds, Wake, Deliver
  <2> QED BY <2>1, <2>2 DEF registry
<1> QED BY <1>1, <1>2, <1>3, Steps

LEMMA ServedStep ==
    TypeOK /\ LeavesFirst /\ StaysServed /\ [Next]_vars => StaysServed'
<1> SUFFICES ASSUME TypeOK, LeavesFirst, StaysServed, [Next]_vars, registered'
             PROVE  /\ kind' = "events" => phase' \notin Dead
                    /\ kind' = "udp" => phase' # "ended"
  BY DEF StaysServed
<1>1. /\ registered /\ kind' = kind /\ serving /\ relaying
      /\ phase \in Dead => phase' = phase
      /\ kind = "events" => phase \notin Dead
      /\ kind = "udp" => phase # "ended"
  BY KindAndRegistration DEF LeavesFirst, StaysServed
<1>2. CASE Lives /\ phase' \in Dead
  BY <1>1, <1>2, DeathsAre
<1>3. CASE ~Lives \/ phase' \notin Dead
  BY <1>1, <1>3 DEF Lives, Dead
<1> QED BY <1>2, <1>3

-----------------------------------------------------------------------------
(* The connections. *)

LEMMA ConnsStep ==
    TypeOK /\ AtWork /\ ConnsInOrder /\ [Next]_vars => ConnsInOrder'
<1> SUFFICES ASSUME TypeOK, AtWork, ConnsInOrder, [Next]_vars PROVE ConnsInOrder'
  OBVIOUS
<1> USE TypeFacts
<1>0. /\ listener # "accept" => handed < made
      /\ sock <= handed /\ handed <= made
      /\ \A k \in DOMAIN socks : sock < socks[k] /\ socks[k] <= handed
      /\ \A j, k \in DOMAIN socks : j < k => socks[j] < socks[k]
      /\ Lives => handed = IF socks = <<>> THEN sock ELSE socks[Len(socks)]
      /\ socks \in Seq(Socks)
  BY DEF ConnsInOrder, TypeOK
<1>s. \A k \in DOMAIN socks : socks[k] \in Nat
  <2>1. \A k \in DOMAIN socks : socks[k] \in Socks
    BY ONLY <1>0, Elements
  <2>2. Socks \subseteq Nat
    BY SMTT(20) DEF Socks
  <2> QED BY ONLY <2>1, <2>2
<1>1. CASE Outside
  <2>1. listener' # "accept" => handed' < made'
    <3>1. CASE Connect
      BY SMTT(20), <1>0, <3>1 DEF Connect
    <3>2. CASE FindUser
      BY <1>0, <3>2 DEF FindUser
    <3>3. ASSUME NEW s \in Socks, PeerLeaves(s) \/ PeerSends(s)
          PROVE  UNCHANGED <<listener, made, handed>>
      BY <3>3 DEF PeerLeaves, PeerSends, conns
    <3>4. CASE \/ WantLock \/ GetLock \/ Release \/ RelayLetsGo \/ ServerTakes \/ ServerLooksUp
               \/ Halted \/ UNCHANGED vars
      BY <1>0, <3>4 DEF WantLock, GetLock, Release, RelayLetsGo, ServerTakes, ServerLooksUp,
         Halted, vars, conns
    <3> QED BY <1>0, <1>1, <3>1, <3>2, <3>3, <3>4 DEF Outside
  <2> QED BY <1>0, <1>1, <2>1, OutsideKeeps DEF ConnsInOrder, Lives
<1>2. CASE Feed
  BY <1>0, <1>2 DEF Feed, conns, task, ConnsInOrder, Lives
<1>3. CASE HandOver
  <2>1. CASE UNCHANGED <<socks, handed>> /\ phase \in Dead
    BY <1>0, <1>3, <2>1 DEF HandOver, task, ConnsInOrder, Lives
  <2>2. CASE socks' = Append(socks, made) /\ handed' = made
    <3>1. /\ \A i \in DOMAIN socks : i \in DOMAIN socks' /\ socks'[i] = socks[i]
          /\ Len(socks) + 1 \in DOMAIN socks' /\ socks'[Len(socks) + 1] = made
          /\ \A i \in DOMAIN socks' : i \in DOMAIN socks \/ i = Len(socks) + 1
          /\ \A i \in DOMAIN socks : i \in Nat \ {0} /\ i < Len(socks) + 1
      BY ONLY <1>0, <2>2, AppendEnds
    <3>2. Len(socks') = Len(socks) + 1 /\ socks' # <<>>
      BY SMTT(20), <1>0, <2>2
    <3>3. sock' = sock /\ made' = made /\ listener' = "accept" /\ handed < made
      BY <1>0, <1>3 DEF HandOver, task
    <3>4. \A k \in DOMAIN socks' : sock' < socks'[k] /\ socks'[k] <= handed'
      <4>1. /\ sock <= handed /\ handed < made /\ handed' = made /\ sock' = sock
            /\ sock \in Nat /\ handed \in Nat /\ made \in Nat
        BY <1>0, <2>2, <3>3
      <4>2. \A k \in DOMAIN socks : sock < socks[k] /\ socks[k] <= handed /\ socks[k] \in Nat
        BY <1>0, <1>s
      <4>3. \A b \in Nat : b <= handed => b <= made
        BY ONLY <4>1
      <4>4. sock' < made /\ made <= handed'
        BY ONLY <4>1
      <4> SUFFICES ASSUME NEW k \in DOMAIN socks'
                   PROVE  sock' < socks'[k] /\ socks'[k] <= handed'
        OBVIOUS
      <4>5. CASE k = Len(socks) + 1
        BY ONLY <3>1, <4>4, <4>5
      <4>6. CASE k \in DOMAIN socks
        BY ONLY <3>1, <4>1, <4>2, <4>3, <4>6
      <4> QED BY ONLY <3>1, <4>5, <4>6
    <3>5. \A j, k \in DOMAIN socks' : j < k => socks'[j] < socks'[k]
      <4> SUFFICES ASSUME NEW j \in DOMAIN socks', NEW k \in DOMAIN socks', j < k
                   PROVE  socks'[j] < socks'[k]
        OBVIOUS
      <4>1. j \in DOMAIN socks
        <5>1. Len(socks) \in Nat
          OBVIOUS
        <5>2. j = Len(socks) + 1 => k = Len(socks) + 1 \/ k < Len(socks) + 1
          BY <3>1
        <5>3. (j = Len(socks) + 1) => FALSE
          BY ONLY <5>1, <5>2, j < k, k \in DOMAIN socks', <3>1
        <5> QED BY <3>1, <5>3
      <4>2. socks'[j] = socks[j] /\ socks[j] \in Nat /\ socks[j] < made
        <5>1. socks'[j] = socks[j] /\ socks[j] \in Nat /\ socks[j] <= handed
          BY ONLY <1>0, <1>s, <3>1, <4>1
        <5>2. handed < made /\ handed \in Nat /\ made \in Nat
          BY <3>3
        <5> QED BY ONLY <5>1, <5>2
      <4> QED BY <1>0, <3>1, <4>1, <4>2
    <3>6. handed' = socks'[Len(socks')] /\ sock' <= handed'
      BY SMTT(20), <1>0, <2>2, <3>1, <3>2, <3>3
    <3> QED BY <3>2, <3>3, <3>4, <3>5, <3>6 DEF ConnsInOrder
  <2> QED BY <1>3, <2>1, <2>2 DEF HandOver
<1>4. CASE TakeSock
  <2>1. /\ socks # <<>> /\ sock' = Head(socks) /\ socks' = Tail(socks) /\ phase \notin Dead
        /\ UNCHANGED <<listener, made, handed>>
    BY <1>4 DEF TakeSock, NextSock, Dead
  <2>2. /\ sock' = socks[1] /\ 1 \in DOMAIN socks
        /\ Len(socks') = Len(socks) - 1
        /\ \A k \in DOMAIN socks' :
              k \in Nat \ {0} /\ k + 1 \in DOMAIN socks /\ socks'[k] = socks[k + 1]
    BY ONLY <1>0, <2>1, TailLeaves
  <2>3. \A k \in DOMAIN socks' : sock' < socks'[k] /\ socks'[k] <= handed'
    <3> SUFFICES ASSUME NEW k \in DOMAIN socks' PROVE sock' < socks'[k] /\ socks'[k] <= handed'
      OBVIOUS
    <3>1. k \in Nat \ {0} /\ k + 1 \in DOMAIN socks /\ socks'[k] = socks[k + 1]
      BY <2>2
    <3>2. 1 < k + 1 /\ k + 1 \in Nat
      BY ONLY <3>1
    <3>3. socks[1] < socks[k + 1] /\ socks[k + 1] <= handed
      BY <1>0, <2>2, <3>1, <3>2
    <3> QED BY <2>1, <2>2, <3>1, <3>3
  <2>4. \A j, k \in DOMAIN socks' : j < k => socks'[j] < socks'[k]
    <3> SUFFICES ASSUME NEW j \in DOMAIN socks', NEW k \in DOMAIN socks', j < k
                 PROVE  socks'[j] < socks'[k]
      OBVIOUS
    <3>1. /\ j \in Nat /\ j + 1 \in DOMAIN socks /\ socks'[j] = socks[j + 1]
          /\ k \in Nat /\ k + 1 \in DOMAIN socks /\ socks'[k] = socks[k + 1]
      BY <2>2
    <3>2. j + 1 < k + 1
      <4>1. \A a, b \in Nat : a < b => a + 1 < b + 1
        OBVIOUS
      <4> QED BY <3>1, <4>1
    <3> QED BY <1>0, <3>1, <3>2
  <2>5. handed' = IF socks' = <<>> THEN sock' ELSE socks'[Len(socks')]
    <3>1. handed = socks[Len(socks)]
      BY <1>0, <2>1 DEF Lives
    <3>2. CASE socks' = <<>>
      <4>1. Len(socks) = 1
        <5>1. Len(socks') = 0 /\ Len(socks) \in Nat
          BY <3>2
        <5>2. \A b \in Nat : b - 1 = 0 => b = 1
          OBVIOUS
        <5>3. Len(socks) - 1 = 0
          BY ONLY <2>2, <5>1
        <5> QED BY ONLY <5>1, <5>2, <5>3
      <4> QED BY <2>1, <2>2, <3>1, <3>2, <4>1
    <3>3. CASE socks' # <<>>
      <4>1. socks' \in Seq(Socks)
        BY <1>0, <2>1
      <4>2. Len(socks') \in DOMAIN socks'
        BY SMTT(20), <3>3, <4>1
      <4>3. socks'[Len(socks')] = socks[Len(socks)]
        BY <2>2, <4>2
      <4> QED BY <2>1, <3>1, <3>3, <4>3
    <3> QED BY <3>2, <3>3
  <2>6. sock' <= handed'
    BY <1>0, <2>1, <2>2
  <2> QED BY <1>0, <2>1, <2>3, <2>4, <2>5, <2>6 DEF ConnsInOrder
<1>5. CASE UNCHANGED <<conns, sock>> /\ socks' = <<>> /\ phase' \in Dead
  BY <1>0, <1>5 DEF conns, ConnsInOrder, Lives
<1>6. CASE UNCHANGED <<conns, sock, socks>> /\ phase \notin Dead
  BY <1>0, <1>6 DEF conns, ConnsInOrder, Lives
<1>7. CASE TaskStep /\ ~TakeSock
  <2>1. phase \notin Dead
    BY <1>7 DEF TaskStep, SocksEnd, TakeMsg, MsgsEnd, EncodePanics, WriteEnds, WriteFails, Read,
       ReadEnds, Wake, Deliver, Dead
  <2>2. CASE SocksEnd \/ MsgsEnd \/ EncodePanics
    BY <1>5, <2>2 DEF SocksEnd, MsgsEnd, EncodePanics, Stop, Dead
  <2>3. CASE TakeMsg \/ WriteEnds \/ Wake \/ Deliver
    BY <1>6, <2>1, <2>3 DEF TakeMsg, WriteEnds, Wake, Deliver
  <2>4. CASE WriteFails \/ Read \/ ReadEnds
    BY <1>5, <1>6, <2>1, <2>4 DEF WriteFails, Read, ReadEnds, Stop, Dead
  <2> QED BY <1>7, <2>2, <2>3, <2>4 DEF TaskStep
<1> QED BY <1>1, <1>2, <1>3, <1>4, <1>7, Steps

-----------------------------------------------------------------------------
(* The messages. *)

LEMMA MessagesStep ==
    TypeOK /\ AtWork /\ MessagesInOrder /\ [Next]_vars => MessagesInOrder'
<1> SUFFICES ASSUME TypeOK, AtWork, MessagesInOrder, [Next]_vars, Lives' PROVE MessagesInOrder'
  BY DEF MessagesInOrder
<1>0. /\ Len(tried) \in Nat /\ Len(queue) \in Nat /\ Started \in Nat /\ fed \in Nat
      /\ queue \in Seq(1..MaxMsgs) /\ tried \in Seq(Writes)
  BY TypeFacts DEF TypeOK, Writes, Started
<1>1. Lives
  BY KindAndRegistration DEF Lives
<1>2. /\ \A i \in DOMAIN tried : tried[i].msg = i
      /\ hand # 0 => hand = Len(tried) + 1
      /\ \A i \in DOMAIN queue : queue[i] = Started + i
      /\ fed = Started + Len(queue)
  BY <1>1 DEF MessagesInOrder
<1>3. CASE UNCHANGED <<tried, hand, queue, fed>>
  BY <1>2, <1>3 DEF MessagesInOrder, Started
<1>4. CASE Outside \/ HandOver
  BY <1>3, <1>4, OutsideKeeps DEF HandOver, task
<1>5. CASE Feed
  <2>1. queue' = Append(queue, fed + 1) /\ fed' = fed + 1 /\ UNCHANGED <<tried, hand>>
    BY <1>5 DEF Feed, task
  <2>2. /\ \A i \in DOMAIN queue' :
             \/ i \in DOMAIN queue /\ queue'[i] = queue[i]
             \/ i = Len(queue) + 1 /\ queue'[i] = fed + 1
        /\ Len(queue') = Len(queue) + 1
    <3> DEFINE S == 1..MaxMsgs
    <3>1. queue \in Seq(S)
      BY <1>0
    <3> HIDE DEF S
    <3> QED BY <2>1, <3>1
  <2>3. \A i \in DOMAIN queue' : queue'[i] = Started + i
    <3>1. Started + (Len(queue) + 1) = fed + 1
      BY <1>0, <1>2
    <3> QED BY <1>2, <2>2, <3>1
  <2>4. fed' = Started + Len(queue')
    BY <1>0, <1>2, <2>1, <2>2
  <2>5. Started' = Started
    BY <2>1 DEF Started
  <2> QED BY <1>2, <2>1, <2>3, <2>4, <2>5 DEF MessagesInOrder
<1>6. CASE TakeMsg
  <2>1. /\ hand = 0 /\ queue # <<>> /\ hand' = Head(queue) /\ queue' = Tail(queue)
        /\ UNCHANGED <<tried, fed>>
    BY <1>6 DEF TakeMsg, AtWork
  <2>2. /\ Head(queue) = queue[1] /\ 1 \in DOMAIN queue
        /\ Len(queue') = Len(queue) - 1
        /\ \A k \in DOMAIN queue' :
              k \in Nat \ {0} /\ k + 1 \in DOMAIN queue /\ queue'[k] = queue[k + 1]
    <3> DEFINE S == 1..MaxMsgs
    <3>1. queue \in Seq(S)
      BY <1>0
    <3> HIDE DEF S
    <3> QED BY <2>1, <3>1, TailLeaves
  <2>3. Started = Len(tried)
    BY <1>0, <2>1 DEF Started
  <2>4. hand' = Len(tried) + 1 /\ hand' # 0
    BY <1>0, <1>2, <2>1, <2>2, <2>3
  <2>5. Started' = Started + 1
    BY <1>0, <2>1, <2>3, <2>4 DEF Started
  <2>6. \A k \in DOMAIN queue' : queue'[k] = Started' + k
    <3> SUFFICES ASSUME NEW k \in DOMAIN queue' PROVE queue'[k] = Started' + k
      OBVIOUS
    <3>1. k \in Nat /\ queue'[k] = Started + (k + 1)
      BY <1>2, <2>2
    <3> QED BY <1>0, <2>5, <3>1
  <2>7. fed' = Started' + Len(queue')
    BY <1>0, <1>2, <2>1, <2>2, <2>5
  <2> QED BY <1>2, <2>1, <2>4, <2>6, <2>7 DEF MessagesInOrder
<1>7. CASE WriteEnds \/ WriteFails
  <2>1. /\ hand # 0 /\ hand' = 0 /\ tried' = Append(tried, [msg |-> hand, sock |-> sock])
        /\ UNCHANGED <<queue, fed>>
    BY <1>7 DEF WriteEnds, WriteFails, Tried, AtWork, Stop, Lives, Dead
  <2>2. /\ \A i \in DOMAIN tried' :
             \/ i \in DOMAIN tried /\ tried'[i] = tried[i]
             \/ i = Len(tried) + 1 /\ tried'[i] = [msg |-> hand, sock |-> sock]
        /\ Len(tried') = Len(tried) + 1
    BY <1>0, <2>1
  <2>3. \A i \in DOMAIN tried' : tried'[i].msg = i
    BY <1>2, <2>1, <2>2
  <2>4. Started' = Started
    BY <1>0, <2>1, <2>2 DEF Started
  <2> QED BY <1>2, <2>1, <2>3, <2>4 DEF MessagesInOrder
<1>8. CASE TakeSock \/ Wake \/ Deliver
  BY <1>3, <1>8 DEF TakeSock, Wake, Deliver
<1>9. CASE SocksEnd \/ MsgsEnd \/ EncodePanics
  BY <1>9 DEF SocksEnd, MsgsEnd, EncodePanics, Stop, Lives, Dead
<1>10. CASE Read \/ ReadEnds
  BY <1>3, <1>10 DEF Read, ReadEnds, Stop, Lives, Dead
<1> QED BY <1>4, <1>5, <1>6, <1>7, <1>8, <1>9, <1>10, Steps DEF TaskStep

LEMMA TriedStep ==
    TypeOK /\ ConnsInOrder /\ TriedInOrder /\ [Next]_vars => TriedInOrder'
<1> SUFFICES ASSUME TypeOK, ConnsInOrder, TriedInOrder, [Next]_vars PROVE TriedInOrder'
  OBVIOUS
<1>0. /\ \A i \in DOMAIN tried : tried[i].sock <= sock
      /\ \A i, j \in DOMAIN tried : i < j => tried[i].sock <= tried[j].sock
      /\ tried \in Seq(Writes) /\ Len(tried) \in Nat /\ sock \in Nat
      /\ DOMAIN tried = 1..Len(tried)
  BY TypeFacts DEF TriedInOrder, TypeOK, Writes
<1>1. CASE UNCHANGED <<tried, sock>>
  BY <1>0, <1>1 DEF TriedInOrder
<1>2. CASE TakeSock
  <2>1. tried' = tried /\ sock' = Head(socks) /\ socks # <<>> /\ socks \in Seq(Socks)
    BY <1>2 DEF TakeSock, NextSock, TypeOK
  <2>2. sock' = socks[1] /\ 1 \in DOMAIN socks /\ socks[1] \in Socks
    BY <2>1, TailLeaves
  <2>3. sock < sock' /\ sock' \in Nat
    BY <2>2, SizeAssumption DEF ConnsInOrder, Socks
  <2>4. \A i \in DOMAIN tried : tried[i].sock <= sock'
    <3>1. \A i \in DOMAIN tried : tried[i].sock \in Nat
      <4>1. \A i \in DOMAIN tried : tried[i] \in Writes
        BY <1>0
      <4>2. \A w \in Writes : w.sock \in Nat
        BY SizeAssumption DEF Writes
      <4> QED BY <4>1, <4>2
    <3> QED BY <1>0, <2>3, <3>1
  <2> QED BY <1>0, <2>1, <2>4 DEF TriedInOrder
<1>3. CASE WriteEnds \/ WriteFails
  <2>1. tried' = Append(tried, [msg |-> hand, sock |-> sock]) /\ sock' = sock
    BY <1>3 DEF WriteEnds, WriteFails, Tried
  <2>2. \A i \in DOMAIN tried' :
             \/ i \in DOMAIN tried /\ tried'[i] = tried[i]
             \/ i = Len(tried) + 1 /\ tried'[i] = [msg |-> hand, sock |-> sock]
    BY <1>0, <2>1
  <2>3. \A i \in DOMAIN tried' : tried'[i].sock <= sock
    BY <1>0, <2>2
  <2>4. \A i, j \in DOMAIN tried' : i < j => tried'[i].sock <= tried'[j].sock
    <3> SUFFICES ASSUME NEW i \in DOMAIN tried', NEW j \in DOMAIN tried', i < j
                 PROVE  tried'[i].sock <= tried'[j].sock
      OBVIOUS
    <3>1. CASE j \in DOMAIN tried
      <4>1. i \in DOMAIN tried
        <5>1. i \in DOMAIN tried \/ i = Len(tried) + 1
          BY <2>2
        <5>2. j < Len(tried) + 1
          BY <1>0, <3>1
        <5> QED BY <1>0, <3>1, <5>1, <5>2
      <4>2. tried'[i] = tried[i] /\ tried'[j] = tried[j]
        <5>1. \A k \in DOMAIN tried : k # Len(tried) + 1
          BY <1>0
        <5> QED BY <2>2, <3>1, <4>1, <5>1
      <4> QED BY <1>0, <3>1, <4>1, <4>2
    <3>2. CASE j \notin DOMAIN tried
      BY <2>2, <2>3, <3>2
    <3> QED BY <3>1, <3>2
  <2> QED BY <2>1, <2>3, <2>4 DEF TriedInOrder
<1>4. CASE Outside \/ Feed \/ HandOver
  BY <1>1, <1>4, OutsideKeeps DEF Feed, HandOver, task
<1>5. CASE TaskStep /\ ~TakeSock /\ ~WriteEnds /\ ~WriteFails
  BY <1>1, <1>5 DEF TaskStep, SocksEnd, TakeMsg, MsgsEnd, EncodePanics, Read, ReadEnds, Wake, Deliver
<1> QED BY <1>2, <1>3, <1>4, <1>5, Steps

-----------------------------------------------------------------------------
(* The theorems. *)

LEMMA SessionInit == Init => SessionInv
<1> SUFFICES ASSUME Init PROVE SessionInv
  OBVIOUS
<1>1. \A S : <<>> \in Seq(S) /\ Len(<<>>) = 0
  OBVIOUS
<1>2. /\ 0 \in 0..MaxSocks /\ 0 \in 0..MaxMsgs /\ 0 \in 0..MaxInbox /\ 0 \in 0..EvCap /\ 0 \in 0..0
      /\ 0 <= SockCap /\ 0 <= MsgCap
  BY SizeAssumption
<1>3. TypeOK
  <2>1. phase \in {"first", "select"}
    BY DEF Init
  <2>2. peer \in [Socks -> {"open", "closed", "reset"}] /\ inbox \in [Socks -> 0..MaxInbox]
    BY <1>2 DEF Init
  <2> QED BY <1>1, <1>2, <2>1, <2>2 DEF Init, TypeOK
<1>4. AtWork /\ LeavesFirst /\ StaysServed
  BY DEF Init, AtWork, LeavesFirst, StaysServed, Dead
<1>5. ConnsInOrder /\ MessagesInOrder /\ TriedInOrder
  BY <1>1 DEF Init, ConnsInOrder, MessagesInOrder, TriedInOrder, Started
<1> QED BY <1>3, <1>4, <1>5 DEF SessionInv

\* The invariant holds throughout.
THEOREM SessionInvariance == Spec => []SessionInv
<1>1. SessionInv /\ [Next]_vars => SessionInv'
  BY TypeStep, WorkStep, ConnsStep, LeavesStep, MessagesStep, TriedStep, ServedStep
     DEF SessionInv
<1> QED BY <1>1, SessionInit, PTL DEF Spec

\* The types: no channel ever holds more than its capacity.
THEOREM SessionTypes == Spec => []TypeOK
<1>1. SessionInv => TypeOK
  BY DEF SessionInv
<1> QED BY <1>1, SessionInvariance, PTL

\* A task that runs has tried the messages relayed to it in order and each once,
\* however its connections broke and were replaced, and never turned back to an
\* older connection.
THEOREM MessagesTriedOnce == Spec => []EachTriedOnce
<1>1. SessionInv => EachTriedOnce
  <2> SUFFICES ASSUME SessionInv, Lives
               PROVE  [i \in DOMAIN tried |-> tried[i].msg]
                         \o (IF hand = 0 THEN <<>> ELSE <<hand>>) \o queue = [i \in 1..fed |-> i]
    BY DEF EachTriedOnce, SessionInv, TriedInOrder, Lives
  <2>1. \A a, b \in Nat : [i \in 1..a |-> i] \o [i \in 1..b |-> a + i] = [i \in 1..(a + b) |-> i]
    OBVIOUS
  <2> DEFINE a == Len(tried)
             b == Len(queue)
  <2>2. /\ a \in Nat /\ b \in Nat /\ DOMAIN tried = 1..a /\ DOMAIN queue = 1..b
        /\ queue \in Seq(1..MaxMsgs)
    BY TypeFacts DEF SessionInv, TypeOK
  <2>3. /\ \A i \in DOMAIN tried : tried[i].msg = i
        /\ hand # 0 => hand = a + 1
        /\ \A i \in DOMAIN queue : queue[i] = a + (IF hand = 0 THEN 0 ELSE 1) + i
        /\ fed = a + (IF hand = 0 THEN 0 ELSE 1) + b
    BY DEF SessionInv, MessagesInOrder, Started
  <2> HIDE DEF a, b
  <2>4. [i \in DOMAIN tried |-> tried[i].msg] = [i \in 1..a |-> i]
    BY <2>2, <2>3
  <2>5. queue = [i \in 1..b |-> a + (IF hand = 0 THEN 0 ELSE 1) + i]
    <3> DEFINE S == 1..MaxMsgs
    <3>1. queue \in Seq(S) /\ Len(queue) = b
      BY <2>2 DEF b
    <3> HIDE DEF S
    <3>2. queue = [i \in 1..b |-> queue[i]]
      BY <3>1
    <3> QED BY <2>2, <2>3, <3>2
  <2>6. CASE hand = 0
    <3>1. [i \in 1..a |-> i] = [i \in 1..a |-> i] \o [i \in 1..0 |-> a + i]
      <4>1. 0 \in Nat /\ a + 0 = a
        BY <2>2
      <4> QED BY <2>1, <2>2, <4>1
    <3>2. <<>> = [i \in 1..0 |-> a + i]
      OBVIOUS
    <3>3. queue = [i \in 1..b |-> a + i] /\ fed = a + b
      BY <2>2, <2>3, <2>5, <2>6
    <3>4. [i \in 1..a |-> i] \o <<>> = [i \in 1..a |-> i]
      BY <3>1, <3>2
    <3>5. [i \in 1..a |-> i] \o queue = [i \in 1..fed |-> i]
      BY <2>1, <2>2, <3>3
    <3> QED BY <2>4, <2>6, <3>4, <3>5
  <2>7. CASE hand # 0
    <3>1. <<hand>> = [i \in 1..1 |-> a + i]
      BY <2>2, <2>3, <2>7
    <3>2. queue = [i \in 1..b |-> (a + 1) + i] /\ fed = (a + 1) + b /\ a + 1 \in Nat
      BY <2>2, <2>3, <2>5, <2>7
    <3>3. [i \in 1..a |-> i] \o <<hand>> = [i \in 1..(a + 1) |-> i]
      BY <2>1, <2>2, <3>1
    <3>4. [i \in 1..(a + 1) |-> i] \o queue = [i \in 1..fed |-> i]
      BY <2>1, <2>2, <3>2
    <3> QED BY <2>4, <2>7, <3>3, <3>4
  <2> QED BY <2>6, <2>7
<1> QED BY <1>1, SessionInvariance, PTL

\* The event sender of a registered session never ends, and its transmitters only
\* by a panic.
THEOREM TasksLast == Spec => []StaysServed
<1>1. SessionInv => StaysServed
  BY DEF SessionInv
<1> QED BY <1>1, SessionInvariance, PTL

\* The event sender starts each message on the newest connection handed to it.
THEOREM NewestConnection == Spec => StartsOnNewest
<1>1. SessionInv /\ [Next]_vars => [kind = "events" /\ hand = 0 /\ hand' # 0 => sock = handed]_vars
  <2> SUFFICES ASSUME SessionInv, [Next]_vars, kind = "events", hand = 0, hand' # 0
               PROVE  sock = handed
    OBVIOUS
  <2>1. TakeMsg
    <3>1. CASE Outside \/ Feed \/ HandOver
      BY <3>1, OutsideKeeps DEF Feed, HandOver, task
    <3>2. CASE TaskStep /\ ~TakeMsg
      BY <3>2 DEF TaskStep, TakeSock, SocksEnd, MsgsEnd, EncodePanics, WriteEnds, WriteFails,
         Read, ReadEnds, Wake, Deliver
    <3> QED BY <3>1, <3>2, Steps
  <2>2. socks = <<>> /\ phase = "select"
    BY <2>1 DEF TakeMsg, SockPending
  <2> QED BY <2>2 DEF SessionInv, ConnsInOrder, Lives, Dead
<1> QED BY <1>1, SessionInvariance, PTL DEF Spec, StartsOnNewest
=============================================================================
