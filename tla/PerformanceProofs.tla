-------------------------- MODULE PerformanceProofs --------------------------
(***************************************************************************)
(* Proofs about Performance, for any number of clients, tracks and events  *)
(* and every capacity, whichever writes fail: the remembered state is what *)
(* the events say, a client hears a start or a stop twice only after a     *)
(* loss, and the clients that differ from the server when all is delivered *)
(* are those that came too late or lost the last word.                     *)
(***************************************************************************)
EXTENDS Performance, TLAPS, SequenceTheorems, ListenerProofs

(* The inductive invariant. *)

States == {"out", "in", "left", "failed"}

\* A relay: a client has received a contiguous part of the log, from where it
\* joined.
Received(log, state, from, seen) ==
    \A c \in Clients :
        /\ state[c] = "out" => from[c] = 0 /\ seen[c] = <<>>
        /\ from[c] + Len(seen[c]) <= Len(log)
        /\ \A i \in DOMAIN seen[c] : seen[c][i] = log[from[c] + i]

RelayOK(M, log, state, from, seen) ==
    /\ log \in Seq(M)
    /\ state \in [Clients -> States]
    /\ from \in [Clients -> Nat]
    /\ seen \in [Clients -> Seq(M)]
    /\ Received(log, state, from, seen)

\* The tracks are broadcast in the order they were opened.
TracksInOrder ==
    /\ \A i \in DOMAIN tLog : tLog[i] = i
    /\ \A i \in DOMAIN trackChan : trackChan[i] = Len(tLog) + i
    /\ current = Len(tLog) + Len(trackChan) + (IF doing = "track" THEN 1 ELSE 0)

\* Two events about backing tracks with no other between them.
Follows(events, i, j) ==
    /\ i < j /\ events[i].kind # "ready" /\ events[j].kind # "ready"
    /\ \A k \in DOMAIN events : i < k /\ k < j => events[k].kind = "ready"

\* One track is started and stopped by turns, and a new one started first.
Alternates(events) ==
    \A i, j \in DOMAIN events : Follows(events, i, j) => InTurn(events[i], events[j])

StartsFirst(events) ==
    \A j \in DOMAIN events : events[j].kind = "stop" =>
        \E i \in DOMAIN events : i < j /\ events[i].kind # "ready"

\* What was said, sent or not, about the tracks opened so far.
SaidRight(said, track, on) ==
    /\ \A i \in DOMAIN said : said[i].about <= track
    /\ Alternates(said) /\ StartsFirst(said)
    /\ on <=> Told(said, track)

PerformanceInv ==
    /\ TypeOK
    /\ RelayOK(AllTracks, tLog, tState, tFrom, tSeen)
    /\ RelayOK(Events, eLog, eState, eFrom, eSeen)
    /\ TracksInOrder
    /\ SaidRight(Made, current, playing)

-----------------------------------------------------------------------------
(* The steps of a relay, as Broadcast defines them. *)

Broadcasts(m, log, state, from, seen, log2, state2, from2, seen2) ==
    log2 = Append(log, m) /\ state2 = state /\ from2 = from /\ seen2 = seen

Joins(c, log, state, from, seen, log2, state2, from2, seen2) ==
    /\ state[c] = "out" /\ state2 = [state EXCEPT ![c] = "in"]
    /\ from2 = [from EXCEPT ![c] = Len(log)]
    /\ log2 = log /\ seen2 = seen

Receives(c, log, state, from, seen, log2, state2, from2, seen2) ==
    /\ state[c] = "in" /\ from[c] + Len(seen[c]) < Len(log)
    /\ seen2 = [seen EXCEPT ![c] = Append(@, log[from[c] + Len(seen[c]) + 1])]
    /\ log2 = log /\ state2 = state /\ from2 = from

Goes(c, log, state, from, seen, log2, state2, from2, seen2) ==
    /\ \E s \in {"left", "failed"} : state2 = [state EXCEPT ![c] = s]
    /\ log2 = log /\ from2 = from /\ seen2 = seen

LEMMA BroadcastOK ==
    ASSUME NEW M, NEW m \in M, NEW log, NEW state, NEW from, NEW seen,
           NEW log2, NEW state2, NEW from2, NEW seen2,
           RelayOK(M, log, state, from, seen),
           Broadcasts(m, log, state, from, seen, log2, state2, from2, seen2)
    PROVE  RelayOK(M, log2, state2, from2, seen2)
<1>1. /\ log \in Seq(M) /\ from \in [Clients -> Nat] /\ seen \in [Clients -> Seq(M)]
      /\ state2 = state /\ from2 = from /\ seen2 = seen /\ log2 = Append(log, m)
  BY DEF RelayOK, Broadcasts
<1>2. /\ log2 \in Seq(M) /\ Len(log2) = Len(log) + 1 /\ Len(log) \in Nat
      /\ \A i \in 1..Len(log) : log2[i] = log[i]
  BY <1>1
<1>3. ASSUME NEW c \in Clients
      PROVE  /\ from[c] + Len(seen[c]) <= Len(log2)
             /\ \A i \in DOMAIN seen[c] : seen[c][i] = log2[from[c] + i]
  <2>1. /\ from[c] \in Nat /\ Len(seen[c]) \in Nat /\ DOMAIN seen[c] = 1..Len(seen[c])
        /\ from[c] + Len(seen[c]) <= Len(log)
        /\ \A i \in DOMAIN seen[c] : seen[c][i] = log[from[c] + i]
    BY <1>1 DEF RelayOK, Received
  <2>2. \A i \in DOMAIN seen[c] : from[c] + i \in 1..Len(log)
    BY <1>2, <2>1
  <2> QED BY SMTT(20), <1>2, <2>1, <2>2
<1> QED BY <1>1, <1>2, <1>3 DEF RelayOK, Received

LEMMA JoinOK ==
    ASSUME NEW M, NEW c \in Clients, NEW log, NEW state, NEW from, NEW seen,
           NEW log2, NEW state2, NEW from2, NEW seen2,
           RelayOK(M, log, state, from, seen),
           Joins(c, log, state, from, seen, log2, state2, from2, seen2)
    PROVE  RelayOK(M, log2, state2, from2, seen2)
<1>1. /\ log \in Seq(M) /\ from \in [Clients -> Nat] /\ seen \in [Clients -> Seq(M)]
      /\ state \in [Clients -> States] /\ Len(log) \in Nat
      /\ log2 = log /\ seen2 = seen /\ state[c] = "out"
      /\ state2 = [state EXCEPT ![c] = "in"] /\ from2 = [from EXCEPT ![c] = Len(log)]
  BY DEF RelayOK, Joins
<1>2. state2 \in [Clients -> States] /\ from2 \in [Clients -> Nat]
  BY <1>1 DEF States
<1>3. seen[c] = <<>>
  BY <1>1 DEF RelayOK, Received
<1>4. ASSUME NEW d \in Clients
      PROVE  /\ state2[d] = "out" => from2[d] = 0 /\ seen[d] = <<>>
             /\ from2[d] + Len(seen[d]) <= Len(log)
             /\ \A i \in DOMAIN seen[d] : seen[d][i] = log[from2[d] + i]
  <2>1. CASE d = c
    <3>1. Len(<<>>) = 0 /\ DOMAIN seen[d] = {}
      BY <1>3, <2>1
    <3>2. state2[d] = "in" /\ from2[d] = Len(log)
      BY <1>1, <2>1
    <3> QED BY <1>1, <1>3, <2>1, <3>1, <3>2
  <2>2. CASE d # c
    BY <1>1, <2>2 DEF RelayOK, Received
  <2> QED BY <2>1, <2>2
<1> QED BY <1>1, <1>2, <1>4 DEF RelayOK, Received

LEMMA ReceiveOK ==
    ASSUME NEW M, NEW c \in Clients, NEW log, NEW state, NEW from, NEW seen,
           NEW log2, NEW state2, NEW from2, NEW seen2,
           RelayOK(M, log, state, from, seen),
           Receives(c, log, state, from, seen, log2, state2, from2, seen2)
    PROVE  RelayOK(M, log2, state2, from2, seen2)
<1> DEFINE at == from[c] + Len(seen[c]) + 1
<1>1. /\ log \in Seq(M) /\ from \in [Clients -> Nat] /\ seen \in [Clients -> Seq(M)]
      /\ Len(log) \in Nat /\ from[c] \in Nat /\ Len(seen[c]) \in Nat /\ seen[c] \in Seq(M)
      /\ log2 = log /\ state2 = state /\ from2 = from /\ state[c] = "in"
      /\ from[c] + Len(seen[c]) < Len(log)
      /\ seen2 = [seen EXCEPT ![c] = Append(seen[c], log[at])]
  BY DEF RelayOK, Receives
<1>2. at \in 1..Len(log)
  BY <1>1
<1>3. at = from[c] + (Len(seen[c]) + 1) /\ at <= Len(log)
  BY <1>1, <1>2
<1> HIDE DEF at
<1>4. log[at] \in M
  BY <1>1, <1>2
<1>5. /\ Append(seen[c], log[at]) \in Seq(M) /\ Len(Append(seen[c], log[at])) = Len(seen[c]) + 1
      /\ \A i \in DOMAIN Append(seen[c], log[at]) :
            \/ i \in DOMAIN seen[c] /\ Append(seen[c], log[at])[i] = seen[c][i]
            \/ i = Len(seen[c]) + 1 /\ Append(seen[c], log[at])[i] = log[at]
  BY <1>1, <1>4
<1>6. seen2 \in [Clients -> Seq(M)]
  BY <1>1, <1>5
<1>7. ASSUME NEW d \in Clients
      PROVE  /\ state[d] = "out" => from[d] = 0 /\ seen2[d] = <<>>
             /\ from[d] + Len(seen2[d]) <= Len(log)
             /\ \A i \in DOMAIN seen2[d] : seen2[d][i] = log[from[d] + i]
  <2>1. CASE d = c
    <3>1. seen2[d] = Append(seen[c], log[at])
      BY <1>1, <2>1
    <3>2. \A i \in DOMAIN seen[c] : seen[c][i] = log[from[c] + i]
      BY DEF RelayOK, Received
    <3> QED BY <1>1, <1>3, <1>5, <2>1, <3>1, <3>2
  <2>2. CASE d # c
    BY <1>1, <2>2 DEF RelayOK, Received
  <2> QED BY <2>1, <2>2
<1> QED BY <1>1, <1>6, <1>7 DEF RelayOK, Received

LEMMA GoOK ==
    ASSUME NEW M, NEW c \in Clients, NEW log, NEW state, NEW from, NEW seen,
           NEW log2, NEW state2, NEW from2, NEW seen2,
           RelayOK(M, log, state, from, seen),
           Goes(c, log, state, from, seen, log2, state2, from2, seen2)
    PROVE  RelayOK(M, log2, state2, from2, seen2)
<1>1. PICK s \in {"left", "failed"} : state2 = [state EXCEPT ![c] = s]
  BY DEF Goes
<1>2. state \in [Clients -> States] /\ log2 = log /\ from2 = from /\ seen2 = seen
  BY DEF RelayOK, Goes
<1>3. state2 \in [Clients -> States] /\ \A d \in Clients : state2[d] = "out" => state[d] = "out"
  BY <1>1, <1>2 DEF States
<1> QED BY <1>2, <1>3 DEF RelayOK, Received

-----------------------------------------------------------------------------
(* The relays. *)

\* The commands and the sends of the loop do not touch the relays.
LoopStep == Command \/ SendTrack \/ SendEvent

LEMMA LoopLeaves == LoopStep => UNCHANGED <<trackRelay, eventRelay>>
BY DEF LoopStep, Command, OpenTrack, ToggleBacking, SayReady, Quit, SendTrack, SendEvent

LEMMA Steps ==
    [Next]_vars =>
        \/ LoopStep \/ RelayTrack \/ RelayEvent \/ UNCHANGED vars
        \/ \E c \in Clients :
              \/ DeliverTrack(c) \/ JoinTracks(c) \/ LoseTracks(c)
              \/ DeliverEvent(c) \/ JoinEvents(c) \/ LoseEvents(c)
BY DEF Next, LoopStep

LEMMA TrackRelayStep ==
    PerformanceInv /\ [Next]_vars => RelayOK(AllTracks, tLog', tState', tFrom', tSeen')
<1> SUFFICES ASSUME PerformanceInv, [Next]_vars
             PROVE  RelayOK(AllTracks, tLog', tState', tFrom', tSeen')
  OBVIOUS
<1>0. RelayOK(AllTracks, tLog, tState, tFrom, tSeen) /\ trackChan \in Seq(AllTracks)
  BY DEF PerformanceInv, TypeOK
<1>1. CASE UNCHANGED trackRelay
  BY <1>0, <1>1 DEF trackRelay
<1>2. CASE RelayTrack
  <2>1. trackChan # <<>> /\ TrackRelay!Send(Head(trackChan))
    BY <1>2 DEF RelayTrack
  <2>2. Head(trackChan) \in AllTracks
    BY <1>0, <2>1
  <2>3. Broadcasts(Head(trackChan), tLog, tState, tFrom, tSeen, tLog', tState', tFrom', tSeen')
    BY <2>1 DEF TrackRelay!Send, Broadcasts
  <2> QED BY <1>0, <2>2, <2>3, BroadcastOK
<1>3. ASSUME NEW c \in Clients, DeliverTrack(c)
      PROVE  RelayOK(AllTracks, tLog', tState', tFrom', tSeen')
  <2>1. Receives(c, tLog, tState, tFrom, tSeen, tLog', tState', tFrom', tSeen')
    BY <1>3 DEF DeliverTrack, TrackRelay!Deliver, TrackRelay!Position, Receives
  <2> QED BY <1>0, <2>1, ReceiveOK
<1>4. ASSUME NEW c \in Clients, JoinTracks(c)
      PROVE  RelayOK(AllTracks, tLog', tState', tFrom', tSeen')
  <2>1. Joins(c, tLog, tState, tFrom, tSeen, tLog', tState', tFrom', tSeen')
    BY <1>4 DEF JoinTracks, TrackRelay!Join, Joins
  <2> QED BY <1>0, <2>1, JoinOK
<1>5. ASSUME NEW c \in Clients, LoseTracks(c)
      PROVE  RelayOK(AllTracks, tLog', tState', tFrom', tSeen')
  <2>1. Goes(c, tLog, tState, tFrom, tSeen, tLog', tState', tFrom', tSeen')
    BY <1>5 DEF LoseTracks, TrackRelay!Leave, TrackRelay!Fail, Goes
  <2> QED BY <1>0, <2>1, GoOK
<1>6. CASE LoopStep \/ RelayEvent \/ UNCHANGED vars
  BY <1>1, <1>6, LoopLeaves DEF RelayEvent, vars
<1>7. ASSUME NEW c \in Clients, DeliverEvent(c) \/ JoinEvents(c) \/ LoseEvents(c)
      PROVE  UNCHANGED trackRelay
  BY <1>7 DEF DeliverEvent, JoinEvents, LoseEvents
<1> QED BY <1>1, <1>2, <1>3, <1>4, <1>5, <1>6, <1>7, Steps

LEMMA EventRelayStep ==
    PerformanceInv /\ [Next]_vars => RelayOK(Events, eLog', eState', eFrom', eSeen')
<1> SUFFICES ASSUME PerformanceInv, [Next]_vars
             PROVE  RelayOK(Events, eLog', eState', eFrom', eSeen')
  OBVIOUS
<1>0. RelayOK(Events, eLog, eState, eFrom, eSeen) /\ eventChan \in Seq(Events)
  BY DEF PerformanceInv, TypeOK
<1>1. CASE UNCHANGED eventRelay
  BY <1>0, <1>1 DEF eventRelay
<1>2. CASE RelayEvent
  <2>1. eventChan # <<>> /\ EventRelay!Send(Head(eventChan))
    BY <1>2 DEF RelayEvent
  <2>2. Head(eventChan) \in Events
    BY <1>0, <2>1
  <2>3. Broadcasts(Head(eventChan), eLog, eState, eFrom, eSeen, eLog', eState', eFrom', eSeen')
    BY <2>1 DEF EventRelay!Send, Broadcasts
  <2> QED BY <1>0, <2>2, <2>3, BroadcastOK
<1>3. ASSUME NEW c \in Clients, DeliverEvent(c)
      PROVE  RelayOK(Events, eLog', eState', eFrom', eSeen')
  <2>1. Receives(c, eLog, eState, eFrom, eSeen, eLog', eState', eFrom', eSeen')
    BY <1>3 DEF DeliverEvent, EventRelay!Deliver, EventRelay!Position, Receives
  <2> QED BY <1>0, <2>1, ReceiveOK
<1>4. ASSUME NEW c \in Clients, JoinEvents(c)
      PROVE  RelayOK(Events, eLog', eState', eFrom', eSeen')
  <2>1. Joins(c, eLog, eState, eFrom, eSeen, eLog', eState', eFrom', eSeen')
    BY <1>4 DEF JoinEvents, EventRelay!Join, Joins
  <2> QED BY <1>0, <2>1, JoinOK
<1>5. ASSUME NEW c \in Clients, LoseEvents(c)
      PROVE  RelayOK(Events, eLog', eState', eFrom', eSeen')
  <2>1. Goes(c, eLog, eState, eFrom, eSeen, eLog', eState', eFrom', eSeen')
    BY <1>5 DEF LoseEvents, EventRelay!Leave, EventRelay!Fail, Goes
  <2> QED BY <1>0, <2>1, GoOK
<1>6. CASE LoopStep \/ RelayTrack \/ UNCHANGED vars
  BY <1>1, <1>6, LoopLeaves DEF RelayTrack, vars
<1>7. ASSUME NEW c \in Clients, DeliverTrack(c) \/ JoinTracks(c) \/ LoseTracks(c)
      PROVE  UNCHANGED eventRelay
  BY <1>7 DEF DeliverTrack, JoinTracks, LoseTracks
<1> QED BY <1>1, <1>2, <1>3, <1>4, <1>5, <1>6, <1>7, Steps

\* What clients do changes only what they have received.
ClientStep ==
    \E c \in Clients :
        \/ DeliverTrack(c) \/ JoinTracks(c) \/ LoseTracks(c)
        \/ DeliverEvent(c) \/ JoinEvents(c) \/ LoseEvents(c)

LEMMA ClientLeaves ==
    ClientStep \/ UNCHANGED vars =>
        UNCHANGED <<doing, event, current, playing, trackChan, eventChan, tLog, eLog>>
BY DEF ClientStep, DeliverTrack, JoinTracks, LoseTracks, DeliverEvent, JoinEvents, LoseEvents,
   TrackRelay!Deliver, TrackRelay!Join, TrackRelay!Leave, TrackRelay!Fail,
   EventRelay!Deliver, EventRelay!Join, EventRelay!Leave, EventRelay!Fail,
   loop, trackRelay, eventRelay, vars

-----------------------------------------------------------------------------
(* The loop and its channels. *)

LEMMA EventTypes ==
    /\ NoEvent \in Events
    /\ \A e \in Events : e.kind \in {"start", "stop", "ready"} /\ e.about \in 0..MaxTracks
    /\ \A k \in {"start", "stop", "ready"}, t \in 0..MaxTracks : [kind |-> k, about |-> t] \in Events
    /\ MaxTracks \in Nat /\ ChanCap \in Nat
BY CapAssumption DEF NoEvent, Events

\* What was not written to a client is a set of positions.
LEMMA LostType ==
    PerformanceInv /\ [Next]_vars =>
        tLost' \in [Clients -> SUBSET Nat] /\ eLost' \in [Clients -> SUBSET Nat]
<1> SUFFICES ASSUME PerformanceInv, [Next]_vars
             PROVE  tLost' \in [Clients -> SUBSET Nat] /\ eLost' \in [Clients -> SUBSET Nat]
  OBVIOUS
<1>0. /\ tLost \in [Clients -> SUBSET Nat] /\ eLost \in [Clients -> SUBSET Nat]
      /\ \A c \in Clients : Len(tSeen[c]) + 1 \in Nat /\ Len(eSeen[c]) + 1 \in Nat
  BY DEF PerformanceInv, TypeOK
<1>1. ASSUME NEW c \in Clients, NEW lost \in [Clients -> SUBSET Nat], NEW n \in Nat
      PROVE  [lost EXCEPT ![c] = @ \union {n}] \in [Clients -> SUBSET Nat]
  OBVIOUS
<1>2. ASSUME NEW c \in Clients, DeliverTrack(c)
      PROVE  tLost' \in [Clients -> SUBSET Nat] /\ eLost' = eLost
  BY <1>0, <1>1, <1>2 DEF DeliverTrack, Written, eventRelay
<1>3. ASSUME NEW c \in Clients, DeliverEvent(c)
      PROVE  eLost' \in [Clients -> SUBSET Nat] /\ tLost' = tLost
  BY <1>0, <1>1, <1>3 DEF DeliverEvent, Written, trackRelay
<1>4. ASSUME NEW c \in Clients, JoinTracks(c) \/ LoseTracks(c) \/ JoinEvents(c) \/ LoseEvents(c)
      PROVE  UNCHANGED <<tLost, eLost>>
  BY <1>4 DEF JoinTracks, LoseTracks, JoinEvents, LoseEvents, trackRelay, eventRelay
<1>5. CASE LoopStep
  BY <1>0, <1>5, LoopLeaves DEF trackRelay, eventRelay
<1>6. CASE RelayTrack \/ RelayEvent \/ UNCHANGED vars
  BY <1>0, <1>6 DEF RelayTrack, RelayEvent, trackRelay, eventRelay, vars
<1> QED BY <1>0, <1>2, <1>3, <1>4, <1>5, <1>6, Steps

LEMMA TypeStep == PerformanceInv /\ [Next]_vars => TypeOK'
<1> SUFFICES ASSUME PerformanceInv, [Next]_vars PROVE TypeOK'
  OBVIOUS
<1> USE EventTypes
<1>0. /\ doing \in {"read", "track", "event", "ended"} /\ event \in Events
      /\ current \in 0..MaxTracks /\ playing \in BOOLEAN
      /\ trackChan \in Seq(AllTracks) /\ Len(trackChan) <= ChanCap
      /\ eventChan \in Seq(Events) /\ Len(eventChan) <= ChanCap
  BY DEF PerformanceInv, TypeOK
<1>1. /\ tLog' \in Seq(AllTracks) /\ eLog' \in Seq(Events)
      /\ \A c \in Clients : tSeen'[c] \in Seq(AllTracks) /\ eSeen'[c] \in Seq(Events)
  <2>1. RelayOK(AllTracks, tLog', tState', tFrom', tSeen')
    BY TrackRelayStep
  <2>2. RelayOK(Events, eLog', eState', eFrom', eSeen')
    BY EventRelayStep
  <2> QED BY <2>1, <2>2 DEF RelayOK
<1>2. ASSUME /\ doing' \in {"read", "track", "event", "ended"} /\ event' \in Events
             /\ current' \in 0..MaxTracks /\ playing' \in BOOLEAN
             /\ trackChan' \in Seq(AllTracks) /\ Len(trackChan') <= ChanCap
             /\ eventChan' \in Seq(Events) /\ Len(eventChan') <= ChanCap
      PROVE  TypeOK'
  BY <1>1, <1>2, LostType DEF TypeOK
<1>3. CASE OpenTrack
  <2>1. current' \in 0..MaxTracks
    BY <1>0, <1>3 DEF OpenTrack
  <2> QED BY <1>0, <1>2, <1>3, <2>1 DEF OpenTrack
<1>4. CASE ToggleBacking \/ SayReady
  <2>1. event' \in Events /\ doing' = "event" /\ playing' \in BOOLEAN
    BY <1>0, <1>4 DEF ToggleBacking, SayReady, MakeEvent
  <2> QED BY <1>0, <1>2, <1>4, <2>1 DEF ToggleBacking, SayReady
<1>5. CASE Quit \/ ClientStep \/ UNCHANGED vars
  BY <1>0, <1>2, <1>5, ClientLeaves DEF Quit
<1>6. CASE SendTrack
  <2>1. current \in AllTracks
    <3>1. current # 0
      BY <1>6 DEF PerformanceInv, TracksInOrder, RelayOK, SendTrack
    <3> QED BY <1>0, <3>1 DEF AllTracks
  <2>2. trackChan' \in Seq(AllTracks) /\ Len(trackChan') <= ChanCap
    BY <1>0, <1>6, <2>1 DEF SendTrack
  <2> QED BY <1>0, <1>2, <1>6, <2>2 DEF SendTrack
<1>7. CASE SendEvent
  <2>1. eventChan' \in Seq(Events) /\ Len(eventChan') <= ChanCap
    BY <1>0, <1>7 DEF SendEvent
  <2> QED BY <1>0, <1>2, <1>7, <2>1 DEF SendEvent
<1>8. CASE RelayTrack
  <2>1. trackChan # <<>> /\ trackChan' = Tail(trackChan)
    BY <1>8 DEF RelayTrack
  <2>2. trackChan' \in Seq(AllTracks) /\ Len(trackChan') = Len(trackChan) - 1
    BY <1>0, <2>1, TailLeaves
  <2>3. Len(trackChan') <= ChanCap
    BY <1>0, <2>2
  <2> QED BY <1>0, <1>2, <1>8, <2>2, <2>3 DEF RelayTrack, loop
<1>9. CASE RelayEvent
  <2>1. eventChan # <<>> /\ eventChan' = Tail(eventChan)
    BY <1>9 DEF RelayEvent
  <2>2. eventChan' \in Seq(Events) /\ Len(eventChan') = Len(eventChan) - 1
    BY <1>0, <2>1, TailLeaves
  <2>3. Len(eventChan') <= ChanCap
    BY <1>0, <2>2
  <2> QED BY <1>0, <1>2, <1>9, <2>2, <2>3 DEF RelayEvent, loop
<1> QED BY <1>3, <1>4, <1>5, <1>6, <1>7, <1>8, <1>9, Steps DEF LoopStep, Command, ClientStep

LEMMA TracksStep == PerformanceInv /\ [Next]_vars => TracksInOrder'
<1> SUFFICES ASSUME PerformanceInv, [Next]_vars PROVE TracksInOrder'
  OBVIOUS
<1>0. /\ trackChan \in Seq(AllTracks) /\ tLog \in Seq(AllTracks)
      /\ Len(tLog) \in Nat /\ Len(trackChan) \in Nat
      /\ \A i \in DOMAIN tLog : tLog[i] = i
      /\ \A i \in DOMAIN trackChan : trackChan[i] = Len(tLog) + i
      /\ current = Len(tLog) + Len(trackChan) + (IF doing = "track" THEN 1 ELSE 0)
  BY DEF PerformanceInv, TypeOK, TracksInOrder
<1>1. CASE UNCHANGED <<tLog, trackChan, current>> /\ (doing' = "track" <=> doing = "track")
  BY <1>0, <1>1 DEF TracksInOrder
<1>2. CASE OpenTrack
  <2>1. /\ doing = "read" /\ doing' = "track" /\ current' = current + 1
        /\ UNCHANGED <<tLog, trackChan>>
    BY <1>2 DEF OpenTrack, trackRelay
  <2> QED BY <1>0, <2>1 DEF TracksInOrder
<1>3. CASE ToggleBacking \/ SayReady \/ Quit \/ SendEvent
  BY <1>1, <1>3 DEF ToggleBacking, SayReady, MakeEvent, Quit, SendEvent, trackRelay
<1>4. CASE ClientStep \/ UNCHANGED vars
  BY <1>1, <1>4, ClientLeaves
<1>5. CASE SendTrack
  <2>1. /\ doing = "track" /\ doing' = "read" /\ trackChan' = Append(trackChan, current)
        /\ UNCHANGED <<current, tLog>>
    BY <1>5 DEF SendTrack, trackRelay
  <2>2. /\ \A i \in DOMAIN trackChan' :
             \/ i \in DOMAIN trackChan /\ trackChan'[i] = trackChan[i]
             \/ i = Len(trackChan) + 1 /\ trackChan'[i] = current
        /\ Len(trackChan') = Len(trackChan) + 1
    BY <1>0, <2>1
  <2>3. current = Len(tLog) + (Len(trackChan) + 1)
    BY <1>0, <2>1
  <2>4. \A i \in DOMAIN trackChan' : trackChan'[i] = Len(tLog) + i
    BY <1>0, <2>2, <2>3
  <2>5. current' = Len(tLog') + Len(trackChan') + 0
    BY <1>0, <2>1, <2>2, <2>3
  <2> QED BY <1>0, <2>1, <2>4, <2>5 DEF TracksInOrder
<1>6. CASE RelayTrack
  <2>1. /\ trackChan # <<>> /\ tLog' = Append(tLog, Head(trackChan)) /\ trackChan' = Tail(trackChan)
        /\ UNCHANGED <<current, doing>>
    BY <1>6 DEF RelayTrack, TrackRelay!Send, loop
  <2>2. /\ Head(trackChan) = trackChan[1] /\ 1 \in DOMAIN trackChan
        /\ Len(trackChan') = Len(trackChan) - 1
        /\ \A k \in DOMAIN trackChan' :
              k \in Nat \ {0} /\ k + 1 \in DOMAIN trackChan /\ trackChan'[k] = trackChan[k + 1]
    BY <1>0, <2>1, TailLeaves
  <2>3. /\ \A i \in DOMAIN tLog' :
             \/ i \in DOMAIN tLog /\ tLog'[i] = tLog[i]
             \/ i = Len(tLog) + 1 /\ tLog'[i] = Head(trackChan)
        /\ Len(tLog') = Len(tLog) + 1
    BY <1>0, <2>1
  <2>4. \A i \in DOMAIN tLog' : tLog'[i] = i
    BY <1>0, <2>2, <2>3
  <2>5. \A k \in DOMAIN trackChan' : trackChan'[k] = Len(tLog') + k
    <3> SUFFICES ASSUME NEW k \in DOMAIN trackChan' PROVE trackChan'[k] = Len(tLog') + k
      OBVIOUS
    <3>1. k \in Nat /\ trackChan'[k] = Len(tLog) + (k + 1)
      BY <1>0, <2>2
    <3> QED BY <1>0, <2>3, <3>1
  <2>6. Len(tLog') + Len(trackChan') = Len(tLog) + Len(trackChan)
    BY <1>0, <2>2, <2>3
  <2> QED BY <1>0, <2>1, <2>4, <2>5, <2>6 DEF TracksInOrder
<1>7. CASE RelayEvent
  BY <1>1, <1>7 DEF RelayEvent, loop, trackRelay
<1> QED BY <1>2, <1>3, <1>4, <1>5, <1>6, <1>7, Steps DEF LoopStep, Command, ClientStep

-----------------------------------------------------------------------------
(* What is said. *)

LEMMA LongerIs ==
    ASSUME NEW said \in Seq(Events), NEW e \in Events
    PROVE  /\ Append(said, e) \in Seq(Events) /\ Len(said) \in Nat
           /\ DOMAIN said = 1..Len(said) /\ DOMAIN Append(said, e) = 1..(Len(said) + 1)
           /\ \A i \in 1..Len(said) : Append(said, e)[i] = said[i] /\ said[i] \in Events
           /\ Append(said, e)[Len(said) + 1] = e
OBVIOUS

\* Whatever is said next, what was said before still follows on itself.
LEMMA FollowsBefore ==
    ASSUME NEW said \in Seq(Events), NEW e \in Events,
           NEW i \in DOMAIN Append(said, e), NEW j \in DOMAIN Append(said, e),
           Follows(Append(said, e), i, j)
    PROVE  /\ i \in DOMAIN said /\ Append(said, e)[i] = said[i] /\ said[i].kind # "ready"
           /\ \/ j \in DOMAIN said /\ Append(said, e)[j] = said[j] /\ Follows(said, i, j)
              \/ /\ j = Len(said) + 1 /\ Append(said, e)[j] = e /\ e.kind # "ready"
                 /\ \A k \in DOMAIN said : i < k => said[k].kind = "ready"
<1> DEFINE longer == Append(said, e)
           n == Len(said)
<1>1. /\ n \in Nat /\ DOMAIN said = 1..n /\ DOMAIN longer = 1..(n + 1)
      /\ \A k \in 1..n : longer[k] = said[k]
      /\ longer[n + 1] = e
  BY LongerIs
<1>2. /\ i < j /\ longer[i].kind # "ready" /\ longer[j].kind # "ready"
      /\ \A k \in DOMAIN longer : i < k /\ k < j => longer[k].kind = "ready"
  BY DEF Follows
<1>3. i \in DOMAIN longer /\ j \in DOMAIN longer
  OBVIOUS
<1> HIDE DEF longer, n
<1>4. i \in 1..n
  BY <1>1, <1>2, <1>3
<1>5. CASE j \in 1..n
  <2>1. \A k \in 1..n : k \in 1..(n + 1)
    BY <1>1
  <2>2. Follows(said, i, j)
    BY <1>1, <1>2, <1>4, <1>5, <2>1 DEF Follows
  <2> QED BY <1>1, <1>2, <1>4, <1>5, <2>2 DEF longer, n
<1>6. CASE j = n + 1
  <2>1. \A k \in 1..n : k \in 1..(n + 1) /\ k < n + 1
    BY <1>1
  <2>2. \A k \in DOMAIN said : i < k => said[k].kind = "ready"
    BY <1>1, <1>2, <1>6, <2>1
  <2> QED BY <1>1, <1>2, <1>4, <1>6, <2>2 DEF longer, n
<1> QED BY <1>1, <1>3, <1>5, <1>6

\* An event that is not about the tracks.
LEMMA ReadySaid ==
    ASSUME NEW said \in Seq(Events), NEW track \in Nat, NEW on \in BOOLEAN, track <= MaxTracks,
           SaidRight(said, track, on)
    PROVE  SaidRight(Append(said, [kind |-> "ready", about |-> track]), track, on)
<1> DEFINE e == [kind |-> "ready", about |-> track]
           longer == Append(said, e)
           n == Len(said)
<1>1. e \in Events /\ e.kind = "ready" /\ e.about = track
  BY EventTypes
<1> HIDE DEF e
<1>2. /\ n \in Nat /\ DOMAIN said = 1..n /\ DOMAIN longer = 1..(n + 1)
      /\ \A i \in 1..n : longer[i] = said[i]
      /\ longer[n + 1] = e
      /\ \A i \in 1..(n + 1) : i \in 1..n \/ i = n + 1
      /\ \A i \in 1..n : i \in 1..(n + 1)
  BY <1>1, LongerIs
<1>3. /\ \A i \in DOMAIN said : said[i].about <= track
      /\ Alternates(said) /\ StartsFirst(said)
      /\ on <=> Told(said, track)
  BY DEF SaidRight
<1>4. Alternates(longer)
  <2> SUFFICES ASSUME NEW i \in DOMAIN longer, NEW j \in DOMAIN longer, Follows(longer, i, j)
               PROVE  InTurn(longer[i], longer[j])
    BY DEF Alternates
  <2>1. i \in DOMAIN said /\ j \in DOMAIN said /\ longer[i] = said[i] /\ longer[j] = said[j]
        /\ Follows(said, i, j)
    BY <1>1, FollowsBefore
  <2> QED BY <1>3, <2>1 DEF Alternates
<1> HIDE DEF longer, n
<1>5. \A i \in DOMAIN longer : longer[i].about <= track
  BY <1>1, <1>2, <1>3
<1>6. StartsFirst(longer)
  BY <1>1, <1>2, <1>3 DEF StartsFirst
<1>7. Told(longer, track) <=> Told(said, track)
  <2>1. ASSUME Told(longer, track) PROVE Told(said, track)
    <3>1. PICK i \in DOMAIN longer : /\ longer[i] = [kind |-> "start", about |-> track]
                                     /\ \A j \in DOMAIN longer : i < j => longer[j].kind = "ready"
      BY <2>1 DEF Told
    <3>2. i \in 1..n
      BY <1>1, <1>2, <3>1
    <3> QED BY <1>2, <3>1, <3>2 DEF Told
  <2>2. ASSUME Told(said, track) PROVE Told(longer, track)
    <3>1. PICK i \in DOMAIN said : /\ said[i] = [kind |-> "start", about |-> track]
                                   /\ \A j \in DOMAIN said : i < j => said[j].kind = "ready"
      BY <2>2 DEF Told
    <3> QED BY <1>1, <1>2, <3>1 DEF Told
  <2> QED BY <2>1, <2>2
<1> QED BY <1>3, <1>4, <1>5, <1>6, <1>7 DEF SaidRight, longer, e

\* The start of a track that is not playing, or the stop of one that is.
LEMMA ToggleSaid ==
    ASSUME NEW said \in Seq(Events), NEW track \in Nat, NEW on \in BOOLEAN, track <= MaxTracks,
           SaidRight(said, track, on)
    PROVE  SaidRight(Append(said, [kind |-> IF on THEN "stop" ELSE "start", about |-> track]),
                     track, ~on)
<1> DEFINE e == [kind |-> IF on THEN "stop" ELSE "start", about |-> track]
           longer == Append(said, e)
           n == Len(said)
<1>1. /\ e \in Events /\ e.about = track /\ e.kind # "ready"
      /\ on => e.kind = "stop"
      /\ ~on => e.kind = "start" /\ e = [kind |-> "start", about |-> track]
  BY EventTypes
<1> HIDE DEF e
<1>2. /\ n \in Nat /\ DOMAIN said = 1..n /\ DOMAIN longer = 1..(n + 1)
      /\ \A i \in 1..n : longer[i] = said[i] /\ said[i] \in Events
      /\ longer[n + 1] = e
      /\ \A i \in 1..(n + 1) : i \in 1..n \/ i = n + 1
      /\ \A i \in 1..n : i \in 1..(n + 1) /\ i < n + 1
      /\ n + 1 \in 1..(n + 1) /\ \A i \in 1..(n + 1) : ~(n + 1 < i)
  BY <1>1, LongerIs
<1>3. /\ \A i \in DOMAIN said : said[i].about <= track
      /\ Alternates(said) /\ StartsFirst(said)
      /\ on <=> Told(said, track)
  BY DEF SaidRight
<1>4. ASSUME on
      PROVE  \E i \in DOMAIN said : /\ said[i] = [kind |-> "start", about |-> track]
                                    /\ \A j \in DOMAIN said : i < j => said[j].kind = "ready"
  BY <1>3, <1>4 DEF Told
<1>5. Alternates(longer)
  <2> SUFFICES ASSUME NEW i \in DOMAIN longer, NEW j \in DOMAIN longer, Follows(longer, i, j)
               PROVE  InTurn(longer[i], longer[j])
    BY DEF Alternates
  <2>1. /\ i \in DOMAIN said /\ longer[i] = said[i] /\ said[i].kind # "ready"
        /\ \/ j \in DOMAIN said /\ longer[j] = said[j] /\ Follows(said, i, j)
           \/ /\ longer[j] = e
              /\ \A k \in DOMAIN said : i < k => said[k].kind = "ready"
    BY <1>1, FollowsBefore
  <2>2. CASE j \in DOMAIN said /\ longer[j] = said[j] /\ Follows(said, i, j)
    BY <1>3, <2>1, <2>2 DEF Alternates
  <2>3. CASE longer[j] = e /\ \A k \in DOMAIN said : i < k => said[k].kind = "ready"
    <3>1. CASE on
      <4>1. PICK k \in DOMAIN said : /\ said[k] = [kind |-> "start", about |-> track]
                                     /\ \A l \in DOMAIN said : k < l => said[l].kind = "ready"
        BY <1>4, <3>1
      <4>2. said[k].kind = "start" /\ said[k].about = track
        BY <4>1
      <4>3. ~(i < k) /\ ~(k < i)
        BY <2>1, <2>3, <4>1, <4>2
      <4>4. i = k
        BY <1>2, <2>1, <4>3
      <4> QED BY <1>1, <2>1, <2>3, <3>1, <4>2, <4>4 DEF InTurn
    <3>2. CASE ~on
      <4>1. said[i] # [kind |-> "start", about |-> track]
        BY <1>3, <2>1, <2>3, <3>2 DEF Told
      <4>2. said[i].kind = "start" => said[i].about # track
        <5>1. said[i] \in [kind : {"start", "stop", "ready"}, about : 0..MaxTracks]
          BY <1>2, <2>1 DEF Events
        <5> QED BY <4>1, <5>1
      <4> QED BY <1>1, <2>1, <2>3, <3>2, <4>2 DEF InTurn
    <3> QED BY <3>1, <3>2
  <2> QED BY <2>1, <2>2, <2>3
<1> HIDE DEF longer, n
<1>6. \A i \in DOMAIN longer : longer[i].about <= track
  BY <1>1, <1>2, <1>3
<1>7. StartsFirst(longer)
  <2> SUFFICES ASSUME NEW j \in DOMAIN longer, longer[j].kind = "stop"
               PROVE  \E i \in DOMAIN longer : i < j /\ longer[i].kind # "ready"
    BY DEF StartsFirst
  <2>1. CASE j \in 1..n
    BY <1>2, <1>3, <2>1 DEF StartsFirst
  <2>2. CASE j = n + 1
    <3>1. on
      BY <1>1, <1>2, <2>2
    <3>2. PICK i \in DOMAIN said : said[i] = [kind |-> "start", about |-> track]
      BY <1>4, <3>1
    <3>3. said[i].kind # "ready"
      BY <3>2
    <3> QED BY <1>2, <2>2, <3>3
  <2> QED BY <1>2, <2>1, <2>2
<1>8. ~on <=> Told(longer, track)
  <2>1. ASSUME on, Told(longer, track) PROVE FALSE
    <3>1. PICK i \in DOMAIN longer : /\ longer[i] = [kind |-> "start", about |-> track]
                                     /\ \A j \in DOMAIN longer : i < j => longer[j].kind = "ready"
      BY <2>1 DEF Told
    <3>2. longer[i].kind = "start"
      BY <3>1
    <3> QED BY <1>1, <1>2, <2>1, <3>1, <3>2
  <2>2. ASSUME ~on PROVE Told(longer, track)
    BY <1>1, <1>2, <2>2 DEF Told
  <2> QED BY <2>1, <2>2
<1> QED BY <1>5, <1>6, <1>7, <1>8 DEF SaidRight, longer, e

\* Nothing has been said of the next track.
LEMMA OpenSaid ==
    ASSUME NEW said \in Seq(Events), NEW track \in Nat, NEW on \in BOOLEAN,
           SaidRight(said, track, on)
    PROVE  SaidRight(said, track + 1, FALSE)
<1>1. ASSUME NEW i \in DOMAIN said PROVE said[i].about <= track + 1 /\ said[i].about # track + 1
  <2>1. said[i].about \in Nat /\ said[i].about <= track
    <3>1. said[i] \in Events
      OBVIOUS
    <3>2. said[i].about \in 0..MaxTracks
      BY <3>1, EventTypes
    <3> QED BY <3>2 DEF SaidRight
  <2> QED BY <2>1
<1>2. ~Told(said, track + 1)
  <2> SUFFICES ASSUME NEW i \in DOMAIN said, said[i] = [kind |-> "start", about |-> track + 1]
               PROVE  FALSE
    BY DEF Told
  <2>1. said[i].about = track + 1
    OBVIOUS
  <2> QED BY <1>1, <2>1
<1> QED BY <1>1, <1>2 DEF SaidRight

-----------------------------------------------------------------------------
(* Everything said, sent or not. *)

Pending == IF doing = "event" THEN <<event>> ELSE <<>>

LEMMA Moved ==
    ASSUME NEW S, NEW s \in Seq(S), NEW t \in Seq(S), t # <<>>, NEW h \in Seq(S)
    PROVE  Append(s, Head(t)) \o Tail(t) \o h = s \o t \o h
<1>1. Head(t) \in S /\ Tail(t) \in Seq(S) /\ t = <<Head(t)>> \o Tail(t)
  <2>1. Head(t) \in S /\ Head(t) = t[1] /\ Tail(t) \in Seq(S) /\ Len(Tail(t)) = Len(t) - 1
    BY TailLeaves
  <2>2. <<Head(t)>> \o Tail(t) \in Seq(S) /\ Len(<<Head(t)>> \o Tail(t)) = Len(t)
    BY <2>1
  <2>3. \A i \in 1..Len(t) : (<<Head(t)>> \o Tail(t))[i] = t[i]
    BY <2>1
  <2> QED BY <2>1, <2>2, <2>3, SeqEqual
<1>2. Append(s, Head(t)) = s \o <<Head(t)>>
  BY <1>1, AppendIsConcat
<1>3. (s \o <<Head(t)>>) \o Tail(t) = s \o (<<Head(t)>> \o Tail(t))
  BY <1>1, ConcatAssociative
<1> QED BY <1>1, <1>2, <1>3

LEMMA HandedOn ==
    ASSUME NEW S, NEW s \in Seq(S), NEW t \in Seq(S), NEW e \in S
    PROVE  /\ s \o Append(t, e) \o <<>> = s \o t \o <<e>>
           /\ s \o t \o <<e>> = Append(s \o t \o <<>>, e)
           /\ s \o t \o <<>> \in Seq(S) /\ s \o t \o <<e>> \in Seq(S)
           /\ s \o t \o <<>> = s \o t
<1>1. s \o t \in Seq(S) /\ s \o t \o <<>> = s \o t
  BY ConcatProperties, ConcatEmptySeq
<1>2. Append(t, e) = t \o <<e>> /\ <<e>> \in Seq(S) /\ Append(t, e) \in Seq(S)
  BY AppendIsConcat
<1>3. s \o Append(t, e) = s \o t \o <<e>>
  BY <1>2, ConcatAssociative
<1>4. s \o Append(t, e) \o <<>> = s \o Append(t, e)
  BY <1>2, ConcatProperties, ConcatEmptySeq
<1>5. Append(s \o t, e) = s \o t \o <<e>>
  BY <1>1, AppendIsConcat
<1> QED BY <1>1, <1>2, <1>3, <1>4, <1>5, ConcatProperties

LEMMA MadeType == TypeOK => Made \in Seq(Events)
BY HandedOn DEF TypeOK, Made

LEMMA SaidStep ==
    PerformanceInv /\ [Next]_vars => SaidRight(Made', current', playing')
<1> SUFFICES ASSUME PerformanceInv, [Next]_vars PROVE SaidRight(Made', current', playing')
  OBVIOUS
<1>0. /\ event \in Events /\ current \in Nat /\ current <= MaxTracks /\ playing \in BOOLEAN
      /\ eventChan \in Seq(Events) /\ eLog \in Seq(Events)
      /\ SaidRight(Made, current, playing) /\ Made \in Seq(Events)
  BY MadeType, EventTypes DEF PerformanceInv, TypeOK
<1>1. CASE Made' = Made /\ UNCHANGED <<current, playing>>
  BY <1>0, <1>1
<1>2. CASE ToggleBacking
  <2>1. /\ doing = "read" /\ doing' = "event" /\ playing' = ~playing
        /\ event' = [kind |-> IF playing THEN "stop" ELSE "start", about |-> current]
        /\ UNCHANGED <<current, eLog, eventChan>>
    BY <1>2 DEF ToggleBacking, MakeEvent, eventRelay
  <2>2. event' \in Events
    BY <1>0, <2>1, EventTypes
  <2>3. Made' = Append(Made, event')
    BY <1>0, <2>1, <2>2, HandedOn DEF Made
  <2> QED BY <1>0, <2>1, <2>3, ToggleSaid
<1>3. CASE SayReady
  <2>1. /\ doing = "read" /\ doing' = "event" /\ playing' = playing
        /\ event' = [kind |-> "ready", about |-> current]
        /\ UNCHANGED <<current, eLog, eventChan>>
    BY <1>3 DEF SayReady, MakeEvent, eventRelay
  <2>2. event' \in Events
    BY <1>0, <2>1, EventTypes
  <2>3. Made' = Append(Made, event')
    BY <1>0, <2>1, <2>2, HandedOn DEF Made
  <2> QED BY <1>0, <2>1, <2>3, ReadySaid
<1>4. CASE OpenTrack
  <2>1. /\ doing = "read" /\ doing' = "track" /\ current' = current + 1 /\ playing' = FALSE
        /\ UNCHANGED <<eLog, eventChan>>
    BY <1>4 DEF OpenTrack, eventRelay
  <2>2. Made' = Made
    BY <2>1 DEF Made
  <2> QED BY <1>0, <2>1, <2>2, OpenSaid
<1>5. CASE SendEvent
  <2>1. /\ doing = "event" /\ doing' = "read" /\ eventChan' = Append(eventChan, event)
        /\ UNCHANGED <<current, playing, eLog>>
    BY <1>5 DEF SendEvent, eventRelay
  <2>2. Made' = Made
    BY <1>0, <2>1, HandedOn DEF Made
  <2> QED BY <1>1, <2>1, <2>2
<1>6. CASE RelayEvent
  <2>1. /\ eventChan # <<>> /\ eLog' = Append(eLog, Head(eventChan)) /\ eventChan' = Tail(eventChan)
        /\ UNCHANGED <<doing, event, current, playing>>
    BY <1>6 DEF RelayEvent, EventRelay!Send, loop
  <2>2. \A h \in Seq(Events) : eLog' \o eventChan' \o h = eLog \o eventChan \o h
    BY SMTT(20), <1>0, <2>1, Moved
  <2>3. <<event>> \in Seq(Events) /\ <<>> \in Seq(Events)
    BY <1>0
  <2>4. Made' = Made
    BY <2>1, <2>2, <2>3 DEF Made
  <2> QED BY <1>1, <2>1, <2>4
<1>7. CASE Quit \/ SendTrack
  <2>1. doing # "event" /\ doing' # "event" /\ UNCHANGED <<eLog, eventChan, current, playing>>
    BY <1>7 DEF Quit, SendTrack, eventRelay
  <2> QED BY <1>1, <2>1 DEF Made
<1>8. CASE RelayTrack \/ ClientStep \/ UNCHANGED vars
  <2>1. UNCHANGED <<doing, event, eLog, eventChan, current, playing>>
    BY <1>8, ClientLeaves DEF RelayTrack, loop, eventRelay
  <2> QED BY <1>1, <2>1 DEF Made
<1> QED BY <1>2, <1>3, <1>4, <1>5, <1>6, <1>7, <1>8, Steps DEF LoopStep, Command, ClientStep

LEMMA PerformanceInit == Init => PerformanceInv
<1> SUFFICES ASSUME Init PROVE PerformanceInv
  OBVIOUS
<1>0. \A S : <<>> \in Seq(S) /\ Len(<<>>) = 0
  OBVIOUS
<1>1. /\ tLog = <<>> /\ tState = [k \in Clients |-> "out"] /\ tFrom = [k \in Clients |-> 0]
      /\ tSeen = [k \in Clients |-> <<>>]
      /\ eLog = <<>> /\ eState = [k \in Clients |-> "out"] /\ eFrom = [k \in Clients |-> 0]
      /\ eSeen = [k \in Clients |-> <<>>]
  BY DEF Init, TrackRelay!Init, EventRelay!Init
<1>2. TypeOK
  <2>1. 0 \in 0..MaxTracks /\ 0 <= ChanCap
    BY EventTypes
  <2>2. doing = "read" /\ event \in Events /\ current = 0 /\ playing = FALSE
    BY EventTypes DEF Init
  <2>3. trackChan = <<>> /\ eventChan = <<>>
    BY DEF Init
  <2>4. /\ \A c \in Clients : tSeen[c] = <<>> /\ eSeen[c] = <<>>
        /\ tLost \in [Clients -> SUBSET Nat] /\ eLost \in [Clients -> SUBSET Nat]
    BY <1>1 DEF Init
  <2> QED BY <1>0, <1>1, <2>1, <2>2, <2>3, <2>4 DEF TypeOK
<1>3. ASSUME NEW M
      PROVE  RelayOK(M, <<>>, [k \in Clients |-> "out"], [k \in Clients |-> 0], [k \in Clients |-> <<>>])
  BY <1>0 DEF RelayOK, Received, States
<1>4. TracksInOrder
  BY <1>0, <1>1 DEF Init, TracksInOrder
<1>5. Made = <<>>
  BY <1>1 DEF Init, Made
<1>6. SaidRight(<<>>, 0, FALSE)
  BY DEF SaidRight, Alternates, StartsFirst, Told
<1> QED BY <1>1, <1>2, <1>3, <1>4, <1>5, <1>6 DEF Init, PerformanceInv

LEMMA PerformanceStep == PerformanceInv /\ [Next]_vars => PerformanceInv'
BY TypeStep, TrackRelayStep, EventRelayStep, TracksStep, SaidStep DEF PerformanceInv

-----------------------------------------------------------------------------
(* What a client hears: a part of what is said. *)

LEMMA PartAlternates ==
    ASSUME NEW said \in Seq(Events), NEW part \in Seq(Events), NEW f \in Nat,
           f + Len(part) <= Len(said),
           \A i \in DOMAIN part : part[i] = said[f + i]
    PROVE  /\ Alternates(said) => Alternates(part)
           /\ f = 0 /\ StartsFirst(said) => StartsFirst(part)
<1>1. \A i \in DOMAIN part : i \in Nat /\ f + i \in DOMAIN said
  OBVIOUS
<1>2. ASSUME NEW k \in DOMAIN said, NEW i \in DOMAIN part, NEW j \in DOMAIN part,
             f + i < k, k < f + j
      PROVE  k - f \in DOMAIN part /\ i < k - f /\ k - f < j /\ f + (k - f) = k
  <2>1. /\ k \in Nat /\ i \in 1..Len(part) /\ j \in 1..Len(part) /\ Len(part) \in Nat
        /\ DOMAIN part = 1..Len(part)
    OBVIOUS
  <2>2. k - f \in 1..Len(part) /\ i < k - f /\ k - f < j /\ f + (k - f) = k
    BY ONLY <1>2, <2>1, f \in Nat
  <2> QED BY <2>1, <2>2
<1>3. ASSUME Alternates(said) PROVE Alternates(part)
  <2> SUFFICES ASSUME NEW i \in DOMAIN part, NEW j \in DOMAIN part, Follows(part, i, j)
               PROVE  InTurn(part[i], part[j])
    BY DEF Alternates
  <2>1. /\ f + i \in DOMAIN said /\ f + j \in DOMAIN said
        /\ part[i] = said[f + i] /\ part[j] = said[f + j]
    BY <1>1
  <2>2. Follows(said, f + i, f + j)
    <3>1. f + i < f + j
      BY <1>1 DEF Follows
    <3>2. ASSUME NEW k \in DOMAIN said, f + i < k, k < f + j PROVE said[k].kind = "ready"
      <4>1. k - f \in DOMAIN part /\ i < k - f /\ k - f < j /\ part[k - f] = said[k]
        BY <1>2, <3>2
      <4> QED BY <4>1 DEF Follows
    <3> QED BY <2>1, <3>1, <3>2 DEF Follows
  <2> QED BY <1>3, <2>1, <2>2 DEF Alternates
<1>4. ASSUME f = 0, StartsFirst(said) PROVE StartsFirst(part)
  <2> SUFFICES ASSUME NEW j \in DOMAIN part, part[j].kind = "stop"
               PROVE  \E i \in DOMAIN part : i < j /\ part[i].kind # "ready"
    BY DEF StartsFirst
  <2>1. \A i \in DOMAIN part : i \in DOMAIN said /\ part[i] = said[i]
    BY <1>1, <1>4
  <2>2. PICK i \in DOMAIN said : i < j /\ said[i].kind # "ready"
    BY <1>4, <2>1 DEF StartsFirst
  <2>3. i \in DOMAIN part
    BY <2>2
  <2> QED BY <2>1, <2>2, <2>3
<1> QED BY <1>3, <1>4

\* A set of numbers with a bound has a largest member.
LEMMA LargestIs ==
    ASSUME NEW n \in Nat, NEW S \in SUBSET (1..n), S # {}
    PROVE  \E l \in S : \A m \in S : m <= l
<1> DEFINE T == {n - m : m \in S}
<1>1. PICK x \in T : \A y \in T : x <= y
  <2>1. T \subseteq Nat
    OBVIOUS
  <2>2. PICK m \in S : TRUE
    OBVIOUS
  <2>3. n - m \in T
    OBVIOUS
  <2> HIDE DEF T
  <2> QED BY <2>1, <2>3, LeastNatural
<1>2. PICK l \in S : x = n - l
  BY DEF T
<1>3. ASSUME NEW m \in S PROVE m <= l
  <2>1. n - m \in T
    OBVIOUS
  <2> HIDE DEF T
  <2> QED BY <1>1, <1>2, <2>1
<1> QED BY <1>3

Before(said, f) == SubSeq(said, 1, f)

\* The last word about a track is in what the client heard, or in what was said
\* before it came and it heard of no track since.
LEMMA LastWord ==
    ASSUME NEW said \in Seq(Events), NEW part \in Seq(Events), NEW f \in Nat, NEW track,
           f + Len(part) = Len(said),
           \A i \in DOMAIN part : part[i] = said[f + i]
    PROVE  Told(said, track) <=>
              \/ Told(part, track)
              \/ Told(Before(said, f), track) /\ \A i \in DOMAIN part : part[i].kind = "ready"
<1> DEFINE early == Before(said, f)
           start == [kind |-> "start", about |-> track]
<1>1. /\ DOMAIN said = 1..Len(said) /\ DOMAIN part = 1..Len(part)
      /\ Len(said) \in Nat /\ Len(part) \in Nat
  OBVIOUS
<1>2. DOMAIN early = 1..f /\ \A i \in 1..f : early[i] = said[i] /\ i \in DOMAIN said
  BY <1>1 DEF Before
<1>3. /\ \A i \in DOMAIN part : f + i \in DOMAIN said /\ i \in Nat
      /\ \A k \in DOMAIN said : k \in 1..f \/ (k - f \in DOMAIN part /\ f + (k - f) = k /\ f < k)
  BY <1>1
<1>4. start.kind # "ready"
  OBVIOUS
<1> HIDE DEF early, start
<1>5. ASSUME Told(part, track) PROVE Told(said, track)
  <2>1. PICK i \in DOMAIN part : /\ part[i] = start
                                 /\ \A j \in DOMAIN part : i < j => part[j].kind = "ready"
    BY <1>5 DEF Told, start
  <2>2. ASSUME NEW k \in DOMAIN said, f + i < k PROVE said[k].kind = "ready"
    <3>1. k - f \in DOMAIN part /\ i < k - f /\ part[k - f] = said[k]
      BY <1>1, <1>3, <2>2
    <3> QED BY <2>1, <3>1
  <2> QED BY <1>3, <2>1, <2>2 DEF Told, start
<1>6. ASSUME Told(early, track), \A i \in DOMAIN part : part[i].kind = "ready"
      PROVE  Told(said, track)
  <2>1. PICK i \in DOMAIN early : /\ early[i] = start
                                  /\ \A j \in DOMAIN early : i < j => early[j].kind = "ready"
    BY <1>6 DEF Told, start
  <2>2. ASSUME NEW k \in DOMAIN said, i < k PROVE said[k].kind = "ready"
    <3>1. CASE k \in 1..f
      BY <1>2, <2>1, <2>2, <3>1
    <3>2. CASE k - f \in DOMAIN part /\ f + (k - f) = k
      BY <1>6, <3>2
    <3> QED BY <1>3, <3>1, <3>2
  <2> QED BY <1>2, <2>1, <2>2 DEF Told, start
<1>7. ASSUME Told(said, track)
      PROVE  \/ Told(part, track)
             \/ Told(early, track) /\ \A i \in DOMAIN part : part[i].kind = "ready"
  <2>1. PICK k \in DOMAIN said : /\ said[k] = start
                                 /\ \A j \in DOMAIN said : k < j => said[j].kind = "ready"
    BY <1>7 DEF Told, start
  <2>2. CASE k \in 1..f
    <3>1. Told(early, track)
      BY <1>2, <2>1, <2>2 DEF Told, start
    <3>2. ASSUME NEW i \in DOMAIN part PROVE part[i].kind = "ready"
      <4>1. f + i \in DOMAIN said /\ k < f + i /\ part[i] = said[f + i]
        BY <1>1, <1>3, <2>2
      <4> QED BY <2>1, <4>1
    <3> QED BY <3>1, <3>2
  <2>3. CASE k - f \in DOMAIN part /\ f + (k - f) = k
    <3>1. part[k - f] = start
      BY <2>1, <2>3
    <3>2. ASSUME NEW j \in DOMAIN part, k - f < j PROVE part[j].kind = "ready"
      <4>1. f + j \in DOMAIN said /\ k < f + j /\ part[j] = said[f + j]
        BY <1>1, <1>3, <3>2
      <4> QED BY <2>1, <4>1
    <3> QED BY <2>3, <3>1, <3>2 DEF Told, start
  <2> QED BY <1>3, <2>2, <2>3
<1> QED BY <1>5, <1>6, <1>7 DEF early

-----------------------------------------------------------------------------
(* The theorems. *)

\* The invariant holds throughout.
THEOREM PerformanceInvariance == Spec => []PerformanceInv
BY PerformanceInit, PerformanceStep, PTL DEF Spec

\* The types: the main channels keep within their capacity.
THEOREM PerformanceTypes == Spec => []TypeOK
<1>1. PerformanceInv => TypeOK
  BY DEF PerformanceInv
<1> QED BY <1>1, PerformanceInvariance, PTL

\* What the server remembers of the current track is what the events say of it.
THEOREM StateWasSaid == Spec => []StateIsWhatWasSaid
<1>1. PerformanceInv => StateIsWhatWasSaid
  <2> SUFFICES ASSUME PerformanceInv PROVE playing = Told(Made, current)
    BY DEF StateIsWhatWasSaid
  <2>1. (playing <=> Told(Made, current)) /\ playing \in BOOLEAN
    BY DEF PerformanceInv, SaidRight, TypeOK
  <2>2. Told(Made, current) \in BOOLEAN
    BY DEF Told
  <2> QED BY <2>1, <2>2
<1> QED BY <1>1, PerformanceInvariance, PTL

\* A client hears the start of a track twice, or its stop, only if it lost what was said
\* between; and one that was there from the first event on hears a start first.
THEOREM HeardByTurns == Spec => []EventsAlternate
<1>1. PerformanceInv => EventsAlternate
  <2> SUFFICES ASSUME PerformanceInv, NEW c \in Clients
               PROVE  /\ \A i, j \in Heard(c) :
                            HeardNext(c, i, j) => InTurn(eSeen[c][i], eSeen[c][j]) \/ Missed(c, i, j)
                      /\ \A j \in Heard(c) :
                            eFrom[c] = 0 /\ eSeen[c][j].kind = "stop" =>
                                \/ \E i \in Heard(c) : i < j /\ eSeen[c][i].kind # "ready"
                                \/ Missed(c, 0, j)
    BY DEF EventsAlternate
  <2>1. /\ eSeen[c] \in Seq(Events) /\ eFrom[c] \in Nat /\ eLog \in Seq(Events)
        /\ eFrom[c] + Len(eSeen[c]) <= Len(eLog)
        /\ \A i \in DOMAIN eSeen[c] : eSeen[c][i] = eLog[eFrom[c] + i]
    BY DEF PerformanceInv, RelayOK, Received
  <2>2. Alternates(Made) /\ StartsFirst(Made)
    BY DEF PerformanceInv, SaidRight
  <2>3. /\ Made \in Seq(Events) /\ Len(eLog) <= Len(Made)
        /\ \A i \in DOMAIN eLog : eLog[i] = Made[i]
    <3> DEFINE rest == eventChan \o Pending
    <3>1. rest \in Seq(Events) /\ Made = eLog \o rest
      <4>1. eventChan \in Seq(Events) /\ Pending \in Seq(Events)
        BY DEF PerformanceInv, TypeOK, Pending
      <4>2. Made = eLog \o eventChan \o Pending
        BY DEF Made, Pending
      <4>3. eLog \o eventChan \o Pending = eLog \o (eventChan \o Pending)
        <5>1. eLog \in Seq(Events)
          BY <2>1
        <5> QED BY ONLY SMTT(20), <4>1, <5>1, ConcatAssociative
      <4>4. eventChan \o Pending \in Seq(Events)
        BY <4>1, ConcatProperties
      <4> QED BY <4>2, <4>3, <4>4
    <3> HIDE DEF rest
    <3> QED BY <2>1, <3>1
  <2>4. /\ eFrom[c] + Len(eSeen[c]) <= Len(Made)
        /\ \A i \in DOMAIN eSeen[c] : eSeen[c][i] = Made[eFrom[c] + i]
    BY SMTT(20), <2>1, <2>3
  <2>5. Alternates(eSeen[c]) /\ (eFrom[c] = 0 => StartsFirst(eSeen[c]))
    BY <2>1, <2>2, <2>3, <2>4, PartAlternates
  <2>6. ASSUME NEW i \in Heard(c), NEW j \in Heard(c), HeardNext(c, i, j), ~Missed(c, i, j)
        PROVE  InTurn(eSeen[c][i], eSeen[c][j])
    <3>1. ASSUME NEW k \in DOMAIN eSeen[c], i < k, k < j PROVE eSeen[c][k].kind = "ready"
      BY <2>6, <3>1 DEF HeardNext, Missed, Heard
    <3>2. Follows(eSeen[c], i, j) /\ i \in DOMAIN eSeen[c] /\ j \in DOMAIN eSeen[c]
      BY <2>6, <3>1 DEF HeardNext, Follows, Heard
    <3> QED BY <2>5, <3>2 DEF Alternates
  <2>7. ASSUME NEW j \in Heard(c), eFrom[c] = 0, eSeen[c][j].kind = "stop", ~Missed(c, 0, j)
        PROVE  \E i \in Heard(c) : i < j /\ eSeen[c][i].kind # "ready"
    <3>1. PICK i \in DOMAIN eSeen[c] : i < j /\ eSeen[c][i].kind # "ready"
      BY <2>5, <2>7 DEF StartsFirst, Heard
    <3>2. 0 < i
      BY <2>1, <3>1
    <3> QED BY <2>7, <3>1, <3>2 DEF Missed, Heard
  <2> QED BY <2>6, <2>7
<1> QED BY <1>1, PerformanceInvariance, PTL

\* When nothing is under way, the clients that differ from the server joined after what
\* it remembers was broadcast, or lost the last word of it.
THEOREM LateOrLostDiffer == Spec => []LateOrLost
<1>1. PerformanceInv => LateOrLost
  <2> SUFFICES ASSUME PerformanceInv, Quiet, NEW c \in Clients, Drained(c)
               PROVE  /\ InStep(c) \/ TooLate(c) \/ LostTrack(c) \/ LostWord(c)
                      /\ TooLate(c) \/ LostTrack(c) => ~InStep(c)
    BY DEF LateOrLost
  <2>1. /\ eSeen[c] \in Seq(Events) /\ eFrom[c] \in Nat /\ eLog \in Seq(Events)
        /\ eFrom[c] + Len(eSeen[c]) = Len(eLog)
        /\ \A i \in DOMAIN eSeen[c] : eSeen[c][i] = eLog[eFrom[c] + i]
        /\ tSeen[c] \in Seq(AllTracks) /\ tFrom[c] \in Nat /\ tLog \in Seq(AllTracks)
        /\ tFrom[c] + Len(tSeen[c]) = Len(tLog)
        /\ \A i \in DOMAIN tSeen[c] : tSeen[c][i] = tLog[tFrom[c] + i]
    BY DEF PerformanceInv, RelayOK, Received, Drained, TrackRelay!Position, EventRelay!Position
  <2>2. doing = "read" /\ trackChan = <<>> /\ eventChan = <<>>
    BY DEF Quiet
  <2>3. Made = eLog
    BY <2>1, <2>2, ConcatEmptySeq DEF Made
  <2>4. (playing <=> Told(eLog, current)) /\ playing \in BOOLEAN
    BY <2>3 DEF PerformanceInv, SaidRight, TypeOK
  <2>5. current = Len(tLog) /\ Len(tLog) \in Nat /\ \A i \in DOMAIN tLog : tLog[i] = i
    <3>1. /\ current = Len(tLog) + Len(<<>>) + 0
          /\ \A i \in DOMAIN tLog : tLog[i] = i
      BY <2>2 DEF PerformanceInv, TracksInOrder
    <3>2. Len(<<>>) = 0 /\ Len(tLog) \in Nat
      BY <2>1
    <3> QED BY <3>1, <3>2
  <2>6. HasTrack(c, current) <=>
           ~((\E i \in 1..tFrom[c] : tLog[i] = current) \/ LostTrack(c))
    <3>1. CASE tSeen[c] = <<>>
      <4>1. Len(<<>>) = 0 /\ DOMAIN tSeen[c] = {}
        BY <3>1
      <4>2. tFrom[c] = current
        BY <2>1, <2>5, <3>1, <4>1
      <4>3. current # 0 => current \in 1..tFrom[c] /\ tLog[current] = current
        BY <2>1, <2>5, <4>2
      <4>4. current = 0 => 1..tFrom[c] = {}
        BY <4>2
      <4>5. HasTrack(c, current) <=> current = 0
        BY <4>1 DEF HasTrack
      <4> QED BY <3>1, <4>3, <4>4, <4>5 DEF LostTrack
    <3>2. CASE tSeen[c] # <<>>
      <4> DEFINE n == Len(tSeen[c])
      <4>1. n \in DOMAIN tSeen[c] /\ n \in Nat \ {0} /\ \A j \in DOMAIN tSeen[c] : j \in Nat /\ ~(n < j)
        BY <2>1, <3>2
      <4>2. current # 0 /\ \A i \in DOMAIN tSeen[c] : tSeen[c][i] = current <=> i = n
        <5>1. ASSUME NEW i \in DOMAIN tSeen[c] PROVE tFrom[c] + i \in DOMAIN tLog
          <6>1. i \in 1..Len(tSeen[c]) /\ Len(tSeen[c]) \in Nat /\ DOMAIN tLog = 1..Len(tLog)
            BY <2>1
          <6>2. /\ tFrom[c] + Len(tSeen[c]) = Len(tLog) /\ tFrom[c] \in Nat
                /\ Len(tLog) \in Nat
            BY <2>1, <2>5
          <6> QED BY ONLY <6>1, <6>2
        <5>2. \A i \in DOMAIN tSeen[c] : tSeen[c][i] = tFrom[c] + i
          BY <2>1, <2>5, <5>1
        <5>3. current = tFrom[c] + n
          BY <2>1, <2>5
        <5> QED BY <2>1, <4>1, <5>2, <5>3
      <4>3. ASSUME NEW i \in 1..tFrom[c] PROVE tLog[i] = i /\ i # current
        <5>1. i \in DOMAIN tLog /\ i < Len(tLog)
          <6>1. /\ tFrom[c] + Len(tSeen[c]) = Len(tLog) /\ tFrom[c] \in Nat
                /\ Len(tLog) \in Nat /\ DOMAIN tLog = 1..Len(tLog)
            BY <2>1, <2>5
          <6>2. Len(tSeen[c]) \in Nat \ {0}
            BY <4>1
          <6> QED BY ONLY <6>1, <6>2, i \in 1..tFrom[c]
        <5> QED BY <2>5, <5>1
      <4> HIDE DEF n
      <4>4. HasTrack(c, current) <=> n \notin tLost[c]
        BY <4>1, <4>2 DEF HasTrack
      <4> QED BY <3>2, <4>3, <4>4 DEF LostTrack, n
    <3> QED BY <3>1, <3>2
  <2>7. Told(eLog, current) <=>
           \/ Told(eSeen[c], current)
           \/ /\ Told(SubSeq(eLog, 1, eFrom[c]), current)
              /\ \A i \in DOMAIN eSeen[c] : eSeen[c][i].kind = "ready"
    <3>1. /\ eSeen[c] \in Seq(Events) /\ eFrom[c] \in Nat /\ eLog \in Seq(Events)
          /\ eFrom[c] + Len(eSeen[c]) = Len(eLog)
          /\ \A i \in DOMAIN eSeen[c] : eSeen[c][i] = eLog[eFrom[c] + i]
      BY <2>1
    <3> DEFINE part == eSeen[c]
               f == eFrom[c]
    <3> HIDE DEF part, f
    <3>2. Told(eLog, current) <=>
             \/ Told(part, current)
             \/ Told(Before(eLog, f), current) /\ \A i \in DOMAIN part : part[i].kind = "ready"
      <4>1. /\ part \in Seq(Events) /\ f \in Nat /\ f + Len(part) = Len(eLog)
            /\ \A i \in DOMAIN part : part[i] = eLog[f + i]
        BY <3>1 DEF part, f
      <4>2. eLog \in Seq(Events)
        BY <3>1
      <4> QED BY SMTT(20), <4>1, <4>2, LastWord
    <3> QED BY <3>2 DEF part, f, Before
  <2>8. (\A i \in DOMAIN eSeen[c] : eSeen[c][i].kind = "ready") =>
            ~Told(eSeen[c], current) /\ ~HeardPlaying(c, current)
    BY DEF Told, HeardPlaying, Heard
  <2>9. ASSUME ~LostWord(c) PROVE HeardPlaying(c, current) <=> Told(eSeen[c], current)
    <3>1. ASSUME Told(eSeen[c], current) PROVE HeardPlaying(c, current)
      <4>1. PICK i \in DOMAIN eSeen[c] :
               /\ eSeen[c][i] = [kind |-> "start", about |-> current]
               /\ \A j \in DOMAIN eSeen[c] : i < j => eSeen[c][j].kind = "ready"
        BY <3>1 DEF Told
      <4>2. eSeen[c][i].kind # "ready"
        BY <4>1
      <4>3. i \notin eLost[c]
        BY <2>9, <4>1, <4>2 DEF LostWord
      <4> QED BY <4>1, <4>3 DEF HeardPlaying, Heard
    <3>2. ASSUME HeardPlaying(c, current) PROVE Told(eSeen[c], current)
      <4>1. PICK i \in Heard(c) :
               /\ eSeen[c][i] = [kind |-> "start", about |-> current]
               /\ \A j \in Heard(c) : i < j => eSeen[c][j].kind = "ready"
        BY <3>2 DEF HeardPlaying
      <4>2. SUFFICES ASSUME NEW k \in DOMAIN eSeen[c], i < k, eSeen[c][k].kind # "ready"
                     PROVE  FALSE
        BY <4>1 DEF Told, Heard
      <4> DEFINE Word(m) == m \in DOMAIN eSeen[c] /\ i < m /\ eSeen[c][m].kind # "ready"
      <4>3. PICK l : Word(l) /\ \A m : Word(m) => m <= l
        <5>1. Word(k) /\ Len(eSeen[c]) \in Nat
          BY <2>1, <4>2
        <5>2. \A m : Word(m) => m \in 1..Len(eSeen[c])
          BY <2>1
        <5> HIDE DEF Word
        <5>3. {m \in 1..Len(eSeen[c]) : Word(m)} # {}
          BY <5>1, <5>2
        <5>4. PICK l \in {m \in 1..Len(eSeen[c]) : Word(m)} :
                 \A m \in {q \in 1..Len(eSeen[c]) : Word(q)} : m <= l
          BY <5>1, <5>3, LargestIs
        <5> QED BY <5>2, <5>4
      <4>4. l \notin eLost[c]
        <5>1. ASSUME NEW j \in DOMAIN eSeen[c], l < j PROVE eSeen[c][j].kind = "ready"
          <6>1. i \in Nat /\ l \in Nat /\ j \in Nat /\ i < l
            <7>1. i \in DOMAIN eSeen[c] /\ l \in DOMAIN eSeen[c] /\ i < l
              BY <4>1, <4>3 DEF Heard
            <7>2. DOMAIN eSeen[c] = 1..Len(eSeen[c])
              BY <2>1
            <7> QED BY <5>1, <7>1, <7>2
          <6>2. ~(j <= l) /\ i < j
            BY <5>1, <6>1
          <6> QED BY <4>3, <6>2
        <5> QED BY <2>9, <4>3, <5>1 DEF LostWord
      <4> QED BY <4>1, <4>3, <4>4 DEF Heard
    <3> QED BY <3>1, <3>2
  <2>10. TooLate(c) => ~InStep(c)
    BY <2>4, <2>6, <2>7, <2>8 DEF InStep, TooLate
  <2>11. LostTrack(c) => ~InStep(c)
    BY <2>6 DEF InStep
  <2>12. ~TooLate(c) /\ ~LostTrack(c) /\ ~LostWord(c) => InStep(c)
    BY <2>4, <2>6, <2>7, <2>9 DEF InStep, TooLate
  <2> QED BY <2>10, <2>11, <2>12
<1> QED BY <1>1, PerformanceInvariance, PTL
=============================================================================
