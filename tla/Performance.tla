------------------------------ MODULE Performance ------------------------------
(***************************************************************************)
(* The command loop of the server (main_server_loop, server/src/server.rs) *)
(* with the state of the performance (server/src/performance.rs) and the   *)
(* two relays over which clients learn of it: the data of a backing track  *)
(* goes over one, the events that start and stop it over the other.        *)
(*                                                                         *)
(* The relays are what Broadcast promises and Relay is shown to keep; in   *)
(* front of each is its main channel.  Tracks are numbered in the order    *)
(* they are opened.  An event names the track that was current when it was *)
(* made; the message itself does not, and no action looks at it.           *)
(***************************************************************************)
EXTENDS Naturals, Sequences

CONSTANTS
    Clients,
    ChanCap,     \* capacity of the main channels: MAX_CHAN_SIZE
    MaxTracks,   \* bound: tracks opened
    MaxEvents    \* bound: server events made

ASSUME CapAssumption ==
    ChanCap \in Nat \ {0} /\ MaxTracks \in Nat /\ MaxEvents \in Nat

VARIABLES
    doing,       \* the loop reads a command or waits to send; or it ended
    event,       \* the event it waits to send
    current,     \* current_backing_track, 0 for None
    playing,     \* whether the server takes it to be playing
    trackChan, eventChan,              \* the main channels
    tLog, tState, tFrom, tSeen,        \* the relay of backing tracks
    eLog, eState, eFrom, eSeen,        \* the relay of server events
    tLost, eLost   \* history: which of tSeen and eSeen were not written to the client

trackRelay == <<tLog, tState, tFrom, tSeen, tLost>>
eventRelay == <<eLog, eState, eFrom, eSeen, eLost>>
loop == <<doing, event, current, playing>>
vars == <<loop, trackChan, eventChan, trackRelay, eventRelay>>

AllTracks == 1..MaxTracks
Events == [kind : {"start", "stop", "ready"}, about : 0..MaxTracks]
NoEvent == [kind |-> "ready", about |-> 0]

TrackRelay == INSTANCE Broadcast WITH
    Members <- Clients, Messages <- AllTracks,
    log <- tLog, state <- tState, from <- tFrom, seen <- tSeen
EventRelay == INSTANCE Broadcast WITH
    Members <- Clients, Messages <- Events,
    log <- eLog, state <- eState, from <- eFrom, seen <- eSeen

Init ==
    /\ doing = "read" /\ event = NoEvent
    /\ current = 0 /\ playing = FALSE
    /\ trackChan = <<>> /\ eventChan = <<>>
    /\ TrackRelay!Init /\ EventRelay!Init
    /\ tLost = [c \in Clients |-> {}] /\ eLost = [c \in Clients |-> {}]

-----------------------------------------------------------------------------
(* Commands.  The loop takes the next one when it has sent what this one    *)
(* makes, and holds performance_data until then.                           *)

MakeEvent(kind) ==
    /\ Len(eLog) + Len(eventChan) < MaxEvents
    /\ event' = [kind |-> kind, about |-> current]
    /\ doing' = "event"

(* Definitions whose name ends in Bug are wrong variants of the one that    *)
(* follows them; each shows that a property depends on that code.           *)

\* Bug: the new track takes over the state of the one before it.
OpenTrackKeepsPlayingBug ==
    /\ doing = "read" /\ current < MaxTracks
    /\ current' = current + 1
    /\ doing' = "track"
    /\ UNCHANGED <<event, playing, trackChan, eventChan, trackRelay, eventRelay>>

\* "backing <path>": a file that cannot be opened changes nothing.  No event says
\* that the track before it is not played any more.
OpenTrack ==
    /\ doing = "read" /\ current < MaxTracks
    /\ current' = current + 1
    /\ playing' = FALSE
    /\ doing' = "track"
    /\ UNCHANGED <<event, trackChan, eventChan, trackRelay, eventRelay>>

\* Bug: a track that was stopped is remembered as playing.
ToggleBackingStaysBug ==
    /\ doing = "read" /\ current # 0
    /\ MakeEvent(IF playing THEN "stop" ELSE "start")
    /\ playing' = TRUE
    /\ UNCHANGED <<current, trackChan, eventChan, trackRelay, eventRelay>>

\* "message backing": nothing happens before a track is opened.
ToggleBacking ==
    /\ doing = "read" /\ current # 0
    /\ MakeEvent(IF playing THEN "stop" ELSE "start")
    /\ playing' = ~playing
    /\ UNCHANGED <<current, trackChan, eventChan, trackRelay, eventRelay>>

\* "message ready"
SayReady ==
    /\ doing = "read"
    /\ MakeEvent("ready")
    /\ UNCHANGED <<current, playing, trackChan, eventChan, trackRelay, eventRelay>>

\* The end of the input ends the program, and all its tasks with it.
Quit ==
    /\ doing = "read"
    /\ doing' = "ended"
    /\ UNCHANGED <<event, current, playing, trackChan, eventChan, trackRelay, eventRelay>>

\* Bug: a track that finds its channel full is not sent.
SendTrackTriesBug ==
    /\ doing = "track"
    /\ trackChan' = IF Len(trackChan) < ChanCap THEN Append(trackChan, current) ELSE trackChan
    /\ doing' = "read"
    /\ UNCHANGED <<event, current, playing, eventChan, trackRelay, eventRelay>>

SendTrack ==
    /\ doing = "track"
    /\ Len(trackChan) < ChanCap
    /\ trackChan' = Append(trackChan, current)
    /\ doing' = "read"
    /\ UNCHANGED <<event, current, playing, eventChan, trackRelay, eventRelay>>

\* Bug: the channel of events is not bounded.
SendEventUnboundedBug ==
    /\ doing = "event"
    /\ eventChan' = Append(eventChan, event)
    /\ event' = NoEvent
    /\ doing' = "read"
    /\ UNCHANGED <<current, playing, trackChan, trackRelay, eventRelay>>

\* Choosing the state of a backing track fails if it is in that state already, which
\* this loop, the only one to change it, never asks for.
SendEvent ==
    /\ doing = "event"
    /\ Len(eventChan) < ChanCap
    /\ eventChan' = Append(eventChan, event)
    /\ event' = NoEvent
    /\ doing' = "read"
    /\ UNCHANGED <<current, playing, trackChan, trackRelay, eventRelay>>

-----------------------------------------------------------------------------
(* The relays and the clients, as long as the program runs. *)

RelayTrack ==
    /\ doing # "ended"
    /\ trackChan # <<>>
    /\ TrackRelay!Send(Head(trackChan))
    /\ trackChan' = Tail(trackChan)
    /\ UNCHANGED <<tLost, loop, eventChan, eventRelay>>

RelayEvent ==
    /\ doing # "ended"
    /\ eventChan # <<>>
    /\ EventRelay!Send(Head(eventChan))
    /\ eventChan' = Tail(eventChan)
    /\ UNCHANGED <<eLost, loop, trackChan, trackRelay>>

\* The task of the session takes the next message of its queue and writes it.  When
\* the write fails the message is gone, and the task goes on to the next one.
Written(lost, seen, c) ==
    lost' \in {lost, [lost EXCEPT ![c] = @ \union {Len(seen[c]) + 1}]}

DeliverTrack(c) ==
    /\ doing # "ended"
    /\ TrackRelay!Deliver(c)
    /\ Written(tLost, tSeen, c)
    /\ UNCHANGED <<loop, trackChan, eventChan, eventRelay>>

DeliverEvent(c) ==
    /\ doing # "ended"
    /\ EventRelay!Deliver(c)
    /\ Written(eLost, eSeen, c)
    /\ UNCHANGED <<loop, trackChan, eventChan, trackRelay>>

\* The relays serve the subscription of a client independently of each other.
JoinTracks(c) ==
    /\ doing # "ended"
    /\ TrackRelay!Join(c)
    /\ UNCHANGED <<tLost, loop, trackChan, eventChan, eventRelay>>

JoinEvents(c) ==
    /\ doing # "ended"
    /\ EventRelay!Join(c)
    /\ UNCHANGED <<eLost, loop, trackChan, eventChan, trackRelay>>

\* The client is unsubscribed, or a task of its session ends; the other goes on.  The
\* task of the tracks also ends when it cannot shut down a connection it failed to
\* write to.
LoseTracks(c) ==
    /\ doing # "ended"
    /\ TrackRelay!Leave(c) \/ TrackRelay!Fail(c)
    /\ UNCHANGED <<tLost, loop, trackChan, eventChan, eventRelay>>

LoseEvents(c) ==
    /\ doing # "ended"
    /\ EventRelay!Leave(c) \/ EventRelay!Fail(c)
    /\ UNCHANGED <<eLost, loop, trackChan, eventChan, trackRelay>>

Command == OpenTrack \/ ToggleBacking \/ SayReady \/ Quit

Next ==
    \/ Command \/ SendTrack \/ SendEvent
    \/ RelayTrack \/ RelayEvent
    \/ \E c \in Clients :
          \/ DeliverTrack(c) \/ DeliverEvent(c)
          \/ JoinTracks(c) \/ JoinEvents(c)
          \/ LoseTracks(c) \/ LoseEvents(c)

Spec == Init /\ [][Next]_vars

-----------------------------------------------------------------------------
(* Properties. *)

TypeOK ==
    /\ doing \in {"read", "track", "event", "ended"} /\ event \in Events
    /\ current \in 0..MaxTracks /\ playing \in BOOLEAN
    /\ trackChan \in Seq(AllTracks) /\ Len(trackChan) <= ChanCap
    /\ eventChan \in Seq(Events) /\ Len(eventChan) <= ChanCap
    /\ tLog \in Seq(AllTracks) /\ eLog \in Seq(Events)
    /\ \A c \in Clients : tSeen[c] \in Seq(AllTracks) /\ eSeen[c] \in Seq(Events)
    /\ tLost \in [Clients -> SUBSET Nat] /\ eLost \in [Clients -> SUBSET Nat]

\* The last of the events that is about the backing track starts it.
Told(events, track) ==
    \E i \in DOMAIN events :
        /\ events[i] = [kind |-> "start", about |-> track]
        /\ \A j \in DOMAIN events : i < j => events[j].kind = "ready"

Made == eLog \o eventChan \o (IF doing = "event" THEN <<event>> ELSE <<>>)

\* What the server remembers of the current track ("currently playing for our
\* users", BackingTrackState) is what the events it made, sent or not, say of it,
\* however commands and sends are mixed.
StateIsWhatWasSaid == playing = Told(Made, current)

\* The event that starts a track or stops it follows the one before it: one track is
\* started and stopped by turns, and a new one started first.
InTurn(before, after) ==
    IF before.about = after.about THEN before.kind # after.kind ELSE after.kind = "start"

Heard(c) == DOMAIN eSeen[c] \ eLost[c]

\* The client got i, and next j, as events about backing tracks.
HeardNext(c, i, j) ==
    /\ i \in Heard(c) /\ j \in Heard(c) /\ i < j
    /\ eSeen[c][i].kind # "ready" /\ eSeen[c][j].kind # "ready"
    /\ \A k \in Heard(c) : i < k /\ k < j => eSeen[c][k].kind = "ready"

Missed(c, i, j) ==
    \E k \in eLost[c] : i < k /\ k < j /\ eSeen[c][k].kind # "ready"

\* A client that gets the start of a track it was told is playing, or the stop of one it
\* was told has stopped, lost what was said between to a failed write: from whichever
\* event on it is subscribed, what it gets is otherwise by turns.  A client that was
\* there from the first event on hears a start first, or lost it.
EventsAlternate ==
    \A c \in Clients :
        /\ \A i, j \in Heard(c) :
              HeardNext(c, i, j) => InTurn(eSeen[c][i], eSeen[c][j]) \/ Missed(c, i, j)
        /\ \A j \in Heard(c) :
              eFrom[c] = 0 /\ eSeen[c][j].kind = "stop" =>
                  \/ \E i \in Heard(c) : i < j /\ eSeen[c][i].kind # "ready"
                  \/ Missed(c, 0, j)

In(c) == tState[c] = "in" /\ eState[c] = "in"

\* What the client makes of what it got.
HasTrack(c, track) ==
    \/ /\ track = 0
       /\ DOMAIN tSeen[c] \subseteq tLost[c]
    \/ \E i \in DOMAIN tSeen[c] \ tLost[c] :
          /\ tSeen[c][i] = track
          /\ \A j \in DOMAIN tSeen[c] : i < j => j \in tLost[c]

HeardPlaying(c, track) ==
    \E i \in Heard(c) :
        /\ eSeen[c][i] = [kind |-> "start", about |-> track]
        /\ \A j \in Heard(c) : i < j => eSeen[c][j].kind = "ready"

\* A client has the track and the state that the server remembers.
InStep(c) == HasTrack(c, current) /\ (playing <=> HeardPlaying(c, current))

\* The current track, or the start of it, was relayed before the client joined, and
\* nothing since.
TooLate(c) ==
    \/ \E i \in 1..tFrom[c] : tLog[i] = current
    \/ /\ Told(SubSeq(eLog, 1, eFrom[c]), current)
       /\ \A i \in DOMAIN eSeen[c] : eSeen[c][i].kind = "ready"

\* The last track was not written to the client, or the last event about one.
LostTrack(c) == tSeen[c] # <<>> /\ Len(tSeen[c]) \in tLost[c]

LostWord(c) ==
    \E i \in eLost[c] \intersect DOMAIN eSeen[c] :
        /\ eSeen[c][i].kind # "ready"
        /\ \A j \in DOMAIN eSeen[c] : i < j => eSeen[c][j].kind = "ready"

Quiet == doing = "read" /\ trackChan = <<>> /\ eventChan = <<>>

Drained(c) ==
    /\ In(c)
    /\ TrackRelay!Position(c) = Len(tLog)
    /\ EventRelay!Position(c) = Len(eLog)

\* When nothing is under way, a subscribed client that differs from what the server
\* remembers came too late or lost the last word to a failed write: nobody tells it
\* again.  One that came too late, or lost the track, does differ.
LateOrLost ==
    Quiet => \A c \in Clients : Drained(c) =>
        /\ InStep(c) \/ TooLate(c) \/ LostTrack(c) \/ LostWord(c)
        /\ TooLate(c) \/ LostTrack(c) => ~InStep(c)
=============================================================================
