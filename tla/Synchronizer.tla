----------------------------- MODULE Synchronizer -----------------------------
(***************************************************************************)
(* The synchronizer of one performer: the loop Synchronizer::intake        *)
(* (protocol/src/synchronizer.rs), which merges the performer's audio and  *)
(* motion capture into the packets the synchronizer relay multiplies, with *)
(* the two UDP listeners that feed it (performer_audio_listener and        *)
(* performer_mocap_listener, server/src/server.rs).                        *)
(*                                                                         *)
(* An item is [n, ts]: the n-th datagram its listener took in for the      *)
(* performer, with the timestamp ts the heaps order by.  Contents are left *)
(* out.                                                                    *)
(***************************************************************************)
EXTENDS Naturals, Sequences, FiniteSets

CONSTANTS
    WaitForAudio,  \* WAIT_FOR_AUDIO_TO_SEND: TRUE
    Pressure,      \* MOCAP_SEND_AFTER_PRESSURE_REACHES: 5
    MaxHeap,       \* MAX_HEAP_SIZE: 200
    InCap,         \* capacity of the two inputs: MAX_CHAN_SIZE
    OutCap,        \* capacity of the output: MAX_CHAN_SIZE
    Stamps,        \* the timestamps packets may carry
    MaxItems,      \* bound: datagrams each listener takes in
    None

ASSUME SizeAssumption ==
    /\ WaitForAudio \in BOOLEAN
    /\ Pressure \in Nat
    /\ MaxHeap \in Nat \ {0}
    /\ InCap \in Nat \ {0}
    /\ OutCap \in Nat \ {0}
    /\ MaxItems \in Nat
    /\ Stamps \subseteq Nat
    /\ None \notin [n : Nat, ts : Nat]

VARIABLES
    session,               \* the performer's: "registered"; "dropping", out of
                           \* the registries but not dropped yet; or "gone"
    audioHand, mocapHand,  \* what each listener waits to hand over, or None
    audioIn, mocapIn,      \* the input channels
    outOpen,               \* the relay still receives
    out,                   \* the output channel
    audioHeap, mocapHeap,  \* the heaps, without their order
    trySend,               \* try_to_send
    phase,                 \* at the select!, in the loop body, or ended
    nAudio, nMocap,        \* number of datagrams taken in
    fwdAudio, fwdMocap     \* history: the numbers of the packets sent on

hands == <<audioHand, mocapHand, nAudio, nMocap>>
inputs == <<session, hands, audioIn, mocapIn>>
heaps == <<audioHeap, mocapHeap>>
output == <<out, outOpen>>
fwd == <<fwdAudio, fwdMocap>>
vars == <<inputs, heaps, output, fwd, trySend, phase>>

Items == [n : 1..MaxItems, ts : Stamps]

\* Some sender of the input is left: the session's, or the listener's clone.
AudioOpen == session # "gone" \/ audioHand # None
MocapOpen == session # "gone" \/ mocapHand # None

Init ==
    /\ audioIn = <<>> /\ mocapIn = <<>>
    /\ session = "registered" /\ outOpen = TRUE
    /\ audioHand = None /\ mocapHand = None
    /\ out = <<>>
    /\ audioHeap = {} /\ mocapHeap = {}
    /\ trySend = FALSE
    /\ phase = "select"
    /\ nAudio = 0 /\ nMocap = 0
    /\ fwdAudio = <<>> /\ fwdMocap = <<>>

Running == phase \in {"select", "body"}

-----------------------------------------------------------------------------
(* The listeners, the session and the relay.  A datagram of a client that    *)
(* is not a registered performer, or that does not decode, changes nothing; *)
(* while one of another performer waits for a place, a listener takes in no *)
(* other.                                                                   *)

\* The lookup under the read lock clones the sender of the session.
AudioArrives(ts) ==
    /\ session = "registered"
    /\ audioHand = None /\ nAudio < MaxItems
    /\ audioHand' = [n |-> nAudio + 1, ts |-> ts]
    /\ nAudio' = nAudio + 1
    /\ UNCHANGED <<session, mocapHand, nMocap, audioIn, mocapIn, heaps, output, fwd,
                   trySend, phase>>

MocapArrives(ts) ==
    /\ session = "registered"
    /\ mocapHand = None /\ nMocap < MaxItems
    /\ mocapHand' = [n |-> nMocap + 1, ts |-> ts]
    /\ nMocap' = nMocap + 1
    /\ UNCHANGED <<session, audioHand, nAudio, audioIn, mocapIn, heaps, output, fwd,
                   trySend, phase>>

\* The send fails, and is only logged, once the loop has ended.
AudioHandOver ==
    /\ audioHand # None
    /\ \/ Running /\ Len(audioIn) < InCap /\ audioIn' = Append(audioIn, audioHand)
       \/ ~Running /\ UNCHANGED audioIn
    /\ audioHand' = None
    /\ UNCHANGED <<session, mocapHand, nAudio, nMocap, mocapIn, heaps, output, fwd,
                   trySend, phase>>

(* Definitions whose name ends in Bug are wrong variants of the one that    *)
(* follows them; each shows that a property depends on that code.           *)

\* Bug: try_send for send, as "try, but don't be too upset if it doesn't work".
MocapHandOverTriesBug ==
    /\ mocapHand # None
    /\ mocapIn' = IF Running /\ Len(mocapIn) < InCap THEN Append(mocapIn, mocapHand)
                  ELSE mocapIn
    /\ mocapHand' = None
    /\ UNCHANGED <<session, audioHand, nAudio, nMocap, audioIn, heaps, output, fwd,
                   trySend, phase>>

MocapHandOver ==
    /\ mocapHand # None
    /\ \/ Running /\ Len(mocapIn) < InCap /\ mocapIn' = Append(mocapIn, mocapHand)
       \/ ~Running /\ UNCHANGED mocapIn
    /\ mocapHand' = None
    /\ UNCHANGED <<session, audioHand, nAudio, nMocap, audioIn, heaps, output, fwd,
                   trySend, phase>>

\* drop_user takes the session out of the registries, and drops it in the end.
Drop ==
    /\ \/ session = "registered" /\ session' = "dropping"
       \/ session = "dropping" /\ session' = "gone"
    /\ UNCHANGED <<hands, audioIn, mocapIn, heaps, output, fwd, trySend, phase>>

RelayTakes ==
    /\ out # <<>>
    /\ out' = Tail(out)
    /\ UNCHANGED <<inputs, heaps, outOpen, fwd, trySend, phase>>

CloseOutput ==
    /\ outOpen
    /\ outOpen' = FALSE
    /\ UNCHANGED <<inputs, heaps, out, fwd, trySend, phase>>

-----------------------------------------------------------------------------
(* The select!, audio first ("biased"). *)

TakeAudio ==
    /\ phase = "select"
    /\ audioIn # <<>>
    /\ audioHeap' = audioHeap \union {Head(audioIn)}
    /\ audioIn' = Tail(audioIn)
    /\ trySend' = TRUE
    /\ phase' = "body"
    /\ UNCHANGED <<session, hands, mocapIn, mocapHeap, output, fwd>>

\* Bug: the loop ends when the senders are gone, whatever is still queued.
AudioEndsEarlyBug ==
    /\ phase = "select"
    /\ ~AudioOpen
    /\ phase' = "ended"
    /\ UNCHANGED <<inputs, heaps, output, fwd, trySend>>

AudioEnds ==
    /\ phase = "select"
    /\ audioIn = <<>> /\ ~AudioOpen
    /\ phase' = "ended"
    /\ UNCHANGED <<inputs, heaps, output, fwd, trySend>>

\* recv() is pending and the other inputs are polled, or the time runs out.
AudioPending == audioIn = <<>> /\ AudioOpen

\* Bug: a packet is sent after every timeout.
AudioTimeoutSendsBug ==
    /\ phase = "select"
    /\ AudioPending
    /\ trySend' = TRUE
    /\ phase' = "body"
    /\ UNCHANGED <<inputs, heaps, output, fwd>>

\* AUDIO_TIMEOUT has passed since the select! was entered.
AudioTimeout ==
    /\ phase = "select"
    /\ AudioPending
    /\ trySend' = (trySend \/ mocapHeap # {})
    /\ phase' = "body"
    /\ UNCHANGED <<inputs, heaps, output, fwd>>

\* A bundle is sent on as soon as this holds of the heap it was put in.
SendsAt(size) == ~WaitForAudio \/ Pressure > size

\* Bug: a bundle is kept back until the pressure is reached.
TakeMocapKeepsBug ==
    /\ phase = "select"
    /\ AudioPending
    /\ mocapIn # <<>>
    /\ mocapHeap' = mocapHeap \union {Head(mocapIn)}
    /\ mocapIn' = Tail(mocapIn)
    /\ trySend' = (trySend \/ ~WaitForAudio \/ Cardinality(mocapHeap') > Pressure)
    /\ phase' = "body"
    /\ UNCHANGED <<session, hands, audioIn, audioHeap, output, fwd>>

TakeMocap ==
    /\ phase = "select"
    /\ AudioPending
    /\ mocapIn # <<>>
    /\ mocapHeap' = mocapHeap \union {Head(mocapIn)}
    /\ mocapIn' = Tail(mocapIn)
    /\ trySend' = (trySend \/ SendsAt(Cardinality(mocapHeap')))
    /\ phase' = "body"
    /\ UNCHANGED <<session, hands, audioIn, audioHeap, output, fwd>>

MocapEnds ==
    /\ phase = "select"
    /\ AudioPending
    /\ mocapIn = <<>> /\ ~MocapOpen
    /\ phase' = "ended"
    /\ UNCHANGED <<inputs, heaps, output, fwd, trySend>>

-----------------------------------------------------------------------------
(* The loop body: send if asked to, then purge heaps that got too large. *)

Purge(heap) == IF Cardinality(heap) > MaxHeap THEN {} ELSE heap

Earliest(heap) == {x \in heap : \A y \in heap : x.ts <= y.ts}

\* The orders in which popping empties a heap; equal timestamps come in any.
Drained(heap) ==
    {s \in [1..Cardinality(heap) -> heap] :
        /\ \A x \in heap : \E i \in DOMAIN s : s[i] = x
        /\ \A i, j \in DOMAIN s : i < j => s[i].ts <= s[j].ts}

\* The packet: the earliest audio, if any, with all the motion capture.
Packet(parts, audio) == [mocap |-> parts, audio |-> audio]

Forward(parts, audio) ==
    /\ fwdMocap' = fwdMocap \o [i \in DOMAIN parts |-> parts[i].n]
    /\ fwdAudio' = IF audio = None THEN fwdAudio ELSE Append(fwdAudio, audio.n)

\* Bug: the output channel is not bounded.
OutRoomUnboundedBug == TRUE

OutRoom == Len(out) < OutCap

SendPacket ==
    /\ phase = "body"
    /\ trySend
    /\ outOpen
    /\ OutRoom
    /\ \E parts \in Drained(mocapHeap),
          audio \in IF audioHeap = {} THEN {None} ELSE Earliest(audioHeap) :
        /\ out' = Append(out, Packet(parts, audio))
        /\ Forward(parts, audio)
        /\ audioHeap' = Purge(audioHeap \ {audio})
    /\ mocapHeap' = {}
    /\ trySend' = FALSE
    /\ phase' = "select"
    /\ UNCHANGED <<inputs, outOpen>>

\* The relay is gone: what was popped is lost and the loop ends.
SendFails ==
    /\ phase = "body"
    /\ trySend
    /\ ~outOpen
    /\ \E audio \in IF audioHeap = {} THEN {None} ELSE Earliest(audioHeap) :
        audioHeap' = audioHeap \ {audio}
    /\ mocapHeap' = {}
    /\ phase' = "broken"
    /\ UNCHANGED <<inputs, output, fwd, trySend>>

SkipSend ==
    /\ phase = "body"
    /\ ~trySend
    /\ audioHeap' = Purge(audioHeap)
    /\ mocapHeap' = Purge(mocapHeap)
    /\ phase' = "select"
    /\ UNCHANGED <<inputs, output, fwd, trySend>>

Take == TakeAudio \/ TakeMocap
End == AudioEnds \/ MocapEnds
Body == SendPacket \/ SendFails \/ SkipSend

\* Inside the runtime the loop ends only by a dropped channel.
Stopped == ~Running /\ UNCHANGED vars

Next ==
    \/ \E ts \in Stamps : AudioArrives(ts) \/ MocapArrives(ts)
    \/ AudioHandOver \/ MocapHandOver \/ Drop
    \/ RelayTakes \/ CloseOutput
    \/ Take \/ AudioTimeout \/ End \/ Body
    \/ Stopped

Spec == Init /\ [][Next]_vars

-----------------------------------------------------------------------------
(* Properties. *)

TypeOK ==
    /\ audioIn \in Seq(Items) /\ mocapIn \in Seq(Items)
    /\ audioHand \in Items \union {None} /\ mocapHand \in Items \union {None}
    /\ session \in {"registered", "dropping", "gone"} /\ outOpen \in BOOLEAN
    /\ Len(audioIn) <= InCap /\ Len(mocapIn) <= InCap /\ Len(out) <= OutCap
    /\ out \in Seq([mocap : Seq(Items), audio : Items \union {None}])
    /\ audioHeap \subseteq Items /\ mocapHeap \subseteq Items
    /\ trySend \in BOOLEAN
    /\ phase \in {"select", "body", "ended", "broken"}
    /\ nAudio \in 0..MaxItems /\ nMocap \in 0..MaxItems
    /\ fwdAudio \in Seq(1..MaxItems) /\ fwdMocap \in Seq(1..MaxItems)

\* The constants of the code make every arrival flush the heaps.
SendsAtOnce == SendsAt(1)

\* Nothing is ever kept back for the next round: at its select! the loop holds
\* no packet, so the heaps, their order and their purge never come to bear.
HeapsDrained ==
    SendsAtOnce /\ phase = "select" => audioHeap = {} /\ mocapHeap = {}

Numbers(queue) == [i \in DOMAIN queue |-> queue[i].n]
UpTo(n) == [i \in 1..n |-> i]
InOrder(s) == \A i \in DOMAIN s : s[i] = i

Held(item) == IF item = None THEN <<>> ELSE <<item.n>>

\* While the loop is at its select! every datagram taken in is either sent on,
\* in its channel or in the hands of its listener: none is lost, doubled or
\* overtaken by a later one of its stream, whatever timestamps they carry and
\* however the arrivals, timeouts, full channels and the drop of the session
\* interleave.
NothingLost ==
    SendsAtOnce /\ phase = "select" =>
        /\ fwdAudio \o Numbers(audioIn) \o Held(audioHand) = UpTo(nAudio)
        /\ fwdMocap \o Numbers(mocapIn) \o Held(mocapHand) = UpTo(nMocap)

\* When the session is dropped the loop ends with the input that runs dry first.
\* It cuts off motion capture that waits in its channel if that is the audio,
\* but of audio at most the one datagram its listener still holds.
EndKeepsAudio ==
    SendsAtOnce /\ phase = "ended" =>
        \/ fwdAudio = UpTo(nAudio)
        \/ fwdMocap = UpTo(nMocap) /\ fwdAudio = UpTo(nAudio - 1)

\* Every packet carries one item of one stream.  The streams are never combined,
\* and no packet is empty: that would end the transmitter of every client
\* ("nothing to send", client_transmitter in client.rs).
OneItemPerPacket ==
    SendsAtOnce => \A k \in DOMAIN out :
        Len(out[k].mocap) = (IF out[k].audio = None THEN 1 ELSE 0)

\* "If this is false, we will try to send out mocap as soon as it comes in,
\* rather than waiting for an audio packet to send it with" (WaitForAudio), and
\* "If mocap pressure gets this high, we will send packets anyway" (Pressure):
\* a bundle that arrives under less pressure is not sent at once.
MocapWaits ==
    [][WaitForAudio /\ mocapHeap # mocapHeap' /\ phase = "select"
         /\ Cardinality(mocapHeap') < Pressure => ~trySend']_vars
=============================================================================
