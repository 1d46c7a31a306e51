------------------------------ MODULE VrlPacket ------------------------------
(***************************************************************************)
(* What a client's UDP transmitter does to a packet before it sends it:    *)
(* the conversion of motion capture to VRM (protocol/src/vrm_packet.rs)    *)
(* and the layout of the datagram (From<VRTPPacket> for Bytes,             *)
(* protocol/src/vrl_packet.rs).  A step is one message of the bundle or    *)
(* one stage of the encoding.                                              *)
(*                                                                         *)
(* A packet carries one bundle or one audio packet, never both:            *)
(* OneItemPerPacket of Synchronizer.  The messages of nested bundles are   *)
(* one after the other in bundle.  A message is [kind, name, part, value,  *)
(* bytes]:                                                                 *)
(*   "tracker"  /tracking/trackers/<name>/<part>                           *)
(*   "bone"     /VMC/Ext/Bone/Pos with its first argument in name          *)
(*   "other"    any other address                                          *)
(***************************************************************************)
EXTENDS Integers, FiniteSets, Sequences

CONSTANTS
    MaxMessages,  \* bound: messages in a bundle
    Values,       \* positions and rotations
    Trackers,     \* names of trackers
    Bones,        \* names of bones in a client's messages
    Sizes,        \* bytes of a message
    Payloads,     \* bytes of an audio payload
    Users,        \* the user ids of senders
    None

BufSize == 10000  \* AUDIO_LISTENER_BUF_SIZE and MOCAP_LISTENER_BUF_SIZE

Bits16 == 65536

VARIABLES
    bundle,   \* the messages, None in an audio packet
    audio,    \* [payload, extension], None in a motion capture packet
    user,     \* user_id
    at,       \* the message the conversion has come to
    hm,       \* HashMap<SlimeVRTarget, VRMBoneData>: bone -> [position, rotation]
    stage,    \* "convert", "filter", "frame", "sent" or "panicked"
    content,  \* the messages of the encoded bundle
    datagram  \* the header of the datagram, and the bytes behind it

Msg(kind, name, part, value, bytes) ==
    [kind |-> kind, name |-> name, part |-> part, value |-> value, bytes |-> bytes]

\* base_vrm_id and the head; a tracker with another number, or a word, is
\* unimplemented!().
BoneOf ==
    [name \in {"head", "1", "2", "3", "4", "5", "6", "7", "8"} |->
        CASE name = "head" -> "Head"         [] name = "1" -> "Spine"
          [] name = "2" -> "LeftFoot"        [] name = "3" -> "RightFoot"
          [] name = "4" -> "LeftUpperLeg"    [] name = "5" -> "RightUpperLeg"
          [] name = "6" -> "UpperChest"      [] name = "7" -> "LeftUpperArm"
          [] name = "8" -> "RightUpperArm"]

FILTERED ==   \* FILTERED_VRM_BONES
    {"LeftToes", "RightToes",
     "LeftThumbProximal", "LeftThumbIntermediate", "LeftThumbDistal",
     "LeftIndexProximal", "LeftIndexIntermediate", "LeftIndexDistal",
     "LeftMiddleProximal", "LeftMiddleIntermediate", "LeftMiddleDistal",
     "LeftRingProximal", "LeftRingIntermediate", "LeftRingDistal",
     "LeftLittleProximal", "LeftLittleIntermediate", "LeftLittleDistal",
     "RightThumbProximal", "RightThumbIntermediate", "RightThumbDistal",
     "RightIndexProximal", "RightIndexIntermediate", "RightIndexDistal",
     "RightMiddleProximal", "RightMiddleIntermediate", "RightMiddleDistal",
     "RightRingProximal", "RightRingIntermediate", "RightRingDistal",
     "RightLittleProximal", "RightLittleIntermediate", "RightLittleDistal"}

Parts == {"position", "rotation", "odd"}

\* The name "none" stands for a bone's message without arguments.
Messages ==
    {Msg("tracker", name, part, v, n) :
            name \in Trackers, part \in Parts, v \in Values, n \in Sizes}
        \union {Msg("bone", name, "none", 0, n) : name \in Bones \union {"none"}, n \in Sizes}
        \union {Msg("other", "none", "none", 0, n) : n \in Sizes}

Extensions == {"none", "foreign", "empty", "position"}

\* "#bundle" and the time, then each message with its length in front.
BundleBytes(messages, fixed) ==
    LET sum[k \in 0..Len(messages)] ==
            IF k = 0 THEN fixed ELSE sum[k - 1] + 4 + messages[k].bytes
    IN  sum[Len(messages)]

-----------------------------------------------------------------------------
(* The conversion. *)

Init ==
    /\ \/ /\ bundle \in UNION {[1..n -> Messages] : n \in 0..MaxMessages}
          /\ BundleBytes(bundle, 16) <= BufSize
          /\ audio = None
       \/ /\ bundle = None
          /\ audio \in [payload : Payloads, extension : Extensions]
    /\ user \in Users
    /\ at = 1 /\ hm = << >>
    /\ stage = IF bundle = None THEN "frame" ELSE "convert"
    /\ content = <<>> /\ datagram = None

\* slime_id_to_body_part: a message that is not a tracker's is an error, one
\* with an unknown tracker, part or number of arguments is a panic.
Reading(m) ==
    IF m.kind # "tracker" THEN "error"
    ELSE IF m.name \notin DOMAIN BoneOf \/ m.part = "odd" THEN "panic"
    ELSE "ok"

\* or_default().
Default == [position |-> 0, rotation |-> 0]
Entry(bone) == IF bone \in DOMAIN hm THEN hm[bone] ELSE Default

Updated(m) ==
    LET bone == BoneOf[m.name] IN
    [b \in DOMAIN hm \union {bone} |->
        IF b = bone THEN [Entry(b) EXCEPT ![m.part] = m.value] ELSE hm[b]]

\* The longest name takes 16 bytes, so the message at most 76.
Converted(bone) == Msg("bone", bone, "none", Entry(bone), 76)

ConvertNext ==
    /\ stage = "convert" /\ at <= Len(bundle)
    /\ Reading(bundle[at]) = "ok"
    /\ hm' = Updated(bundle[at])
    /\ at' = at + 1
    /\ UNCHANGED <<bundle, audio, user, stage, content, datagram>>

ConvertPanics ==
    /\ stage = "convert" /\ at <= Len(bundle)
    /\ Reading(bundle[at]) = "panic"
    /\ stage' = "panicked"
    /\ UNCHANGED <<bundle, audio, user, at, hm, content, datagram>>

(* Definitions whose name ends in Bug are wrong variants of the one that    *)
(* follows them; each shows that a property depends on that code.           *)

\* Bug: what is converted so far stays in the bundle.
GivesUpBug == content' = [k \in 1..Len(bundle) |->
    IF k < at THEN Converted(BoneOf[bundle[k].name]) ELSE bundle[k]]

\* convert_to_vrm_do_nothing.
GivesUp == content' = bundle

ConvertFails ==
    /\ stage = "convert" /\ at <= Len(bundle)
    /\ Reading(bundle[at]) = "error"
    /\ GivesUp
    /\ stage' = "filter"
    /\ UNCHANGED <<bundle, audio, user, at, hm, datagram>>

\* One message for each bone, in the order of the hash map.
ConvertEnds ==
    /\ stage = "convert" /\ at > Len(bundle)
    /\ \E order \in [1..Cardinality(DOMAIN hm) -> DOMAIN hm] :
          /\ {order[k] : k \in DOMAIN order} = DOMAIN hm
          /\ content' = [k \in DOMAIN order |-> Converted(order[k])]
    /\ stage' = "filter"
    /\ UNCHANGED <<bundle, audio, user, at, hm, datagram>>

Kept(m) == ~(m.kind = "bone" /\ m.name \in FILTERED)

Rest(messages) ==
    LET kept[k \in 0..Len(messages)] ==
            IF k = 0 THEN <<>>
            ELSE IF Kept(messages[k]) THEN Append(kept[k - 1], messages[k])
            ELSE kept[k - 1]
    IN  kept[Len(messages)]

\* filter_vrm indexes the arguments of a bone's message.
Filter ==
    /\ stage = "filter"
    /\ IF \E k \in DOMAIN content : content[k].kind = "bone" /\ content[k].name = "none"
       THEN stage' = "panicked" /\ UNCHANGED content
       ELSE stage' = "frame" /\ content' = Rest(content)
    /\ UNCHANGED <<bundle, audio, user, at, hm, datagram>>

-----------------------------------------------------------------------------
(* The layout. *)

\* Raw, the bundle that came in is a part of another one.
OscBytes ==
    IF bundle = None THEN 0
    ELSE BundleBytes(content, IF at > Len(bundle) THEN 16 ELSE 36)

AudioBytes == IF audio = None THEN 0 ELSE audio.payload

U16(n) == n % Bits16

HeaderBytes == 4 + 2 + 2 + 2 + 4

Size == AudioBytes + OscBytes + HeaderBytes

\* Bug: the two lengths are written the other way round.
HeaderBug(position) ==
    [size |-> Size, osc |-> U16(AudioBytes), audio |-> U16(OscBytes), user |-> U16(user),
     position |-> position]

Header(position) ==
    [size |-> Size, osc |-> U16(OscBytes), audio |-> U16(AudioBytes), user |-> U16(user),
     position |-> position]

Position == IF audio # None /\ audio.extension = "position" THEN "given" ELSE "none"

\* The four bytes of the position are sliced out of an extension with the id of
\* VRL.  That pkt_size is the number of bytes written, which the code asserts, holds
\* of the fields and parts it is the sum of.
Frame ==
    /\ stage = "frame"
    /\ IF audio # None /\ audio.extension = "empty"
       THEN stage' = "panicked" /\ UNCHANGED datagram
       ELSE /\ stage' = "sent"
            /\ datagram' = [header |-> Header(Position),
                            body |-> <<[part |-> "osc", bytes |-> OscBytes],
                                       [part |-> "audio", bytes |-> AudioBytes]>>]
    /\ UNCHANGED <<bundle, audio, user, at, hm, content>>

Next == ConvertNext \/ ConvertPanics \/ ConvertFails \/ ConvertEnds \/ Filter \/ Frame

-----------------------------------------------------------------------------
(* Properties. *)

Ok(n) == \A k \in 1..n : Reading(bundle[k]) = "ok"

\* The last value of a part of a bone, if there was one.
LastOf(bone, part) ==
    LET of == {k \in DOMAIN bundle : BoneOf[bundle[k].name] = bone /\ bundle[k].part = part}
    IN  IF of = {} THEN 0 ELSE bundle[CHOOSE k \in of : \A j \in of : j <= k].value

\* The messages that are kept, in their order.
WithoutFiltered(messages, rest) ==
    \E from \in [DOMAIN rest -> DOMAIN messages] :
        /\ \A i, j \in DOMAIN rest : i < j => from[i] < from[j]
        /\ \A i \in DOMAIN rest : rest[i] = messages[from[i]]
        /\ {from[i] : i \in DOMAIN rest} = {k \in DOMAIN messages : Kept(messages[k])}

\* A bundle goes out converted as a whole, with one message for every bone that
\* has the last position and rotation said of it, or as it came in but for the
\* filtered bones; it is never converted in part, whichever message fails.  It
\* stops the transmitter only if an unknown tracker comes before any other
\* message, or if a bone without arguments is not converted away.
ConvertedWhole ==
  /\ stage = "panicked" /\ bundle # None =>
        \E k \in DOMAIN bundle :
            \/ Ok(k - 1) /\ Reading(bundle[k]) = "panic"
            \/ ~Ok(Len(bundle)) /\ bundle[k].kind = "bone" /\ bundle[k].name = "none"
  /\ stage = "sent" /\ bundle # None =>
        IF Ok(Len(bundle))
        THEN LET bones == {BoneOf[bundle[k].name] : k \in DOMAIN bundle} IN
             /\ Len(content) = Cardinality(bones)
             /\ {content[k] : k \in DOMAIN content} =
                  {Msg("bone", b, "none", [position |-> LastOf(b, "position"),
                                       rotation |-> LastOf(b, "rotation")], 76) : b \in bones}
        ELSE WithoutFiltered(bundle, content)

\* A receiver that cuts the datagram with the lengths of its header finds the
\* parts the server put there, of the user that sent them: no length is cut by
\* its 16 bits, because what goes in came in datagrams of BufSize.  Nothing but
\* an extension without the position it announces keeps audio from going out.
DatagramReadsBack ==
    /\ stage = "sent" =>
          LET h == datagram.header
              osc == datagram.body[1].bytes
              aud == datagram.body[2].bytes
          IN  h.size = HeaderBytes + osc + aud /\ h.osc = osc /\ h.audio = aud /\ h.user = user
    /\ stage = "panicked" /\ bundle = None => audio.extension = "empty"
=============================================================================
