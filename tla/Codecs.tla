------------------------------- MODULE Codecs -------------------------------
(***************************************************************************)
(* The three forms in which something leaves the server: an OSC message, a *)
(* packet on a TCP connection, a datagram.  One of them is under way in a  *)
(* behaviour; None stands for the two that are not.                        *)
(***************************************************************************)
EXTENDS Naturals, Sequences

CONSTANTS
    Numbers, Songs,                         \* of OscMessages
    MaxMessages, Values, Trackers, Bones, Sizes, Payloads,  \* of VrlPacket
    Users,                                  \* of both
    Events, Files, FileNames, BodySpace,    \* of TcpPacket
    None

VARIABLES
    said, read,
    parts, written,
    bundle, audio, user, at, hm, stage, content, datagram

osc == <<said, read>>
tcp == <<parts, written>>
vrl == <<bundle, audio, user, at, hm, stage, content, datagram>>

Osc == INSTANCE OscMessages
Tcp == INSTANCE TcpPacket
Vrl == INSTANCE VrlPacket

\* An RTP header has 12 bytes, a file name 255 at most; ids have 16 bits.
ASSUME SizeAssumption ==
    /\ MaxMessages \in Nat /\ Sizes \subseteq Nat
    /\ Payloads \subseteq 0..(Vrl!BufSize - 12)
    /\ Users \subseteq 0..(Vrl!Bits16 - 1)
    /\ FileNames \subseteq 1..255 /\ Events \union Files \subseteq Nat
    /\ BodySpace \in Nat \ {0}

\* None is no Some.
ASSUME NoneAssumption ==
    /\ None \notin Seq(Vrl!Messages)
    /\ None \notin [payload : Payloads, extension : Vrl!Extensions]

OscIdle == said = None /\ read = None
TcpIdle == parts = None /\ written = None
VrlIdle ==
    /\ bundle = None /\ audio = None /\ user = None /\ at = 1 /\ hm = << >>
    /\ stage = "idle" /\ content = <<>> /\ datagram = None

Init ==
    \/ Osc!OscInit /\ TcpIdle /\ VrlIdle
    \/ OscIdle /\ Tcp!TcpInit /\ VrlIdle
    \/ OscIdle /\ TcpIdle /\ Vrl!Init

vars == <<osc, tcp, vrl>>

Over ==
    /\ read # None \/ written # None \/ stage \in {"sent", "panicked"}
    /\ UNCHANGED vars

Next ==
    \/ Osc!Transmit /\ UNCHANGED <<tcp, vrl>>
    \/ Tcp!Write /\ UNCHANGED <<osc, vrl>>
    \/ Vrl!Next /\ UNCHANGED <<osc, tcp>>
    \/ Over

Spec == Init /\ [][Next]_vars

OscUnambiguous == Osc!OscUnambiguous
ConvertedWhole == Vrl!ConvertedWhole
FramesReadBack == Tcp!TcpReadsBack /\ Vrl!DatagramReadsBack
ServerMessageReencodes == Osc!ServerMessageReencodes
=============================================================================
