------------------------------ MODULE TcpPacket ------------------------------
(***************************************************************************)
(* The packets on the TCP connections to a client: VRLTCPPacket in         *)
(* protocol/src/vrl_tcp_packet.rs, with the server's messages              *)
(* (client.rs) and the backing track (backing_track.rs) in it.  Only the   *)
(* lengths of the parts are kept.                                          *)
(***************************************************************************)
EXTENDS Naturals

CONSTANTS
    Events,     \* bytes of an encoded server message
    Files,      \* bytes of a backing track
    FileNames,  \* bytes of its file name
    BodySpace,  \* the values of the length of a body, a u32: 2^32
    None

VARIABLES
    parts,   \* the title, header and body of a packet under way, or None
    written  \* the lengths in front of them and the bytes behind, or None

Parts(title, header, body) == [title |-> title, header |-> header, body |-> body]

\* "BUNDLE", without a header, and "NEWTRACK", with the length and the bytes of
\* the file's name.
TcpInit ==
    /\ parts \in {Parts(6, 0, bytes) : bytes \in Events}
            \union {Parts(8, 2 + name, bytes) : name \in FileNames, bytes \in Files}
    /\ written = None

HeaderLen(bytes) == bytes % 65536

BodyLen(bytes) == bytes % BodySpace

\* u8, title, u16, u32, header, body.
Write ==
    /\ parts # None /\ written = None
    /\ written' = [titleLen |-> parts.title % 256, headerLen |-> HeaderLen(parts.header),
                   bodyLen |-> BodyLen(parts.body),
                   bytes |-> 1 + parts.title + 2 + 4 + parts.header + parts.body]
    /\ UNCHANGED parts

\* A client that goes by the lengths finds the parts and the next packet, if the body
\* is one whose length fits.  The length of a longer one is cut, and the rest of its
\* bytes passes for the next packet: nothing refuses to send it.
TcpReadsBack ==
    written # None =>
        LET end == 7 + written.titleLen + written.headerLen + written.bodyLen IN
        /\ written.titleLen = parts.title /\ written.headerLen = parts.header
        /\ parts.body < BodySpace => written.bodyLen = parts.body /\ end = written.bytes
        /\ parts.body >= BodySpace => end < written.bytes
=============================================================================
