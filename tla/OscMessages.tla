----------------------------- MODULE OscMessages -----------------------------
(***************************************************************************)
(* The OSC form of the messages between server and clients (OSCEncodable   *)
(* and OSCDecodable in protocol/src/lib.rs, osc_messages_out.rs and        *)
(* osc_messages_in.rs).                                                    *)
(*                                                                         *)
(* An address is the sequence of its parts between the slashes:            *)
(* "/server/scene" is <<"", "server", "scene">>.  Joining prefixes with a  *)
(* slash concatenates them, and split_once takes the head off.  A message  *)
(* is [is, has]: the path of its variants and the data of the last one.    *)
(***************************************************************************)
EXTENDS Naturals, Sequences

CONSTANTS
    Numbers,  \* of samples and of scenes
    Songs,    \* names of backing tracks
    Users,    \* user ids
    None

Message(is, has) == [is |-> is, has |-> has]

\* The outcomes of a decoding that is no message.
Nothing == Message(<<>>, <<>>)
Panic == Message(<<"panic">>, <<>>)

\* What is before the first slash.
Empty == ""

\* An OSC argument, and a datum of a message, is a pair of its type and value.
UserNumbers == 1..2

Toggles == {"audio", "actor", "motion"}
Flags == {<<<<"flag", b>>>> : b \in BOOLEAN}
Counts == {<<<<"count", n>>>> : n \in Numbers}
Names == {<<<<"name", s>>>> : s \in Songs}
Members == {<<<<"user", id>>, <<"type", n>>>> : id \in Users, n \in UserNumbers}

Messages(is, data) == {Message(path, d) : path \in is, d \in data}

\* ServerMessage without Timing, whose encoding is todo!().
ServerMessages ==
    Messages({<<"scene", "state">>, <<"backing", "start">>}, Counts)
        \union Messages({"status"} \X {"useradd", "userremove", "userreconnect"}, Members)
        \union Messages({<<"backing", "stop">>, <<"performer", "matchmake", "request">>}, {<<>>})
        \union Messages({<<"backing", "new">>}, Names)
        \union Messages({<<"performer", "ready">>}, Flags)
        \union Messages({"performer"} \X {"toggle"} \X Toggles, Flags)

\* ClientMessage; the encodings of Any and Audience are todo!().
ClientMessages ==
    Messages({<<"performer", "ready">>}, Flags)
        \union Messages({"performer"} \X {"toggle"} \X Toggles, Flags)

-----------------------------------------------------------------------------
(* Encoding. *)

\* Each level pushes its own name and its variant's; of two nested levels the
\* outer variant and the inner name are the same and are pushed twice.
Variants(is) == IF Len(is) = 3 THEN <<is[1], is[2], is[2], is[3]>> ELSE is

\* A user id and a number of samples or of a scene are 32 bit integers.
Argument(d) ==
    CASE d[1] = "flag" -> <<"bool", d[2]>>
      [] d[1] = "name" -> <<"string", d[2]>>
      [] OTHER -> <<"int", d[2]>>

Osc(address, has) == [address |-> address, args |-> [k \in DOMAIN has |-> Argument(has[k])]]

EncodeServer(m, prefix) == Osc(prefix \o <<Empty, "server">> \o Variants(m.is), m.has)

\* No level adds the prefix of ClientMessage.
EncodeClient(m, prefix) == Osc(prefix \o Variants(m.is), m.has)

-----------------------------------------------------------------------------
(* Decoding: deconstruct_osc of each level gets the rest of the address.    *)

\* from_osc_message: no address, or the address without a leading slash.
Trimmed(address) ==
    IF Len(address) > 1 /\ Head(address) = Empty THEN Tail(address) ELSE address

\* Some(Self::Level(inner?)).
Within(level, inner) ==
    IF inner \in {Nothing, Panic} THEN inner ELSE Message(<<level>> \o inner.is, inner.has)

\* UserType::from.
DecodeMember(a, b) ==
    IF b \in UserNumbers THEN <<<<"user", a % 65536>>, <<"type", b>>>> ELSE <<>>

DecodeScene(rest, args) ==
    IF rest # <<"state">> THEN Nothing
    ELSE IF args = <<>> THEN Panic
    ELSE IF args[1][1] = "int" THEN Message(rest, <<<<"count", args[1][2]>>>>)
    ELSE Nothing

DecodeStatus(rest, args) ==
    IF Len(rest) > 1 \/ rest[1] \notin {"useradd", "userremove", "userreconnect"} THEN Nothing
    ELSE IF Len(args) # 2 \/ \E k \in DOMAIN args : args[k][1] # "int" THEN Nothing
    ELSE LET has == DecodeMember(args[1][2], args[2][2]) IN
         IF has = <<>> THEN Panic ELSE Message(rest, has)

(* Definitions whose name ends in Bug are wrong variants of the one that    *)
(* follows them; each shows that a property depends on that code.           *)

\* Bug: the argument is not looked at.
DecodeBackingBug(rest, args) ==
    IF rest \notin {<<"stop">>, <<"start">>, <<"new">>} THEN Nothing
    ELSE Message(rest, [k \in DOMAIN args |-> <<"count", args[k][2]>>])

\* The type of the argument tells Start from New.
DecodeBacking(rest, args) ==
    IF rest = <<"stop">> THEN Message(rest, <<>>)
    ELSE IF rest \notin {<<"start">>, <<"new">>} \/ args = <<>> THEN Nothing
    ELSE IF args[1][1] = "int" THEN Message(<<"start">>, <<<<"count", args[1][2]>>>>)
    ELSE IF args[1][1] = "string" THEN Message(<<"new">>, <<<<"name", args[1][2]>>>>)
    ELSE Nothing

IsFlag(args) == Len(args) = 1 /\ args[1][1] = "bool"

\* It wants a slash after its own name.
DecodeToggle(rest, args) ==
    IF Len(rest) > 1 /\ IsFlag(args) /\ Head(rest) \in Toggles
    THEN Message(<<Head(rest)>>, <<<<"flag", args[1][2]>>>>)
    ELSE Nothing

\* It looks for a slash in the address of the whole message.
DecodeMatchMake(address, rest) ==
    IF Len(address) = 1 /\ rest = <<"request">> THEN Message(rest, <<>>) ELSE Nothing

DecodePerformerServer(address, rest, args) ==
    IF Len(rest) > 1
    THEN CASE Head(rest) = "matchmake" ->
                Within("matchmake", DecodeMatchMake(address, Tail(rest)))
           [] Head(rest) = "toggle" -> Within("toggle", DecodeToggle(Tail(rest), args))
           [] OTHER -> Nothing
    ELSE IF IsFlag(args) /\ rest = <<"ready">> THEN Message(rest, <<<<"flag", args[1][2]>>>>)
    ELSE Nothing

DecodePerformerClient(rest, args) ==
    IF Len(rest) > 1
    THEN IF Head(rest) = "toggle" THEN Within("toggle", DecodeToggle(Tail(rest), args))
         ELSE Nothing
    ELSE IF rest # <<"ready">> THEN Nothing
    ELSE IF args = <<>> THEN Panic
    ELSE IF args[1][1] = "bool" THEN Message(rest, <<<<"flag", args[1][2]>>>>)
    ELSE Nothing

\* Status and backing messages have no arm of their own.
DecodeServer(osc) ==
    LET path == Trimmed(osc.address) IN
    IF Len(path) < 3 \/ path[1] # "server" THEN Nothing
    ELSE LET rest == Tail(Tail(path)) IN
         CASE path[2] = "scene" -> Within("scene", DecodeScene(rest, osc.args))
           [] path[2] = "performer" ->
                Within("performer", DecodePerformerServer(osc.address, rest, osc.args))
           [] OTHER -> Nothing

DecodeClient(osc) ==
    LET path == Trimmed(osc.address) IN
    IF Len(path) = 1 THEN Nothing
    ELSE CASE path[1] \in {"any", "audience"} -> Panic
           [] path[1] = "performer" ->
                Within("performer", DecodePerformerClient(Tail(path), osc.args))
           [] OTHER -> Nothing

-----------------------------------------------------------------------------
(* A message on its way. *)

VARIABLES
    said,    \* [side, prefix, message], or None
    read     \* what the other side reads, or None

\* encode() has no prefix, the tests have vec![""].
OscInit ==
    /\ said \in [side : {"server"}, prefix : {<<>>, <<Empty>>}, message : ServerMessages]
            \union [side : {"client"}, prefix : {<<>>, <<Empty>>}, message : ClientMessages]
    /\ read = None

Transmit ==
    /\ said # None /\ read = None
    /\ read' = IF said.side = "server" THEN DecodeServer(EncodeServer(said.message, said.prefix))
               ELSE DecodeClient(EncodeClient(said.message, said.prefix))
    /\ UNCHANGED said

\* What the decoder of a message's own level reads of it, the levels included that
\* DecodeServer does not call.
DecodeLevel(m) ==
    LET osc == EncodeServer(m, <<>>)
        rest == Tail(m.is)
    IN CASE m.is[1] = "scene" -> Within("scene", DecodeScene(rest, osc.args))
         [] m.is[1] = "status" -> Within("status", DecodeStatus(rest, osc.args))
         [] m.is[1] = "backing" -> Within("backing", DecodeBacking(rest, osc.args))
         [] OTHER -> Within("performer", DecodePerformerServer(osc.address, rest, osc.args))

\* The toggles and the matchmaking, three names deep.
Nested == {m \in ServerMessages : Len(m.is) = 3}

-----------------------------------------------------------------------------
(* Properties. *)

\* What is read of a message, at either end and down to the user ids at the edges of
\* their 16 bits, is that message or nothing, and no arm panics on what the other side
\* encodes.  Of the server's messages, each level but the nested two reads its own as
\* they were written; those two read nothing of theirs, the toggles for want of a slash
\* after their name (osc_messages_in.rs), the matchmaking for one in the address
\* (osc_messages_out.rs).  No two messages of the server look the same although they
\* share names between levels and lose their types on the way.
OscUnambiguous ==
    said # None =>
        /\ read \in {None, Nothing, said.message}
        /\ said.side = "server" =>
              /\ DecodeLevel(said.message) =
                    IF said.message \in Nested THEN Nothing ELSE said.message
              /\ \A m \in ServerMessages \ {said.message} :
                    EncodeServer(m, said.prefix) # EncodeServer(said.message, said.prefix)

\* "Object was not re-encoded" (the test try_create_server_message in
\* osc_messages_out.rs): a ready message of the server, encoded with the test's
\* prefix, is decoded again.
ServerMessageReencodes ==
    said # None /\ read # None /\ said.side = "server" /\ said.prefix = <<Empty>>
        /\ said.message.is = <<"performer", "ready">> => read # Nothing
=============================================================================
