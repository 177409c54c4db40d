------------------------------ MODULE PeerWire ------------------------------
(***************************************************************************)
(* One connection between this program and another one, byte for byte: the *)
(* handshake (download/torrent/peer/conn.go, and handleInbound of          *)
(* client.go) and the frames of the messages that follow.  The other side  *)
(* is a client of BEP 3, one more process of this program, or a mirror: a  *)
(* peer that lays its handshake out as this program does and answers one.  *)
(***************************************************************************)
EXTENDS Integers, Sequences

CONSTANTS
    Messages,      \* what the other side may send: records with a type and a payload
    MaxWritten

ASSUME WireAssumption ==
    /\ Messages \subseteq [type : Nat, payload : Seq(Nat)]
    /\ MaxWritten \in Nat

VARIABLES
    role,    \* this side "dials" or "listens"
    kind,    \* the other side: "standard", "ours" or "mirror"
    here,    \* the step of this side
    there,   \* the step of the other side
    inBytes, \* bytes on their way to this side
    outBytes,
    cut,     \* the connection is closed
    wrote,   \* messages the other side has written
    heard    \* messages ReadMessage has returned

wireVars == <<role, kind, here, there, inBytes, outBytes, cut, wrote, heard>>

\* Handshake.Bytes: the protocol's name, the reserved bytes, the torrent and the peer; all
\* that matters of the fields is which one a byte is of.  That is 67 bytes of the 68: the
\* length of the name is not among them.
FieldByte(i) == CASE i \in 1..19 -> 100
                  [] i \in 20..27 -> IF i = 25 THEN 16 ELSE 0
                  [] i \in 28..47 -> 101
                  [] i \in 48..67 -> 102
                  [] OTHER -> 0
Bytes == [i \in 1..68 |-> FieldByte(i)]
\* The handshake of BEP 3 begins with that length.
Standard == [i \in 1..68 |-> IF i = 1 THEN 19 ELSE FieldByte(i - 1)]

\* ParseHandshake, as handleInbound and HandshakeWithExtensions use it.
ProtocolOf(data) == SubSeq(data, 1, 19)
InfoHashOf(data) == SubSeq(data, 28, 47)
InfoHash == InfoHashOf(Bytes)

\* WriteMessage: the length of type and payload in four bytes, then both.
FourBytes(n) == <<n \div 16777216, (n \div 65536) % 256, (n \div 256) % 256, n % 256>>
Frame(m) == FourBytes(Len(m.payload) + 1) \o <<m.type>> \o m.payload
Unchoke == [type |-> 1, payload |-> <<>>]
Choke == [type |-> 0, payload |-> <<>>]

WireInit ==
    /\ role \in {"dials", "listens"} /\ kind \in {"standard", "ours", "mirror"}
    /\ here = "greet" /\ there = "greet" /\ inBytes = <<>> /\ outBytes = <<>> /\ cut = FALSE
    /\ wrote = <<>> /\ heard = <<>>
-----------------------------------------------------------------------------
\* DialPeer: the connection is made and the handshake written.
Greet ==
    /\ role = "dials" /\ here = "greet" /\ here' = "reply" /\ outBytes' = Bytes
    /\ UNCHANGED <<role, kind, there, inBytes, cut, wrote, heard>>

\* The reply is read in full, and parsed.  The connection is closed unless it names the
\* protocol and the torrent.
Agrees(data) == ProtocolOf(data) = ProtocolOf(Bytes) /\ InfoHashOf(data) = InfoHash
ReadReply ==
    /\ here = "reply" /\ Len(inBytes) >= 68
    /\ inBytes' = SubSeq(inBytes, 69, Len(inBytes))
    /\ IF Agrees(SubSeq(inBytes, 1, 68)) THEN here' = "session" /\ UNCHANGED cut
       ELSE here' = "over" /\ cut' = TRUE
    /\ UNCHANGED <<role, kind, there, outBytes, wrote, heard>>
ReplyFails ==
    /\ here = "reply" /\ cut /\ Len(inBytes) < 68 /\ here' = "over"
    /\ UNCHANGED <<role, kind, there, inBytes, outBytes, cut, wrote, heard>>

\* handleInbound: one Read, which may return a part of the handshake, the rest of the
\* buffer being zero.  Without a torrent of that hash the connection is closed.
Padded(data) == data \o [i \in 1..(68 - Len(data)) |-> 0]
HearHandshake ==
    /\ role = "listens" /\ here = "greet" /\ inBytes # <<>>
    /\ \E n \in {10, 68} \cap 1..Len(inBytes) :
         /\ inBytes' = SubSeq(inBytes, n + 1, Len(inBytes))
         /\ IF InfoHashOf(Padded(SubSeq(inBytes, 1, n))) = InfoHash
            THEN here' = "found" /\ UNCHANGED cut
            ELSE here' = "over" /\ cut' = TRUE
    /\ UNCHANGED <<role, kind, there, outBytes, wrote, heard>>
HearFails ==
    /\ role = "listens" /\ here = "greet" /\ cut /\ inBytes = <<>> /\ here' = "over"
    /\ UNCHANGED <<role, kind, there, inBytes, outBytes, cut, wrote, heard>>

\* Fault: the handshake is answered before the unchoke.
AnswerThenUnchoke == Bytes \o Frame(Unchoke)
\* What is written to a peer that has been found: no handshake, an unchoke.
Welcome == Frame(Unchoke)

\* Then AddPeer, and ProcessPeer in a goroutine; or the write fails.
WriteUnchoke ==
    /\ here = "found"
    /\ IF cut THEN here' = "over" /\ UNCHANGED outBytes
       ELSE here' = "session" /\ outBytes' = outBytes \o Welcome
    /\ UNCHANGED <<role, kind, there, inBytes, cut, wrote, heard>>
\* The deferred Close of handleInbound, which does not wait for the session.
HandlerCloses ==
    /\ role = "listens" /\ here \in {"session", "panicked", "over"} /\ ~cut
    /\ cut' = TRUE /\ inBytes' = <<>>
    /\ UNCHANGED <<role, kind, here, there, outBytes, wrote, heard>>
-----------------------------------------------------------------------------
\* ReadMessage.  A length of zero is a keep-alive, returned as a message of type 0.  From
\* any other, one is subtracted for the type; so many bytes are read, and the first of
\* them is the type, which panics when there are none.
LengthRead == ((inBytes[1] * 256 + inBytes[2]) * 256 + inBytes[3]) * 256 + inBytes[4]
Needed == IF LengthRead = 0 THEN 0 ELSE LengthRead - 1
Rest(n) == SubSeq(inBytes, n + 1, Len(inBytes))
HeardMessage ==
    IF LengthRead = 0 THEN Choke
    ELSE [type |-> inBytes[5], payload |-> SubSeq(inBytes, 6, 4 + Needed)]
AllThere == Len(inBytes) >= 4 /\ Len(inBytes) >= 4 + Needed
ReadMessage ==
    /\ here = "session" /\ AllThere /\ LengthRead # 1
    /\ inBytes' = Rest(4 + Needed) /\ heard' = Append(heard, HeardMessage)
    /\ UNCHANGED <<role, kind, here, there, outBytes, cut, wrote>>
ReadPanics ==
    /\ here = "session" /\ AllThere /\ LengthRead = 1
    /\ here' = "panicked" /\ inBytes' = Rest(4)
    /\ UNCHANGED <<role, kind, there, outBytes, cut, wrote, heard>>
MessageFails ==
    /\ here = "session" /\ cut /\ ~AllThere /\ here' = "over"
    /\ UNCHANGED <<role, kind, there, inBytes, outBytes, cut, wrote, heard>>
-----------------------------------------------------------------------------
\* The other side.  It dials in its own layout, or is dialled and answers: a process of
\* this program with what this one writes to a peer, a client of BEP 3, which may overlook
\* what it was sent, in its own layout.
Greeting == IF kind = "standard" THEN Standard ELSE Bytes
OtherGreets ==
    /\ role = "listens" /\ there = "greet" /\ ~cut /\ inBytes' = Greeting
    /\ there' = IF kind = "mirror" THEN "talk" ELSE "wait"
    /\ UNCHANGED <<role, kind, here, outBytes, cut, wrote, heard>>
Reply == CASE kind = "standard" -> Standard
           [] kind = "ours" -> Welcome
           [] kind = "mirror" -> Bytes
OtherAnswers ==
    /\ role = "dials" /\ there = "greet" /\ outBytes # <<>> /\ ~cut
    /\ outBytes' = <<>> /\ inBytes' = inBytes \o Reply /\ there' = "talk"
    /\ UNCHANGED <<role, kind, here, cut, wrote, heard>>
\* Having dialled it checks the answer it gets.
Accepts(data) == IF kind = "standard" THEN SubSeq(data, 1, 20) = SubSeq(Standard, 1, 20)
                 ELSE Agrees(data)
OtherReadsReply ==
    /\ role = "listens" /\ there = "wait" /\ (Len(outBytes) >= 68 \/ cut)
    /\ there' = IF Len(outBytes) >= 68 /\ Accepts(outBytes) THEN "talk" ELSE "over"
    /\ UNCHANGED <<role, kind, here, inBytes, outBytes, cut, wrote, heard>>
OtherSends(m) ==
    /\ there = "talk" /\ ~cut /\ Len(wrote) < MaxWritten
    /\ wrote' = Append(wrote, m) /\ inBytes' = inBytes \o Frame(m)
    /\ UNCHANGED <<role, kind, here, there, outBytes, cut, heard>>
OtherCloses ==
    /\ ~cut /\ cut' = TRUE
    /\ UNCHANGED <<role, kind, here, there, inBytes, outBytes, wrote, heard>>

ThisSide ==
    \/ Greet \/ ReadReply \/ ReplyFails \/ HearHandshake \/ HearFails \/ WriteUnchoke
    \/ HandlerCloses \/ ReadMessage \/ ReadPanics \/ MessageFails
OtherSide ==
    \/ OtherGreets \/ OtherAnswers \/ OtherReadsReply \/ OtherCloses
    \/ \E m \in Messages : OtherSends(m)
WireNext == ThisSide \/ OtherSide
WireSpec == WireInit /\ [][WireNext]_wireVars
-----------------------------------------------------------------------------
WireTypeOK ==
    /\ role \in {"dials", "listens"} /\ kind \in {"standard", "ours", "mirror"}
    /\ here \in {"greet", "reply", "found", "session", "panicked", "over"}
    /\ there \in {"greet", "wait", "talk", "over"}
    /\ inBytes \in Seq(Nat) /\ outBytes \in Seq(Nat) /\ cut \in BOOLEAN
    /\ wrote \in Seq(Messages) /\ heard \in Seq([type : Nat, payload : Seq(Nat)])

\* Both sides of a connection take it for open only when the other one is a mirror: no
\* client of BEP 3 and no second process of this program gets there, whoever dials, since
\* the length of the protocol's name is left out (peer/conn.go:63) and an inbound handshake
\* is not answered (client.go:148).
OnlyMirrorsTalk == here = "session" /\ there = "talk" => kind = "mirror"

\* "ReadMessage reads a peer wire message" (peer/conn.go:187): the messages read are
\* those that WriteMessage's framing carried, in order.
MessagesArrive == heard = SubSeq(wrote, 1, Len(heard))
=============================================================================
