------------------------------- MODULE WSHub -------------------------------
(***************************************************************************)
(* The hub of the server's websockets (server/ws.go): the Run loop, which  *)
(* alone writes `clients', and the read and write pumps of every client.   *)
(*                                                                         *)
(* Messages are numbered in the order in which they enter the broadcast    *)
(* channel, so the channel is the range from `handled' + 1 to `sent'.  One *)
(* broadcast is one step: what happens to a client depends on its own      *)
(* channel only.  Pings and deadlines are part of ConnFails.               *)
(***************************************************************************)
EXTENDS Naturals, Sequences, FiniteSets

CONSTANTS
    Clients,        \* connections; each is handled once
    SendCap,        \* capacity of a client's send channel
    BroadcastCap,   \* capacity of the broadcast channel
    MaxMessages     \* bound: messages broadcast in a run

ASSUME HubAssumption ==
    SendCap \in Nat \ {0} /\ BroadcastCap \in Nat \ {0} /\ MaxMessages \in Nat

VARIABLES
    clients,    \* WSHub.clients
    send,       \* the messages in a client's send channel
    closes,     \* how often the channel was closed
    reader,     \* readPump of a client
    writer,     \* writePump of a client
    open,       \* connections that are open
    taken,      \* the last message a client's writePump took from the channel
    sent,       \* messages broadcast
    handled     \* messages Run has passed on

vars == <<clients, send, closes, reader, writer, open, taken, sent, handled>>

TypeOK ==
    /\ clients \in SUBSET Clients
    /\ send \in [Clients -> Seq(Nat)] /\ \A c \in Clients : Len(send[c]) <= SendCap
    /\ closes \in [Clients -> Nat]
    /\ reader \in [Clients -> {"new", "registered", "reading", "leaving", "left", "over"}]
    /\ writer \in [Clients -> {"off", "on", "over"}]
    /\ open \in SUBSET Clients
    /\ taken \in [Clients -> Nat]
    /\ sent \in 0..MaxMessages /\ handled \in 0..sent /\ sent - handled <= BroadcastCap

Init ==
    /\ clients = {} /\ send = [c \in Clients |-> <<>>] /\ closes = [c \in Clients |-> 0]
    /\ reader = [c \in Clients |-> "new"] /\ writer = [c \in Clients |-> "off"]
    /\ open = Clients /\ taken = [c \in Clients |-> 0] /\ sent = 0 /\ handled = 0

Reader(c, from, to) == reader[c] = from /\ reader' = [reader EXCEPT ![c] = to]
-----------------------------------------------------------------------------
\* Run: a client's HandleConnection is received.
Register(c) ==
    /\ Reader(c, "new", "registered") /\ clients' = clients \cup {c}
    /\ taken' = [taken EXCEPT ![c] = handled]
    /\ UNCHANGED <<send, closes, writer, open, sent, handled>>

\* Fault: the channel is closed without a look at the map.
CloseUnseen(c) == closes' = [closes EXCEPT ![c] = @ + 1]
CloseIfClient(c) == closes' = IF c \in clients THEN [closes EXCEPT ![c] = @ + 1] ELSE closes
\* Run: the unregister of a readPump is received.
Unregister(c) ==
    /\ Reader(c, "leaving", "left") /\ CloseIfClient(c) /\ clients' = clients \ {c}
    /\ UNCHANGED <<send, writer, open, taken, sent, handled>>

\* Fault: the channel of a client that is thrown out stays open.
LeaveOpen(evicted) == UNCHANGED closes

Full(c) == Len(send[c]) >= SendCap
CloseAll(evicted) ==
    closes' = [c \in Clients |-> IF c \in evicted THEN closes[c] + 1 ELSE closes[c]]
PassOn(receivers) ==
    /\ handled < sent /\ handled' = handled + 1
    /\ send' = [c \in Clients |-> IF c \in receivers THEN Append(send[c], handled') ELSE send[c]]
    /\ UNCHANGED <<reader, writer, open, taken, sent>>

\* Fault: a client without room misses the message.
SkipFull == PassOn({c \in clients : ~Full(c)}) /\ UNCHANGED <<clients, closes>>
\* Run: a broadcast reaches every client that has room; the others are evicted.
HandleBroadcast ==
    LET evicted == {c \in clients : Full(c)}
    IN  PassOn(clients \ evicted) /\ clients' = clients \ evicted /\ CloseAll(evicted)
-----------------------------------------------------------------------------
Broadcast ==
    /\ sent < MaxMessages /\ sent - handled < BroadcastCap /\ sent' = sent + 1
    /\ UNCHANGED <<clients, send, closes, reader, writer, open, taken, handled>>

\* The peer goes away, a deadline passes, or a write fails.
ConnFails(c) ==
    /\ c \in open /\ open' = open \ {c}
    /\ UNCHANGED <<clients, send, closes, reader, writer, taken, sent, handled>>

StartPumps(c) ==
    /\ Reader(c, "registered", "reading") /\ writer' = [writer EXCEPT ![c] = "on"]
    /\ UNCHANGED <<clients, send, closes, open, taken, sent, handled>>
ReadFails(c) ==
    /\ c \notin open /\ Reader(c, "reading", "leaving")
    /\ UNCHANGED <<clients, send, closes, writer, open, taken, sent, handled>>
ReaderCloses(c) ==
    /\ Reader(c, "left", "over") /\ open' = open \ {c}
    /\ UNCHANGED <<clients, send, closes, writer, taken, sent, handled>>

\* writePump takes a message, and writes it or finds the connection closed.
WriteMessage(c) ==
    /\ writer[c] = "on" /\ send[c] # <<>>
    /\ send' = [send EXCEPT ![c] = Tail(@)] /\ taken' = [taken EXCEPT ![c] = Head(send[c])]
    /\ writer' = IF c \in open THEN writer ELSE [writer EXCEPT ![c] = "over"]
    /\ UNCHANGED <<clients, closes, reader, open, sent, handled>>
\* The channel is closed and empty, or a ping finds the connection closed.
WriterCloses(c) ==
    /\ writer[c] = "on"
    /\ c \in open => closes[c] > 0 /\ send[c] = <<>>
    /\ writer' = [writer EXCEPT ![c] = "over"] /\ open' = open \ {c}
    /\ UNCHANGED <<clients, send, closes, reader, taken, sent, handled>>
-----------------------------------------------------------------------------
PumpStep(c) == StartPumps(c) \/ ReadFails(c) \/ ReaderCloses(c)

Next ==
    \/ Broadcast \/ HandleBroadcast
    \/ \E c \in Clients :
        \/ Register(c) \/ Unregister(c) \/ ConnFails(c) \/ PumpStep(c)
        \/ WriteMessage(c) \/ WriterCloses(c)

\* Run and the pumps are scheduled; Run's select does not prefer one channel for ever.
Fairness ==
    /\ WF_vars(HandleBroadcast)
    /\ \A c \in Clients :
        WF_vars(Unregister(c)) /\ WF_vars(PumpStep(c)) /\ WF_vars(WriteMessage(c) \/ WriterCloses(c))

Spec == Init /\ [][Next]_vars /\ Fairness
-----------------------------------------------------------------------------
\* No send channel is closed twice, or written to after it was closed (either panics and
\* ends the server), although the evictions of a broadcast and the unregister of a read
\* pump both close it.
ChannelsCloseOnce ==
    \A c \in Clients : closes[c] <= 1 /\ (c \in clients => closes[c] = 0)

\* A client in the map has received every message since it was registered, in order, or
\* still has it in its channel: one that cannot keep up is thrown out, never skipped.
NoGap ==
    \A c \in clients :
        /\ Len(send[c]) = handled - taken[c]
        /\ \A i \in 1..Len(send[c]) : send[c][i] = taken[c] + i

\* A client that was evicted, or whose connection failed, leaves the map and both of its
\* pumps end: an eviction closes the connection, and with it the read pump.
GoneIsReleased ==
    \A c \in Clients :
        (reader[c] # "new" /\ (c \notin clients \/ c \notin open))
            ~> (c \notin clients /\ reader[c] = "over" /\ writer[c] = "over")

\* The hub implements the feed: a client's mailbox is its send channel, and what it has
\* heard is what its writePump took from it.
Feed == INSTANCE EventFeed WITH
    published <- sent, passed <- handled, member <- clients, heard <- taken,
    due <- [c \in Clients |-> taken[c] + Len(send[c])]
\* Every client hears the events since it joined in order and without a gap, one that is
\* thrown out hears at most what was due to it (Run, the pumps and the send channels).
KeepsFeed == Feed!Spec
=============================================================================
