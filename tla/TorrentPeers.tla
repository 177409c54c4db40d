---------------------------- MODULE TorrentPeers ----------------------------
(***************************************************************************)
(* The peers of a torrent that has its metadata (download/torrent/         *)
(* torrent.go): AddPeer, RemovePeer, RequestPiece, WritePiece and          *)
(* ProcessPeer, which runs in a goroutine per connection and calls the     *)
(* piece manager.  A session's calls interleave with those of the others:  *)
(* between StoreBlock, the test of BlocksGot, VerifyPiece and WritePiece   *)
(* no lock is held.                                                        *)
(*                                                                         *)
(* A peer is the environment: it sends any frames at any time.  A message  *)
(* of this module is what ReadMessage makes of a frame (see PeerWire): an  *)
(* unchoke or a whole block is only read from a peer whose frames announce *)
(* one byte more than the protocol says, and a frame without payload ends  *)
(* the program.                                                            *)
(***************************************************************************)
EXTENDS PieceManager

CONSTANTS
    Conns,     \* connections
    AddrOf,    \* the remote address of a connection
    MaxPeers   \* TorrentConfig.MaxPeers

NoConn == "noconn"
NoPiece == -1

ASSUME ConnsAssumption ==
    /\ AddrOf \in [Conns -> Addrs] /\ NoConn \notin Conns
    /\ MaxPeers \in Nat \ {0}

VARIABLES
    peers,      \* Torrent.Peers: the connection registered for an address
    open,       \* connections neither side has closed
    sess,       \* the session of a connection: its next step, and its piece
    written,    \* FileWrite.BytesWritten of each file
    up          \* the process runs

sessVars == <<peers, open, sess, written, up>>
vars == <<pmVars, sessVars>>

Steps == {"off", "read", "ask", "stored", "verify", "write", "over"}
Session == [at : Steps, piece : Pieces \cup {NoPiece}]
At(step, p) == [at |-> step, piece |-> p]

TypeOK ==
    /\ PMTypeOK
    /\ peers \in [Addrs -> Conns \cup {NoConn}]
    /\ open \in SUBSET Conns
    /\ sess \in [Conns -> Session]
    /\ written \in [FileIds -> Nat]
    /\ up \in BOOLEAN

Init ==
    /\ PMInit
    /\ peers = [a \in Addrs |-> NoConn] /\ open = {}
    /\ sess = [c \in Conns |-> At("off", NoPiece)]
    /\ written = [f \in FileIds |-> 0] /\ up = TRUE

Goto(c, step, p) == sess' = [sess EXCEPT ![c] = At(step, p)]
OnlySession == UNCHANGED <<pmVars, peers, open, written, up>>
-----------------------------------------------------------------------------
Registered == {a \in Addrs : peers[a] # NoConn}

\* AddPeer, then ProcessPeer starts.  A connection beyond the limit is closed, a
\* second one of an address stays open and is not registered.
AddPeer(c) ==
    LET a == AddrOf[c]
        full == Cardinality(Registered) >= MaxPeers
    IN  /\ sess[c].at = "off" /\ Goto(c, "read", NoPiece)
        /\ peers' = IF a \in Registered \/ full THEN peers ELSE [peers EXCEPT ![a] = c]
        /\ open' = IF a \notin Registered /\ full THEN open ELSE open \cup {c}
        /\ UNCHANGED <<pmVars, written, up>>

HangUp(c) == c \in open /\ open' = open \ {c} /\ UNCHANGED <<pmVars, peers, sess, written, up>>

Forget(a) == RemovePeer(a)

\* ReadMessage fails: Torrent.RemovePeer takes out the address, whichever
\* connection is registered for it.
SessionEnds(c) ==
    LET a == AddrOf[c]
    IN  /\ sess[c].at = "read" /\ c \notin open /\ Goto(c, "over", NoPiece)
        /\ IF a \in Registered
           THEN peers' = [peers EXCEPT ![a] = NoConn] /\ open' = open \ {peers[a]} /\ Forget(a)
           ELSE UNCHANGED <<pmVars, peers, open>>
        /\ UNCHANGED <<written, up>>

Reads(c) == sess[c].at = "read" /\ c \in open

\* A frame without payload: ReadMessage indexes an empty slice, and nothing recovers.
Panics(c) == Reads(c) /\ up' = FALSE /\ UNCHANGED <<pmVars, peers, open, sess, written>>

GetsBitfield(c, bits) ==
    Reads(c) /\ SetPeerBitfield(AddrOf[c], bits) /\ UNCHANGED sessVars
GetsHave(c, p) == Reads(c) /\ PeerHave(AddrOf[c], p) /\ UNCHANGED sessVars

\* RequestPiece: the piece is chosen under pm.mu, its blocks are read later.
GetsUnchoke(c, p) ==
    /\ Reads(c) /\ IsRarest(AddrOf[c], p) /\ Goto(c, "ask", p)
    /\ OnlySession
RequestPiece(c) == sess[c].at = "ask" /\ Goto(c, "read", NoPiece) /\ OnlySession
-----------------------------------------------------------------------------
\* A piece message, whose block is stored, or refused.
GetsBlock(c, p, b, right) ==
    /\ Reads(c) /\ StoreBlock(p, b, right) /\ Goto(c, "stored", p)
    /\ UNCHANGED <<peers, open, written, up>>
GetsBadBlock(c, p) ==
    Reads(c) /\ StoreBlockRejected(p) /\ UNCHANGED sessVars

\* The session looks at BlocksGot, without the lock.
CheckBlocks(c) ==
    LET p == sess[c].piece
    IN  /\ sess[c].at = "stored"
        /\ IF got[p] = NumBlocks(p) THEN Goto(c, "verify", p) ELSE Goto(c, "read", NoPiece)
        /\ OnlySession

Verify(c) ==
    LET p == sess[c].piece
    IN  /\ sess[c].at = "verify" /\ VerifyPiece(p)
        /\ IF VerifySucceeds(p) THEN Goto(c, "write", p) ELSE Goto(c, "read", NoPiece)
        /\ UNCHANGED <<peers, open, written, up>>

\* WritePiece: the data goes to the files from the piece's offset on, but a file
\* takes as much as it still lacks by the count of bytes written to it so far,
\* wherever in the file the offset is.
Lesser(m, n) == IF m < n THEN m ELSE n
WriteLen(p) ==
    LET Skip(s, f) == [s EXCEPT !.offset = @ - FileLengths[f], !.len = 0]
        Fill(s, len) == [offset |-> 0, left |-> s.left - len, len |-> len]
        at[f \in 0..Len(FileLengths)] ==
            IF f = 0 THEN [offset |-> p * PieceLength, left |-> size[p], len |-> 0]
            ELSE IF at[f - 1].left = 0 THEN [at[f - 1] EXCEPT !.len = 0]
            ELSE IF at[f - 1].offset >= FileLengths[f] THEN Skip(at[f - 1], f)
            ELSE Fill(at[f - 1], Lesser(at[f - 1].left, FileLengths[f] - written[f]))
    IN  [f \in FileIds |-> at[f].len]

WritePiece(c) ==
    LET p == sess[c].piece
    IN  /\ sess[c].at = "write" /\ Goto(c, "read", NoPiece)
        /\ written' = [f \in FileIds |-> written[f] + WriteLen(p)[f]]
        /\ UNCHANGED <<pmVars, peers, open, up>>

\* A file cannot be written: what went to the files before it stays counted.
WriteFails(c) ==
    LET p == sess[c].piece
    IN  /\ sess[c].at = "write" /\ Goto(c, "read", NoPiece)
        /\ \E last \in 0..(Len(FileLengths) - 1) :
             written' = [f \in FileIds |-> IF f <= last THEN written[f] + WriteLen(p)[f]
                                           ELSE written[f]]
        /\ UNCHANGED <<pmVars, peers, open, up>>

\* Client.SetFilePriority.
Prioritize(f, skip) == SetFilePriority(f, skip) /\ UNCHANGED sessVars

SessionStep(c) ==
    \/ AddPeer(c) \/ HangUp(c) \/ SessionEnds(c)
    \/ \E bits \in SUBSET Pieces : GetsBitfield(c, bits)
    \/ \E p \in Pieces \cup {NumPieces} : GetsHave(c, p)
    \/ \E p \in Pieces : \/ GetsUnchoke(c, p) \/ GetsBadBlock(c, p)
                         \/ \E b \in Blocks(p), right \in BOOLEAN : GetsBlock(c, p, b, right)
    \/ RequestPiece(c) \/ CheckBlocks(c) \/ Verify(c) \/ WritePiece(c) \/ WriteFails(c)

Next ==
    /\ up
    /\ \/ \E c \in Conns : SessionStep(c) \/ Panics(c)
       \/ \E f \in FileIds, skip \in BOOLEAN : Prioritize(f, skip)

Spec == Init /\ [][Next]_vars
-----------------------------------------------------------------------------
\* The availability of a peer is forgotten when its connection is gone: the
\* piece manager knows an address only while a connection is registered for it.
\* (It holds for an address with one connection: RemovePeer, called at the end
\* of the first of two, leaves the other one unregistered.)
Alone(a) == \A c, d \in Conns : AddrOf[c] = a /\ AddrOf[d] = a => c = d
NoGhostAvailability == \A a \in known : Alone(a) => a \in Registered
=============================================================================
