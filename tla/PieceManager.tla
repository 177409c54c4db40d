---------------------------- MODULE PieceManager ----------------------------
(***************************************************************************)
(* The piece manager of a torrent (download/torrent/piece_manager.go):     *)
(* which pieces are downloaded, the blocks appended to each, which pieces  *)
(* the peers have, how many peers have a piece, and the files that are     *)
(* wanted.  Every method locks pm.mu, so every operation is one step.      *)
(*                                                                         *)
(* A block of payload is abstracted to its index and whether its bytes are *)
(* the torrent's; the SHA-1 of a piece matches exactly when the data is    *)
(* the blocks of the piece in order, all of them right.                    *)
(***************************************************************************)
EXTENDS Integers, FiniteSets, Sequences

CONSTANTS
    Addrs,        \* remote addresses, the keys of peerPieces
    BlockSize,    \* bytes of a block (16384 in the code)
    PieceLength,  \* bytes of every piece but the last
    TotalSize,    \* bytes of the torrent
    FileLengths,  \* the lengths of the files, in order
    MaxStored     \* bound: blocks appended to a piece

ASSUME SizeAssumption ==
    /\ BlockSize \in Nat \ {0} /\ PieceLength \in Nat \ {0} /\ TotalSize \in Nat \ {0}
    /\ MaxStored \in Nat /\ FileLengths \in Seq(Nat) /\ Len(FileLengths) > 0
    /\ IsFiniteSet(Addrs)

CeilDiv(x, y) == (x + y - 1) \div y
NumPieces == CeilDiv(TotalSize, PieceLength)
Pieces == 0..(NumPieces - 1)

\* NewPieceManager: the last piece has what the others leave.
PieceLen(p) ==
    LET remainder == TotalSize % PieceLength
    IN  IF p = NumPieces - 1 /\ remainder > 0 THEN remainder ELSE PieceLength

\* newPiece: the last block has what the others leave.
NumBlocks(p) == CeilDiv(PieceLen(p), BlockSize)
Blocks(p) == 0..(NumBlocks(p) - 1)
BlockLen(p, b) ==
    IF (b + 1) * BlockSize > PieceLen(p) THEN PieceLen(p) - b * BlockSize ELSE BlockSize

\* buildPieceToFileMap: the files a piece holds bytes of.
FileIds == 1..Len(FileLengths)
FileStart[f \in FileIds] == IF f = 1 THEN 0 ELSE FileStart[f - 1] + FileLengths[f - 1]
FileEnd(f) == FileStart[f] + FileLengths[f]
LastPiece(f) == IF FileEnd(f) = 0 THEN 0 ELSE (FileEnd(f) - 1) \div PieceLength
FilesOf(p) == {f \in FileIds : FileStart[f] \div PieceLength <= p /\ p <= LastPiece(f)}

ASSUME TotalAssumption == TotalSize = FileEnd(Len(FileLengths))

VARIABLES
    state,    \* Piece.State
    data,     \* Piece.Data, as the blocks that were appended
    size,     \* len(Piece.Data)
    done,     \* the blocks whose Done flag is set
    got,      \* Piece.BlocksGot
    known,    \* the keys of peerPieces
    has,      \* peerPieces: the pieces a known peer has
    count,    \* pieceCounts
    skipped   \* the files whose priority is PrioritySkip

pieceVars == <<state, data, size, done, got>>
peerVars == <<known, has, count>>
pmVars == <<pieceVars, peerVars, skipped>>

PieceState == {"missing", "downloading", "verified", "failed"}
StoredBlock == Nat \X BOOLEAN

PMTypeOK ==
    /\ state \in [Pieces -> PieceState]
    /\ data \in [Pieces -> Seq(StoredBlock)]
    /\ size \in [Pieces -> Nat] /\ got \in [Pieces -> Nat]
    /\ done \in [Pieces -> SUBSET Nat]
    /\ known \in SUBSET Addrs
    /\ has \in [Addrs -> SUBSET Pieces]
    /\ count \in [Pieces -> Nat]
    /\ skipped \in SUBSET FileIds
-----------------------------------------------------------------------------
PMInit ==
    /\ state = [p \in Pieces |-> "missing"]
    /\ data = [p \in Pieces |-> <<>>] /\ size = [p \in Pieces |-> 0]
    /\ done = [p \in Pieces |-> {}] /\ got = [p \in Pieces |-> 0]
    /\ known = {} /\ has = [a \in Addrs |-> {}] /\ count = [p \in Pieces |-> 0]
    /\ skipped = {}

SetFilePriority(f, skip) ==
    /\ skipped' = IF skip THEN skipped \cup {f} ELSE skipped \ {f}
    /\ UNCHANGED <<pieceVars, peerVars>>

\* What is counted once more, and once less, when the set of a peer changes.
\* Faults: the pieces of an earlier bitfield are counted again, or taken back
\* although they were never counted.
RecountAll(old, new) == [p \in Pieces |-> IF p \in new THEN count[p] + 1 ELSE count[p]]
UncountAll(old, new) ==
    [p \in Pieces |-> IF p \in new THEN (IF p \in old THEN count[p] ELSE count[p] + 1)
                      ELSE count[p] - 1]
Recount(old, new) ==
    [p \in Pieces |-> CASE p \in new \ old -> count[p] + 1
                        [] p \in old \ new -> count[p] - 1
                        [] OTHER -> count[p]]

SetPeerBitfield(a, bits) ==
    /\ count' = Recount(has[a], bits)
    /\ has' = [has EXCEPT ![a] = bits] /\ known' = known \cup {a}
    /\ UNCHANGED <<pieceVars, skipped>>

\* An index beyond the last piece only creates the entry of the peer.
PeerHave(a, p) ==
    /\ known' = known \cup {a}
    /\ IF p \in Pieces \ has[a]
       THEN /\ has' = [has EXCEPT ![a] = @ \cup {p}]
            /\ count' = [count EXCEPT ![p] = @ + 1]
       ELSE UNCHANGED <<has, count>>
    /\ UNCHANGED <<pieceVars, skipped>>

NotBelowZero(n) == IF n < 0 THEN 0 ELSE n
RemovePeer(a) ==
    /\ count' = [p \in Pieces |-> IF p \in has[a] THEN NotBelowZero(count[p] - 1) ELSE count[p]]
    /\ has' = [has EXCEPT ![a] = {}] /\ known' = known \ {a}
    /\ UNCHANGED <<pieceVars, skipped>>

\* RarestPiece: of the wanted pieces that are not started, that the peer has
\* (any, if it has told us nothing), the first with the lowest count.
PieceIsWanted(p) == \E f \in FilesOf(p) : f \notin skipped
Candidates(a) ==
    {p \in Pieces : /\ state[p] \in {"missing", "failed"} /\ PieceIsWanted(p)
                    /\ a \in known => p \in has[a]}
IsRarest(a, p) ==
    /\ p \in Candidates(a)
    /\ \A q \in Candidates(a) : count[p] < count[q] \/ (count[p] = count[q] /\ p <= q)
-----------------------------------------------------------------------------
\* StoreBlock marks the piece before it looks at the block.
Started(p) == [state EXCEPT ![p] = IF @ \in {"missing", "failed"} THEN "downloading" ELSE @]

\* The offset is that of no block, or the length is not the block's.
StoreBlockRejected(p) ==
    /\ state' = Started(p)
    /\ UNCHANGED <<data, size, done, got, peerVars, skipped>>

\* The data is appended, whatever is there already.
StoreBlock(p, b, right) ==
    /\ Len(data[p]) < MaxStored
    /\ state' = Started(p)
    /\ data' = [data EXCEPT ![p] = Append(@, <<b, right>>)]
    /\ size' = [size EXCEPT ![p] = @ + BlockLen(p, b)]
    /\ done' = [done EXCEPT ![p] = @ \cup {b}] /\ got' = [got EXCEPT ![p] = @ + 1]
    /\ UNCHANGED <<peerVars, skipped>>

RightData(p) == [k \in 1..NumBlocks(p) |-> <<k - 1, TRUE>>]

\* Faults: the length is not checked before the hash, or that every block came
\* is taken for a match.
LengthUnchecked(p) == TRUE
HasItsLength(p) == size[p] = PieceLen(p)
AllBlocksCame(p) == done[p] = Blocks(p)
HashMatches(p) == data[p] = RightData(p)

VerifySucceeds(p) == HasItsLength(p) /\ HashMatches(p)

\* A wrong length is an error and changes nothing; a wrong hash starts over.
VerifyPiece(p) ==
    /\ IF HasItsLength(p) /\ ~HashMatches(p)
       THEN /\ state' = [state EXCEPT ![p] = "failed"]
            /\ data' = [data EXCEPT ![p] = <<>>] /\ size' = [size EXCEPT ![p] = 0]
            /\ done' = [done EXCEPT ![p] = {}] /\ got' = [got EXCEPT ![p] = 0]
       ELSE /\ state' = IF HasItsLength(p) THEN [state EXCEPT ![p] = "verified"] ELSE state
            /\ UNCHANGED <<data, size, done, got>>
    /\ UNCHANGED <<peerVars, skipped>>

PMNext ==
    \/ \E f \in FileIds, skip \in BOOLEAN : SetFilePriority(f, skip)
    \/ \E a \in Addrs : \/ \E bits \in SUBSET Pieces : SetPeerBitfield(a, bits)
                        \/ \E p \in Pieces \cup {NumPieces} : PeerHave(a, p)
                        \/ RemovePeer(a)
    \/ \E p \in Pieces : \/ \E b \in Blocks(p), right \in BOOLEAN : StoreBlock(p, b, right)
                         \/ StoreBlockRejected(p) \/ VerifyPiece(p)
PMSpec == PMInit /\ [][PMNext]_pmVars
-----------------------------------------------------------------------------
\* pieceCounts is what RarestPiece orders pieces by: for every piece it is the
\* number of peers that have it, however bitfields, haves and removals (with
\* the clamp at zero) follow each other.
CountsMatch == \A p \in Pieces : count[p] = Cardinality({a \in Addrs : p \in has[a]})

\* The bytes a verified piece serves (ReadPieceData) and writes start with the
\* piece, complete and right, although blocks may still be appended to it.
VerifiedIntact ==
    \A p \in Pieces : state[p] = "verified" =>
        /\ Len(data[p]) >= NumBlocks(p)
        /\ \A k \in 1..NumBlocks(p) : data[p][k] = <<k - 1, TRUE>>

\* A verified piece is never given up: neither a late block nor a second
\* VerifyPiece (two sessions can both see the last block arrive) resets it.
VerifiedStays ==
    [][\A p \in Pieces : state[p] = "verified" => state'[p] = "verified"]_pmVars
=============================================================================
