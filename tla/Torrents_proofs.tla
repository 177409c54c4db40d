--------------------------- MODULE Torrents_proofs ---------------------------
(***************************************************************************)
(* The torrent and the private trackers it may come from, for any number of *)
(* peers, pieces, files, trackers, callers and configurations.             *)
(*                                                                         *)
(* Every step of a session is an operation of the piece manager or leaves  *)
(* it alone (StepIsPMStep), so the facts about the piece manager are       *)
(* proved for its own next-state relation PMNext.  No file is counted      *)
(* beyond its length (WithinLength), for which the recursion of WriteLen   *)
(* over the files is followed to its least counterexample.                 *)
(*                                                                         *)
(* A login writes what it got into the configuration that is there by then. *)
(* What it has in hand is of the tracker's account as long as it is not    *)
(* stale (HeldIsOwn); a stale one that writes marks the tracker as         *)
(* overtaken, so that the others hold their own credentials (ObjectsOwn).  *)
(*                                                                         *)
(* The counts lose nothing on a hash of one tracker, because a reader that *)
(* is to store an empty entry found none, and whoever writes in between is *)
(* remembered (AllCounted).                                                *)
(***************************************************************************)
EXTENDS MCTorrents, LeastNumber, FiniteSetTheorems, TLAPS

-----------------------------------------------------------------------------
(* The peers of a torrent (PieceManager, TorrentPeers).                    *)

\* What a piece's data looks like, typing included.  VerifiedIntact is not
\* inductive: that VerifyPiece leaves a verified piece alone needs its size,
\* which is the piece's length exactly while no further block was appended.
PieceTypes ==
    /\ state \in [Pieces -> PieceState]
    /\ data \in [Pieces -> Seq(StoredBlock)]
    /\ size \in [Pieces -> Nat]
\* A verified piece: its blocks in order first, and nothing else exactly at its length.
Intact(p) ==
    /\ Len(data[p]) >= NumBlocks(p)
    /\ \A k \in 1..NumBlocks(p) : data[p][k] = <<k - 1, TRUE>>
    /\ \/ Len(data[p]) = NumBlocks(p) /\ size[p] = PieceLen(p)
       \/ size[p] > PieceLen(p)
\* The inductive invariant of the pieces.
PieceInv == PieceTypes /\ \A p \in Pieces : state[p] = "verified" => Intact(p)

\* What the piece manager knows of the peers.
PeerTypes == has \in [Addrs -> SUBSET Pieces] /\ count \in [Pieces -> Int]
\* The peers that have a piece.
Having(p) == {a \in Addrs : p \in has[a]}
\* The inductive invariant of the availability.
PeerInv == PeerTypes /\ CountsMatch

\* A connection that is open, if it is the only one of its address, is
\* registered: so what it tells about the peer is forgotten when it ends.
HasPiece(s) == s.at \in {"ask", "stored", "verify", "write"} => s.piece \in Pieces
\* The types of connections and sessions.
SessTypes ==
    /\ peers \in [Addrs -> Conns \cup {NoConn}] /\ open \in SUBSET Conns
    /\ sess \in [Conns -> Session] /\ known \in SUBSET Addrs
    /\ \A c \in Conns : HasPiece(sess[c])
\* The address of an open connection without rival is registered.
OpenInv == \A c \in open : Alone(AddrOf[c]) => AddrOf[c] \in Registered
\* The inductive invariant of the sessions.
SessInv == SessTypes /\ OpenInv /\ NoGhostAvailability
-----------------------------------------------------------------------------
\* Arithmetic of pieces and blocks.
LEMMA DivBounds ==
    ASSUME NEW x \in Nat, NEW y \in Nat \ {0}
    PROVE  /\ x \div y \in Nat /\ x % y \in 0..(y - 1)
           /\ (x \div y) * y <= x
  OBVIOUS

\* Multiplication is monotone.
LEMMA MulMono ==
    ASSUME NEW b \in Nat, NEW q \in Nat, NEW y \in Nat, b <= q
    PROVE  b * y <= q * y
  OBVIOUS

\* What is left after the last full part is less than a part.
LEMMA CeilDivBounds ==
    ASSUME NEW x \in Nat \ {0}, NEW y \in Nat \ {0}
    PROVE  /\ CeilDiv(x, y) \in Nat
           /\ \A b \in 0..(CeilDiv(x, y) - 1) : b * y < x
  <1> DEFINE q == (x + y - 1) \div y
  <1>1. q \in Nat /\ q * y <= x + y - 1
    BY x + y - 1 \in Nat, DivBounds
  <1>2. ASSUME NEW b \in 0..(q - 1) PROVE b * y < x
    <2>1. (b + 1) * y <= q * y
      BY <1>1, MulMono
    <2>2. (b + 1) * y = b * y + y
      OBVIOUS
    <2>3. b * y \in Nat
      OBVIOUS
    <2> QED BY <1>1, <2>1, <2>2, <2>3
  <1> QED BY <1>1, <1>2 DEF CeilDiv

\* No piece is empty.
LEMMA PieceLenType ==
    ASSUME NEW p \in Pieces
    PROVE  PieceLen(p) \in Nat \ {0}
  <1>1. TotalSize % PieceLength \in Nat
    BY SizeAssumption, DivBounds
  <1> QED BY <1>1, SizeAssumption DEF PieceLen

\* No block is empty.
LEMMA BlockFacts ==
    ASSUME NEW p \in Pieces
    PROVE  /\ NumBlocks(p) \in Nat
           /\ \A b \in Blocks(p) : b \in Nat /\ BlockLen(p, b) \in Nat \ {0}
  <1>1. PieceLen(p) \in Nat \ {0} /\ BlockSize \in Nat \ {0}
    BY PieceLenType, SizeAssumption
  <1>2. /\ NumBlocks(p) \in Nat
        /\ \A b \in Blocks(p) : b * BlockSize < PieceLen(p)
    BY <1>1, CeilDivBounds DEF NumBlocks, Blocks
  <1>3. ASSUME NEW b \in Blocks(p) PROVE b \in Nat /\ BlockLen(p, b) \in Nat \ {0}
    <2>1. b \in Nat
      BY <1>2 DEF Blocks
    <2>2. b * BlockSize \in Nat /\ b * BlockSize < PieceLen(p)
      BY <1>1, <1>2, <2>1
    <2> QED BY <1>1, <2>1, <2>2 DEF BlockLen
  <1> QED BY <1>2, <1>3
-----------------------------------------------------------------------------
\* The pieces.  StoreBlock only appends: a verified piece keeps its blocks, and
\* is longer than its length from then on.
LEMMA StorePieces ==
    ASSUME PieceInv, NEW p \in Pieces, NEW b \in Blocks(p), NEW right \in BOOLEAN,
           StoreBlock(p, b, right)
    PROVE  PieceInv' /\ \A q \in Pieces : state[q] = "verified" => state'[q] = "verified"
  <1>1. b \in Nat /\ BlockLen(p, b) \in Nat \ {0} /\ NumBlocks(p) \in Nat
    BY BlockFacts
  <1>2. PieceTypes'
    <2>1. <<b, right>> \in StoredBlock
      BY <1>1 DEF StoredBlock
    <2>2. Append(data[p], <<b, right>>) \in Seq(StoredBlock)
      BY <2>1 DEF PieceInv, PieceTypes
    <2>3. size[p] + BlockLen(p, b) \in Nat
      BY <1>1 DEF PieceInv, PieceTypes
    <2>4. state' \in [Pieces -> PieceState]
      BY DEF StoreBlock, Started, PieceInv, PieceTypes, PieceState
    <2> QED BY <2>2, <2>3, <2>4 DEF StoreBlock, PieceInv, PieceTypes
  <1>3. ASSUME NEW q \in Pieces, state[q] = "verified" PROVE state'[q] = "verified"
    BY <1>3 DEF StoreBlock, Started, PieceInv, PieceTypes
  <1>4. ASSUME NEW q \in Pieces, state'[q] = "verified" PROVE Intact(q)'
    <2>1. state[q] = "verified" /\ Intact(q)
      BY <1>4 DEF StoreBlock, Started, PieceInv, PieceTypes
    <2>2. NumBlocks(q) \in Nat /\ PieceLen(q) \in Nat
      BY BlockFacts, PieceLenType
    <2>3. CASE q # p
      <3>1. data'[q] = data[q] /\ size'[q] = size[q]
        BY <2>3 DEF StoreBlock, PieceInv, PieceTypes
      <3> QED BY <2>1, <3>1 DEF Intact, NumBlocks, PieceLen
    <2>4. CASE q = p
      <3>1. /\ data'[p] = Append(data[p], <<b, right>>)
            /\ size'[p] = size[p] + BlockLen(p, b)
        BY DEF StoreBlock, PieceInv, PieceTypes
      <3>2. data[p] \in Seq(StoredBlock) /\ size[p] \in Nat
        BY DEF PieceInv, PieceTypes
      <3>3. Len(data'[p]) = Len(data[p]) + 1 /\ \A k \in 1..Len(data[p]) : data'[p][k] = data[p][k]
        BY <3>1, <3>2
      <3>4. size'[p] > PieceLen(p)
        BY <1>1, <2>1, <2>2, <2>4, <3>1, <3>2 DEF Intact
      <3>5. Len(data[p]) \in Nat
        BY <3>2
      <3>6. \A k \in 1..NumBlocks(p) : k \in 1..Len(data[p])
        BY <1>1, <2>1, <2>4, <3>5 DEF Intact
      <3>7. \A k \in 1..NumBlocks(p) : data'[p][k] = <<k - 1, TRUE>>
        BY <2>1, <2>4, <3>3, <3>6 DEF Intact
      <3>8. Len(data'[p]) >= NumBlocks(p)
        BY <1>1, <2>1, <2>4, <3>3, <3>5 DEF Intact
      <3> QED BY <2>4, <3>4, <3>7, <3>8 DEF Intact, NumBlocks, PieceLen
    <2> QED BY <2>3, <2>4
  <1> QED BY <1>2, <1>3, <1>4 DEF PieceInv

\* A refused block only starts the piece, and a verified one is not started again.
LEMMA RejectPieces ==
    ASSUME PieceInv, NEW p \in Pieces, StoreBlockRejected(p)
    PROVE  PieceInv' /\ \A q \in Pieces : state[q] = "verified" => state'[q] = "verified"
  <1>1. PieceTypes'
    BY DEF StoreBlockRejected, Started, PieceInv, PieceTypes, PieceState
  <1>2. \A q \in Pieces : state'[q] = "verified" <=> state[q] = "verified"
    BY DEF StoreBlockRejected, Started, PieceInv, PieceTypes
  <1>3. ASSUME NEW q \in Pieces, state'[q] = "verified" PROVE Intact(q)'
    <2>1. Intact(q) /\ data' = data /\ size' = size
      BY <1>2, <1>3 DEF StoreBlockRejected, PieceInv
    <2> QED BY <2>1 DEF Intact, NumBlocks, PieceLen
  <1> QED BY <1>1, <1>2, <1>3 DEF PieceInv

\* VerifyPiece on a verified piece finds either its exact data, whose hash
\* matches, or more than its length.
LEMMA VerifyPieces ==
    ASSUME PieceInv, NEW p \in Pieces, VerifyPiece(p)
    PROVE  PieceInv' /\ \A q \in Pieces : state[q] = "verified" => state'[q] = "verified"
  <1>1. NumBlocks(p) \in Nat /\ PieceLen(p) \in Nat
    BY BlockFacts, PieceLenType
  <1>2. data[p] \in Seq(StoredBlock) /\ size[p] \in Nat
    BY DEF PieceInv, PieceTypes
  <1>3. ASSUME state[p] = "verified", HasItsLength(p) PROVE HashMatches(p)
    <2>1. Intact(p) /\ Len(data[p]) = NumBlocks(p)
      <3>1. Intact(p) /\ size[p] = PieceLen(p)
        BY <1>3 DEF PieceInv, HasItsLength
      <3>2. ~(size[p] > PieceLen(p))
        BY <1>1, <1>2, <3>1
      <3> QED BY <3>1, <3>2 DEF Intact
    <2>2. data[p] = [k \in 1..NumBlocks(p) |-> data[p][k]]
      BY <1>2, <2>1
    <2>3. [k \in 1..NumBlocks(p) |-> data[p][k]] = RightData(p)
      BY <2>1 DEF Intact, RightData
    <2> QED BY <2>2, <2>3 DEF HashMatches
  <1>4. CASE HasItsLength(p) /\ ~HashMatches(p)
    <2>1. state[p] # "verified"
      BY <1>3, <1>4
    <2>2. PieceTypes'
      <3>1. <<>> \in Seq(StoredBlock)
        OBVIOUS
      <3>2. data' \in [Pieces -> Seq(StoredBlock)]
        BY <1>4, <3>1 DEF VerifyPiece, PieceInv, PieceTypes
      <3>3. state' \in [Pieces -> PieceState]
        BY <1>4 DEF VerifyPiece, PieceInv, PieceTypes, PieceState
      <3>4. size' \in [Pieces -> Nat]
        <4>1. size' = [size EXCEPT ![p] = 0]
          BY <1>4 DEF VerifyPiece
        <4> QED BY <4>1 DEF PieceInv, PieceTypes
      <3> QED BY <3>2, <3>3, <3>4 DEF PieceTypes
    <2>3. ASSUME NEW q \in Pieces
          PROVE  /\ state[q] = "verified" <=> state'[q] = "verified"
                 /\ q # p => data'[q] = data[q] /\ size'[q] = size[q]
      BY <1>4, <2>1 DEF VerifyPiece, PieceInv, PieceTypes
    <2>4. ASSUME NEW q \in Pieces, state'[q] = "verified" PROVE Intact(q)'
      <3>1. q # p /\ Intact(q) /\ data'[q] = data[q] /\ size'[q] = size[q]
        BY <2>1, <2>3, <2>4 DEF PieceInv
      <3> QED BY <3>1 DEF Intact, NumBlocks, PieceLen
    <2> QED BY <2>2, <2>3, <2>4 DEF PieceInv
  <1>5. CASE ~(HasItsLength(p) /\ ~HashMatches(p))
    <2>1. data' = data /\ size' = size
      BY <1>5 DEF VerifyPiece
    <2>2. PieceTypes' /\ \A q \in Pieces : q # p => state'[q] = state[q]
      BY <1>5 DEF VerifyPiece, PieceInv, PieceTypes, PieceState
    <2>3. state[p] = "verified" => state'[p] = "verified"
      BY <1>5 DEF VerifyPiece, PieceInv, PieceTypes
    <2>4. state'[p] = "verified" => Intact(p)
      <3>1. CASE ~HasItsLength(p)
        BY <1>5, <3>1 DEF VerifyPiece, PieceInv
      <3>2. CASE HasItsLength(p)
        <4>1. data[p] = RightData(p)
          BY <1>5, <3>2 DEF HashMatches
        <4>2. Len(data[p]) = NumBlocks(p) /\ \A k \in 1..NumBlocks(p) : data[p][k] = <<k - 1, TRUE>>
          <5>1. DOMAIN data[p] = 1..NumBlocks(p)
            BY <4>1 DEF RightData
          <5>2. Len(data[p]) = NumBlocks(p)
            BY <1>1, <1>2, <5>1
          <5> QED BY <4>1, <5>2 DEF RightData
        <4>3. size[p] = PieceLen(p) /\ Len(data[p]) >= NumBlocks(p)
          BY <1>1, <3>2, <4>2 DEF HasItsLength
        <4> QED BY <4>2, <4>3 DEF Intact
      <3> QED BY <3>1, <3>2
    <2>5. ASSUME NEW q \in Pieces, state'[q] = "verified" PROVE Intact(q)'
      <3>1. Intact(q)
        BY <2>2, <2>4, <2>5 DEF PieceInv
      <3> QED BY <2>1, <3>1 DEF Intact, NumBlocks, PieceLen
    <2> QED BY <2>2, <2>3, <2>5 DEF PieceInv
  <1> QED BY <1>4, <1>5

\* Whatever leaves the pieces alone keeps their invariant.
LEMMA KeepPieces ==
    ASSUME PieceInv, UNCHANGED pieceVars
    PROVE  PieceInv' /\ \A q \in Pieces : state[q] = "verified" => state'[q] = "verified"
  <1>1. state' = state /\ data' = data /\ size' = size
    BY DEF pieceVars
  <1>2. \A q \in Pieces : Intact(q)' <=> Intact(q)
    BY <1>1 DEF Intact, NumBlocks, PieceLen
  <1> QED BY <1>1, <1>2 DEF PieceInv, PieceTypes
-----------------------------------------------------------------------------
\* The peers.
LEMMA HavingFinite == ASSUME NEW p \in Pieces PROVE IsFiniteSet(Having(p))
  <1>1. Having(p) \subseteq Addrs
    BY DEF Having
  <1> QED BY <1>1, SizeAssumption, FS_Subset

\* Every operation changes the set of one peer a, to new.
LEMMA CountOne ==
    ASSUME PeerInv, NEW a \in Addrs, NEW new \in SUBSET Pieces, has' = [has EXCEPT ![a] = new],
           NEW p \in Pieces,
           p \in new \ has[a] => count'[p] = count[p] + 1,
           p \in has[a] \ new => count'[p] = NotBelowZero(count[p] - 1) \/ count'[p] = count[p] - 1,
           (p \in new <=> p \in has[a]) => count'[p] = count[p]
    PROVE  count'[p] = Cardinality(Having(p)')
  <1>1. /\ IsFiniteSet(Having(p)) /\ Cardinality(Having(p)) \in Nat
        /\ count[p] = Cardinality(Having(p))
    BY HavingFinite, FS_CardinalityType DEF PeerInv, CountsMatch, Having
  <1>2. has'[a] = new /\ \A o \in Addrs \ {a} : has'[o] = has[o]
    BY DEF PeerInv, PeerTypes
  <1>3. CASE p \in new \ has[a]
    <2>1. Having(p)' = Having(p) \cup {a} /\ a \notin Having(p)
      BY <1>2, <1>3 DEF Having
    <2>2. Cardinality(Having(p) \cup {a}) = Cardinality(Having(p)) + 1
      BY <1>1, <2>1, FS_AddElement
    <2> QED BY <1>1, <1>3, <2>1, <2>2
  <1>4. CASE p \in has[a] \ new
    <2>1. Having(p)' = Having(p) \ {a} /\ a \in Having(p)
      BY <1>2, <1>4 DEF Having
    <2>2. Cardinality(Having(p)') = Cardinality(Having(p)) - 1 /\ Cardinality(Having(p)') \in Nat
      BY <1>1, <2>1, FS_RemoveElement, FS_CardinalityType
    <2>3. NotBelowZero(count[p] - 1) = count[p] - 1
      BY <1>1, <2>2 DEF NotBelowZero
    <2> QED BY <1>1, <1>4, <2>2, <2>3
  <1>5. CASE p \in new <=> p \in has[a]
    <2>1. Having(p)' = Having(p)
      BY <1>2, <1>5 DEF Having
    <2> QED BY <1>1, <1>5, <2>1
  <1> QED BY <1>3, <1>4, <1>5

\* A bitfield recounts what differs from the last one.
LEMMA BitfieldPeers ==
    ASSUME PeerInv, NEW a \in Addrs, NEW bits \in SUBSET Pieces, SetPeerBitfield(a, bits)
    PROVE  PeerInv'
  <1>1. has' = [has EXCEPT ![a] = bits]
    BY DEF SetPeerBitfield
  <1>2. count' = [p \in Pieces |-> CASE p \in bits \ has[a] -> count[p] + 1
                                     [] p \in has[a] \ bits -> count[p] - 1
                                     [] OTHER -> count[p]]
    BY DEF SetPeerBitfield, Recount
  <1>3. PeerTypes'
    BY <1>1, <1>2 DEF PeerInv, PeerTypes
  <1>4. ASSUME NEW p \in Pieces PROVE count'[p] = Cardinality(Having(p)')
    BY <1>1, <1>2, CountOne
  <1> QED BY <1>3, <1>4 DEF PeerInv, CountsMatch, Having

\* A have counts a piece once.
LEMMA HavePeers ==
    ASSUME PeerInv, NEW a \in Addrs, NEW p \in Nat, PeerHave(a, p)
    PROVE  PeerInv'
  <1>1. CASE p \in Pieces \ has[a]
    <2>1. /\ has' = [has EXCEPT ![a] = has[a] \cup {p}]
          /\ count' = [count EXCEPT ![p] = count[p] + 1]
      BY <1>1 DEF PeerHave
    <2>2. has[a] \cup {p} \in SUBSET Pieces
      BY <1>1 DEF PeerInv, PeerTypes
    <2>3. PeerTypes'
      BY <1>1, <2>1, <2>2 DEF PeerInv, PeerTypes
    <2>4. ASSUME NEW q \in Pieces PROVE count'[q] = Cardinality(Having(q)')
      <3> DEFINE new == has[a] \cup {p}
      <3>1. q \in new \ has[a] => count'[q] = count[q] + 1
        BY <1>1, <2>1 DEF PeerInv, PeerTypes
      <3>2. (q \in new <=> q \in has[a]) => count'[q] = count[q]
        BY <1>1, <2>1 DEF PeerInv, PeerTypes
      <3>3. ~(q \in has[a] \ new)
        OBVIOUS
      <3>4. new \in SUBSET Pieces /\ has' = [has EXCEPT ![a] = new]
        BY <2>1, <2>2
      <3> HIDE DEF new
      <3> QED BY <3>1, <3>2, <3>3, <3>4, CountOne
    <2> QED BY <2>3, <2>4 DEF PeerInv, CountsMatch, Having
  <1>2. CASE p \notin Pieces \ has[a]
    BY <1>2 DEF PeerHave, PeerInv, PeerTypes, CountsMatch
  <1> QED BY <1>1, <1>2

\* A removal takes back what was counted; the clamp at zero never acts.
LEMMA RemovePeers ==
    ASSUME PeerInv, NEW a \in Addrs, RemovePeer(a)
    PROVE  PeerInv'
  <1>1. has' = [has EXCEPT ![a] = {}]
    BY DEF RemovePeer
  <1>2. count' = [p \in Pieces |-> IF p \in has[a] THEN NotBelowZero(count[p] - 1) ELSE count[p]]
    BY DEF RemovePeer
  <1>3. PeerTypes'
    BY <1>1, <1>2 DEF PeerInv, PeerTypes, NotBelowZero
  <1>4. ASSUME NEW p \in Pieces PROVE count'[p] = Cardinality(Having(p)')
    <2>1. /\ p \in has[a] \ {} => count'[p] = NotBelowZero(count[p] - 1)
          /\ p \notin {} \ has[a]
          /\ (p \in {} <=> p \in has[a]) => count'[p] = count[p]
      BY <1>2
    <2>2. {} \in SUBSET Pieces
      OBVIOUS
    <2> QED BY <1>1, <2>1, <2>2, CountOne
  <1> QED BY <1>3, <1>4 DEF PeerInv, CountsMatch, Having

\* Whatever leaves the availability alone keeps its invariant.
LEMMA KeepPeers ==
    ASSUME PeerInv, UNCHANGED <<has, count>>
    PROVE  PeerInv'
  BY DEF PeerInv, PeerTypes, CountsMatch
-----------------------------------------------------------------------------
\* One step of the piece manager, whoever takes it.
PMInv == PieceInv /\ PeerInv

\* A new piece manager satisfies the invariant.
LEMMA PMInitInv == PMInit => PMInv
  <1> SUFFICES ASSUME PMInit PROVE PMInv
    OBVIOUS
  <1>1. PieceInv
    BY DEF PMInit, PieceInv, PieceTypes, PieceState
  <1>2. ASSUME NEW p \in Pieces PROVE count[p] = Cardinality({a \in Addrs : p \in has[a]})
    <2>1. {a \in Addrs : p \in has[a]} = {}
      BY DEF PMInit
    <2> QED BY <2>1, FS_EmptySet DEF PMInit
  <1>3. PeerTypes
    BY DEF PMInit, PeerTypes
  <1> QED BY <1>1, <1>2, <1>3 DEF PMInv, PeerInv, CountsMatch

\* Every operation of the piece manager keeps it, and no verified piece is given up.
LEMMA PMStepInv ==
    ASSUME PMInv, [PMNext]_pmVars
    PROVE  PMInv' /\ \A q \in Pieces : state[q] = "verified" => state'[q] = "verified"
  <1> USE DEF PMInv
  <1>1. ASSUME NEW f \in FileIds, NEW skip \in BOOLEAN, SetFilePriority(f, skip)
        PROVE  UNCHANGED pieceVars /\ UNCHANGED <<has, count>>
    BY <1>1 DEF SetFilePriority, peerVars
  <1>2. ASSUME NEW a \in Addrs, NEW bits \in SUBSET Pieces, SetPeerBitfield(a, bits)
        PROVE  UNCHANGED pieceVars /\ PeerInv'
    BY <1>2, BitfieldPeers DEF SetPeerBitfield
  <1>3. ASSUME NEW a \in Addrs, NEW p \in Pieces \cup {NumPieces}, PeerHave(a, p)
        PROVE  UNCHANGED pieceVars /\ PeerInv'
    <2>1. p \in Nat
      BY SizeAssumption, CeilDivBounds DEF Pieces, NumPieces
    <2> QED BY <1>3, <2>1, HavePeers DEF PeerHave
  <1>4. ASSUME NEW a \in Addrs, RemovePeer(a)
        PROVE  UNCHANGED pieceVars /\ PeerInv'
    BY <1>4, RemovePeers DEF RemovePeer
  <1>5. ASSUME NEW p \in Pieces, NEW b \in Blocks(p), NEW right \in BOOLEAN, StoreBlock(p, b, right)
        PROVE  UNCHANGED <<has, count>>
    BY <1>5 DEF StoreBlock, peerVars
  <1>6. ASSUME NEW p \in Pieces, StoreBlockRejected(p) \/ VerifyPiece(p)
        PROVE  UNCHANGED <<has, count>>
    BY <1>6 DEF StoreBlockRejected, VerifyPiece, peerVars
  <1>7. CASE UNCHANGED pmVars
    BY <1>7, KeepPieces, KeepPeers DEF pmVars, peerVars
  <1>8. CASE PMNext
    <2>1. CASE \E f \in FileIds, skip \in BOOLEAN : SetFilePriority(f, skip)
      BY <1>1, <2>1, KeepPieces, KeepPeers
    <2>2. CASE \E a \in Addrs : \/ \E bits \in SUBSET Pieces : SetPeerBitfield(a, bits)
                                \/ \E p \in Pieces \cup {NumPieces} : PeerHave(a, p)
                                \/ RemovePeer(a)
      BY <1>2, <1>3, <1>4, <2>2, KeepPieces
    <2>3. CASE \E p \in Pieces : \E b \in Blocks(p), right \in BOOLEAN : StoreBlock(p, b, right)
      BY <1>5, <2>3, StorePieces, KeepPeers
    <2>4. CASE \E p \in Pieces : StoreBlockRejected(p) \/ VerifyPiece(p)
      BY <1>6, <2>4, RejectPieces, VerifyPieces, KeepPeers
    <2> QED BY <1>8, <2>1, <2>2, <2>3, <2>4 DEF PMNext
  <1> QED BY <1>7, <1>8
-----------------------------------------------------------------------------
\* The sessions: every step is one of the piece manager's, or leaves it alone.
LEMMA SessionIsPMStep ==
    ASSUME SessTypes, NEW c \in Conns, SessionStep(c)
    PROVE  [PMNext]_pmVars
  <1>1. AddrOf[c] \in Addrs
    BY ConnsAssumption
  <1>2. CASE AddPeer(c) \/ HangUp(c) \/ RequestPiece(c) \/ CheckBlocks(c)
    BY <1>2 DEF AddPeer, HangUp, RequestPiece, CheckBlocks, OnlySession
  <1>3. CASE WritePiece(c) \/ WriteFails(c) \/ \E p \in Pieces : GetsUnchoke(c, p)
    BY <1>3 DEF WritePiece, WriteFails, GetsUnchoke, OnlySession
  <1>4. CASE SessionEnds(c)
    <2>1. RemovePeer(AddrOf[c]) \/ UNCHANGED pmVars
      BY <1>4 DEF SessionEnds, Forget
    <2> QED BY <1>1, <2>1 DEF PMNext
  <1>5. CASE \E bits \in SUBSET Pieces : GetsBitfield(c, bits)
    BY <1>1, <1>5 DEF GetsBitfield, PMNext
  <1>6. CASE \E p \in Pieces \cup {NumPieces} : GetsHave(c, p)
    BY <1>1, <1>6 DEF GetsHave, PMNext
  <1>7. CASE \E p \in Pieces : \E b \in Blocks(p), right \in BOOLEAN : GetsBlock(c, p, b, right)
    BY <1>7 DEF GetsBlock, PMNext
  <1>8. CASE \E p \in Pieces : GetsBadBlock(c, p)
    BY <1>8 DEF GetsBadBlock, PMNext
  <1>9. CASE Verify(c)
    <2>1. VerifyPiece(sess[c].piece) /\ sess[c].piece \in Pieces
      BY <1>9 DEF Verify, SessTypes, HasPiece
    <2> QED BY <2>1 DEF PMNext
  <1> QED BY <1>2, <1>3, <1>4, <1>5, <1>6, <1>7, <1>8, <1>9 DEF SessionStep

\* Every step of the torrent is an operation of the piece manager, or leaves it alone.
LEMMA StepIsPMStep ==
    ASSUME SessTypes, [Next]_vars
    PROVE  [PMNext]_pmVars
  <1>1. CASE UNCHANGED vars
    BY <1>1 DEF vars
  <1>2. CASE \E f \in FileIds, skip \in BOOLEAN : Prioritize(f, skip)
    BY <1>2 DEF Prioritize, PMNext
  <1>3. CASE \E c \in Conns : SessionStep(c)
    BY <1>3, SessionIsPMStep
  <1>4. CASE \E c \in Conns : Panics(c)
    BY <1>4 DEF Panics
  <1> QED BY <1>1, <1>2, <1>3, <1>4 DEF Next

\* A session moves on, and holds a piece where it needs one.
LEMMA GotoTypes ==
    ASSUME SessTypes, NEW c \in Conns, NEW step \in Steps, NEW p \in Pieces \cup {NoPiece},
           step \in {"ask", "stored", "verify", "write"} => p \in Pieces, Goto(c, step, p)
    PROVE  sess' \in [Conns -> Session] /\ \A d \in Conns : HasPiece(sess'[d])
  <1>1. At(step, p) \in Session /\ HasPiece(At(step, p))
    BY DEF At, Session, HasPiece
  <1>2. sess' = [sess EXCEPT ![c] = At(step, p)] /\ sess \in [Conns -> Session]
    BY DEF Goto, SessTypes
  <1>3. sess' \in [Conns -> Session]
    BY <1>1, <1>2
  <1>4. ASSUME NEW d \in Conns PROVE HasPiece(sess'[d])
    <2>1. sess'[d] = IF d = c THEN At(step, p) ELSE sess[d]
      BY <1>2
    <2> QED BY <1>1, <2>1 DEF SessTypes
  <1> QED BY <1>3, <1>4

\* Steps that open or close no connection and tell nothing about a peer.
LEMMA QuietStep ==
    ASSUME SessInv, UNCHANGED <<peers, open, known>>,
           sess' \in [Conns -> Session], \A d \in Conns : HasPiece(sess'[d])
    PROVE  SessInv'
  <1>1. SessTypes'
    BY DEF SessInv, SessTypes
  <1> QED BY <1>1 DEF SessInv, OpenInv, NoGhostAvailability, Registered, Alone

\* Whatever an open connection tells about its peer, the peer is registered.
LEMMA ToldStep ==
    ASSUME SessInv, NEW c \in open, UNCHANGED sessVars, known' = known \cup {AddrOf[c]}
    PROVE  SessInv'
  <1>1. UNCHANGED <<peers, open, sess>> /\ c \in Conns /\ AddrOf[c] \in Addrs
    BY ConnsAssumption DEF sessVars, SessInv, SessTypes
  <1>2. SessTypes'
    BY <1>1 DEF SessInv, SessTypes
  <1>3. OpenInv' /\ NoGhostAvailability'
    BY <1>1 DEF SessInv, OpenInv, NoGhostAvailability, Registered, Alone
  <1> QED BY <1>2, <1>3 DEF SessInv

\* A connection that is opened without rival is registered.
LEMMA AddPeerStep ==
    ASSUME SessInv, NEW c \in Conns, AddPeer(c)
    PROVE  SessInv'
  <1> DEFINE a == AddrOf[c]
             full == Cardinality(Registered) >= MaxPeers
  <1>1. a \in Addrs /\ known' = known
    BY ConnsAssumption DEF AddPeer, pmVars, peerVars
  <1>2. /\ peers' = IF a \in Registered \/ full THEN peers ELSE [peers EXCEPT ![a] = c]
        /\ open' = IF a \notin Registered /\ full THEN open ELSE open \cup {c}
        /\ Goto(c, "read", NoPiece)
    BY DEF AddPeer
  <1> HIDE DEF full
  <1>3. SessTypes'
    <2>1. sess' \in [Conns -> Session] /\ \A d \in Conns : HasPiece(sess'[d])
      BY <1>2, GotoTypes DEF SessInv, Steps
    <2>2. peers' \in [Addrs -> Conns \cup {NoConn}] /\ open' \in SUBSET Conns
      BY <1>1, <1>2 DEF SessInv, SessTypes
    <2> QED BY <1>1, <2>1, <2>2 DEF SessInv, SessTypes
  <1>4. Registered \subseteq Registered' /\ (c \in open' \ open => a \in Registered')
    BY <1>1, <1>2, ConnsAssumption DEF SessInv, SessTypes, Registered
  <1>5. OpenInv'
    <2>1. ASSUME NEW d \in open', Alone(AddrOf[d]) PROVE AddrOf[d] \in Registered'
      <3>1. CASE d \in open
        BY <1>4, <2>1, <3>1 DEF SessInv, OpenInv
      <3>2. CASE d \notin open
        BY <1>2, <1>4, <3>2
      <3> QED BY <3>1, <3>2
    <2> QED BY <2>1 DEF OpenInv, Alone
  <1>6. NoGhostAvailability'
    BY <1>1, <1>4 DEF SessInv, NoGhostAvailability, Alone
  <1> QED BY <1>3, <1>5, <1>6 DEF SessInv

\* Hanging up opens nothing; the address stays until the session ends.
LEMMA HangUpStep ==
    ASSUME SessInv, NEW c \in Conns, HangUp(c)
    PROVE  SessInv'
  <1>1. UNCHANGED <<peers, sess, known>> /\ open' = open \ {c}
    BY DEF HangUp, pmVars, peerVars
  <1> QED BY <1>1 DEF SessInv, SessTypes, OpenInv, NoGhostAvailability, Registered, Alone

\* A session that ends takes out the address.  If its connection is the only
\* one of the address, no other one is left open.
LEMMA EndStep ==
    ASSUME SessInv, NEW c \in Conns, SessionEnds(c)
    PROVE  SessInv'
  <1> DEFINE a == AddrOf[c]
  <1>1. a \in Addrs /\ Goto(c, "over", NoPiece) /\ c \notin open
    BY ConnsAssumption DEF SessionEnds
  <1>2. sess' \in [Conns -> Session] /\ \A d \in Conns : HasPiece(sess'[d])
    BY <1>1, GotoTypes DEF SessInv, Steps
  <1>3. CASE a \notin Registered
    <2>1. UNCHANGED <<peers, open, known>>
      BY <1>3 DEF SessionEnds, pmVars, peerVars
    <2> QED BY <1>2, <2>1, QuietStep
  <1>4. CASE a \in Registered
    <2>1. /\ peers' = [peers EXCEPT ![a] = NoConn] /\ open' = open \ {peers[a]}
          /\ known' = known \ {a}
      BY <1>4 DEF SessionEnds, Forget, RemovePeer
    <2>2. SessTypes'
      BY <1>1, <1>2, <2>1 DEF SessInv, SessTypes
    <2>3. \A b \in Registered : b # a => b \in Registered'
      BY <1>1, <2>1 DEF SessInv, SessTypes, Registered
    <2>4. OpenInv'
      <3>1. ASSUME NEW d \in open', Alone(AddrOf[d]) PROVE AddrOf[d] \in Registered'
        <4>1. d \in open /\ d # c /\ d \in Conns
          BY <1>1, <2>1 DEF SessInv, SessTypes
        <4>2. AddrOf[d] # a
          BY <3>1, <4>1 DEF Alone
        <4>3. AddrOf[d] \in Registered
          BY <3>1, <4>1 DEF SessInv, OpenInv
        <4> QED BY <2>3, <4>2, <4>3
      <3> QED BY <3>1 DEF OpenInv, Alone
    <2>5. NoGhostAvailability'
      <3>1. ASSUME NEW b \in known', Alone(b) PROVE b \in Registered'
        <4>1. b \in known /\ b # a
          BY <2>1
        <4> QED BY <2>3, <3>1, <4>1 DEF SessInv, NoGhostAvailability
      <3> QED BY <3>1 DEF NoGhostAvailability, Alone
    <2> QED BY <2>2, <2>4, <2>5 DEF SessInv
  <1> QED BY <1>3, <1>4

\* The other steps only move a session.
LEMMA MoveStep ==
    ASSUME SessInv, NEW c \in Conns,
           \/ RequestPiece(c) \/ CheckBlocks(c) \/ Verify(c) \/ WritePiece(c) \/ WriteFails(c)
           \/ \E p \in Pieces : \/ GetsUnchoke(c, p)
                                \/ \E b \in Blocks(p), right \in BOOLEAN : GetsBlock(c, p, b, right)
    PROVE  SessInv'
  <1>1. UNCHANGED <<peers, open, known>>
    <2>1. CASE RequestPiece(c) \/ CheckBlocks(c) \/ WritePiece(c) \/ WriteFails(c)
      BY <2>1 DEF RequestPiece, CheckBlocks, WritePiece, WriteFails, OnlySession, pmVars, peerVars
    <2>2. CASE Verify(c)
      BY <2>2 DEF Verify, VerifyPiece, peerVars
    <2>3. CASE \E p \in Pieces : GetsUnchoke(c, p)
      BY <2>3 DEF GetsUnchoke, OnlySession, pmVars, peerVars
    <2>4. CASE \E p \in Pieces : \E b \in Blocks(p), right \in BOOLEAN : GetsBlock(c, p, b, right)
      BY <2>4 DEF GetsBlock, StoreBlock, peerVars
    <2> QED BY <2>1, <2>2, <2>3, <2>4
  <1>2. \E step \in Steps, p \in Pieces \cup {NoPiece} :
           /\ Goto(c, step, p)
           /\ step \in {"ask", "stored", "verify", "write"} => p \in Pieces
    <2>1. NoPiece \in Pieces \cup {NoPiece} /\ {"read", "ask", "stored", "verify", "write"} \subseteq Steps
      BY DEF Steps
    <2>2. CASE RequestPiece(c) \/ WritePiece(c) \/ WriteFails(c)
      <3>1. Goto(c, "read", NoPiece)
        BY <2>2 DEF RequestPiece, WritePiece, WriteFails
      <3> QED BY <2>1, <3>1
    <2>3. CASE CheckBlocks(c)
      <3>1. sess[c].piece \in Pieces
        BY <2>3 DEF CheckBlocks, SessInv, SessTypes, HasPiece
      <3>2. Goto(c, "verify", sess[c].piece) \/ Goto(c, "read", NoPiece)
        BY <2>3 DEF CheckBlocks
      <3> QED BY <2>1, <3>1, <3>2
    <2>4. CASE Verify(c)
      <3>1. sess[c].piece \in Pieces
        BY <2>4 DEF Verify, SessInv, SessTypes, HasPiece
      <3>2. Goto(c, "write", sess[c].piece) \/ Goto(c, "read", NoPiece)
        BY <2>4 DEF Verify
      <3> QED BY <2>1, <3>1, <3>2
    <2>5. CASE \E p \in Pieces : GetsUnchoke(c, p)
      <3>1. PICK p \in Pieces : Goto(c, "ask", p)
        BY <2>5 DEF GetsUnchoke
      <3> QED BY <2>1, <3>1
    <2>6. CASE \E p \in Pieces : \E b \in Blocks(p), right \in BOOLEAN : GetsBlock(c, p, b, right)
      <3>1. PICK p \in Pieces : Goto(c, "stored", p)
        BY <2>6 DEF GetsBlock
      <3> QED BY <2>1, <3>1
    <2> QED BY <2>2, <2>3, <2>4, <2>5, <2>6
  <1>3. PICK step \in Steps, p \in Pieces \cup {NoPiece} :
           /\ Goto(c, step, p)
           /\ step \in {"ask", "stored", "verify", "write"} => p \in Pieces
    BY <1>2
  <1>4. sess' \in [Conns -> Session] /\ \A d \in Conns : HasPiece(sess'[d])
    BY <1>3, GotoTypes DEF SessInv
  <1> QED BY <1>1, <1>4, QuietStep

\* Every step keeps the invariant of the sessions.
LEMMA SessStepInv ==
    ASSUME SessInv, [Next]_vars
    PROVE  SessInv'
  <1>1. CASE UNCHANGED vars
    <2>1. UNCHANGED <<peers, open, sess, known>>
      BY <1>1 DEF vars, sessVars, pmVars, peerVars
    <2> QED BY <2>1 DEF SessInv, SessTypes, OpenInv, NoGhostAvailability, Registered, Alone
  <1>2. CASE \E f \in FileIds, skip \in BOOLEAN : Prioritize(f, skip)
    <2>1. UNCHANGED <<peers, open, sess, known>>
      BY <1>2 DEF Prioritize, SetFilePriority, sessVars, peerVars
    <2> QED BY <2>1 DEF SessInv, SessTypes, OpenInv, NoGhostAvailability, Registered, Alone
  <1>3. ASSUME NEW c \in Conns, SessionStep(c) PROVE SessInv'
    <2>1. CASE \E bits \in SUBSET Pieces : GetsBitfield(c, bits)
      <3>1. c \in open /\ UNCHANGED sessVars /\ known' = known \cup {AddrOf[c]}
        BY <2>1 DEF GetsBitfield, Reads, SetPeerBitfield
      <3> QED BY <3>1, ToldStep
    <2>2. CASE \E p \in Pieces \cup {NumPieces} : GetsHave(c, p)
      <3>1. c \in open /\ UNCHANGED sessVars /\ known' = known \cup {AddrOf[c]}
        BY <2>2 DEF GetsHave, Reads, PeerHave
      <3> QED BY <3>1, ToldStep
    <2>3. CASE \E p \in Pieces : GetsBadBlock(c, p)
      <3>1. UNCHANGED <<peers, open, sess, known>>
        BY <2>3 DEF GetsBadBlock, StoreBlockRejected, sessVars, peerVars
      <3> QED BY <3>1 DEF SessInv, SessTypes, OpenInv, NoGhostAvailability, Registered, Alone
    <2>4. CASE AddPeer(c)
      BY <2>4, AddPeerStep
    <2>5. CASE HangUp(c)
      BY <2>5, HangUpStep
    <2>6. CASE SessionEnds(c)
      BY <2>6, EndStep
    <2> QED BY <1>3, <2>1, <2>2, <2>3, <2>4, <2>5, <2>6, MoveStep DEF SessionStep
  <1>4. ASSUME NEW c \in Conns, Panics(c) PROVE SessInv'
    <2>1. UNCHANGED <<peers, open, sess, known>>
      BY <1>4 DEF Panics, pmVars, peerVars
    <2> QED BY <2>1 DEF SessInv, SessTypes, OpenInv, NoGhostAvailability, Registered, Alone
  <1> QED BY <1>1, <1>2, <1>3, <1>4 DEF Next

\* At the start nobody is connected or known.
LEMMA InitSess == Init => SessInv
  <1> SUFFICES ASSUME Init PROVE SessInv
    OBVIOUS
  <1>1. \A c \in Conns : sess[c] = At("off", NoPiece)
    BY DEF Init
  <1>2. At("off", NoPiece) \in Session /\ HasPiece(At("off", NoPiece))
    BY DEF At, Session, HasPiece, Steps
  <1>3. SessTypes
    BY <1>1, <1>2 DEF Init, PMInit, SessTypes
  <1> QED BY <1>3 DEF Init, PMInit, SessInv, OpenInv, NoGhostAvailability
-----------------------------------------------------------------------------
\* Both invariants hold in every state.
LEMMA SpecInv == Spec => [](PMInv /\ SessInv)
  <1>1. Init => PMInv /\ SessInv
    BY PMInitInv, InitSess DEF Init
  <1>2. PMInv /\ SessInv /\ [Next]_vars => (PMInv /\ SessInv)'
    BY StepIsPMStep, PMStepInv, SessStepInv DEF SessInv
  <1> QED BY <1>1, <1>2, PTL DEF Spec

\* The session layer uses the piece manager as its specification allows:
\* everything proved of PMSpec holds of the sessions.
THEOREM SessionsUsePieceManager == Spec => PMSpec
  <1>1. Init => PMInit
    BY DEF Init
  <1>2. SessInv /\ [Next]_vars => [PMNext]_pmVars
    BY StepIsPMStep DEF SessInv
  <1>3. Spec => []SessInv
    BY SpecInv, PTL
  <1> QED BY <1>1, <1>2, <1>3, PTL DEF Spec, PMSpec

\* RarestPiece orders pieces by true counts: pieceCounts is the number of peers
\* that have a piece, for any sequence of bitfields, haves and removals.
THEOREM CountsAreRight == Spec => []CountsMatch
  <1>1. PMInv => CountsMatch
    BY DEF PMInv, PeerInv
  <1> QED BY <1>1, SpecInv, PTL

\* ReadPieceData and WritePiece read complete and right data from a verified
\* piece, whatever is appended to it while other sessions check it.
THEOREM VerifiedDataIsIntact == Spec => []VerifiedIntact
  <1>1. PMInv => VerifiedIntact
    BY DEF PMInv, PieceInv, VerifiedIntact, Intact
  <1> QED BY <1>1, SpecInv, PTL

\* VerifyPiece and StoreBlock never take back a verified piece.
THEOREM VerifiedIsFinal == Spec => VerifiedStays
  <1>1. PMInv /\ SessInv /\ [Next]_vars =>
           [\A p \in Pieces : state[p] = "verified" => state'[p] = "verified"]_pmVars
    BY StepIsPMStep, PMStepInv DEF SessInv
  <1> QED BY <1>1, SpecInv, PTL DEF Spec, VerifiedStays

\* The availability of a peer with one connection is forgotten with it.
THEOREM AvailabilityIsForgotten == Spec => []NoGhostAvailability
  <1>1. SessInv => NoGhostAvailability
    BY DEF SessInv
  <1> QED BY <1>1, SpecInv, PTL
-----------------------------------------------------------------------------
(* The bytes written to the files.                                         *)

\* No file is counted beyond its length: WritePiece takes what the file still lacks, so a
\* count that was too large would make the next one negative.
WithinLength ==
    written \in [FileIds -> Nat] /\ \A f \in FileIds : written[f] <= FileLengths[f]

\* One file of WriteLen's walk over the files
WalkStep(s, f) ==
    IF s.left = 0 THEN [s EXCEPT !.len = 0]
    ELSE IF s.offset >= FileLengths[f] THEN [s EXCEPT !.offset = @ - FileLengths[f], !.len = 0]
    ELSE [offset |-> 0, left |-> s.left - Lesser(s.left, FileLengths[f] - written[f]),
          len |-> Lesser(s.left, FileLengths[f] - written[f])]
\* The recursion of WriteLen over the first k files
WalkUpTo(g, p, k) ==
    g = [f \in 0..k |-> IF f = 0 THEN [offset |-> p * PieceLength, left |-> size[p], len |-> 0]
                        ELSE WalkStep(g[f - 1], f)]

\* The recursion of WriteLen has a solution for any number of files.
LEMMA WalkExists == ASSUME NEW p PROVE \A k \in Nat : \E g : WalkUpTo(g, p, k)
<1> DEFINE T == {k \in Nat : ~ \E g : WalkUpTo(g, p, k)}
<1> SUFFICES ASSUME T # {} PROVE FALSE
    OBVIOUS
<1>1. PICK m \in T : \A k \in T : m <= k
  BY LeastNat
<1> DEFINE start == [offset |-> p * PieceLength, left |-> size[p], len |-> 0]
<1>2. CASE m = 0
  <2> DEFINE g == [f \in 0..0 |-> start]
  <2>1. WalkUpTo(g, p, 0)
    <3> DEFINE h == [f \in 0..0 |-> IF f = 0 THEN start ELSE WalkStep(g[f - 1], f)]
    <3>1. \A f \in 0..0 : f = 0
      OBVIOUS
    <3>2. g = h
      BY <3>1
    <3>3. QED
      BY <3>2 DEF WalkUpTo
  <2>2. QED
    BY <1>2, <2>1
<1>3. CASE m # 0
  <2>1. m - 1 \in Nat /\ m - 1 \notin T
    BY <1>1, <1>3
  <2>2. PICK g : WalkUpTo(g, p, m - 1)
    BY <2>1
  <2> DEFINE v == WalkStep(g[m - 1], m)
             h == [f \in 0..m |-> IF f = m THEN v ELSE g[f]]
  <2>3. WalkUpTo(h, p, m)
    <3>1. \A f \in 0..m : h[f] = IF f = 0 THEN start ELSE WalkStep(h[f - 1], f)
      <4> SUFFICES ASSUME NEW f \in 0..m
                   PROVE  h[f] = IF f = 0 THEN start ELSE WalkStep(h[f - 1], f)
        OBVIOUS
      <4> HIDE DEF start
      <4>1. CASE f = m
        <5>1. h[f] = v /\ h[f - 1] = g[m - 1]
          BY <4>1, <1>3
        <5>2. QED
          BY <5>1, <4>1, <1>3
      <4>2. CASE f # m
        <5>1. f \in 0..(m - 1) /\ h[f] = g[f]
          BY <4>2
        <5>2. g[f] = IF f = 0 THEN start ELSE WalkStep(g[f - 1], f)
          BY <5>1, <2>2 DEF WalkUpTo, start
        <5>3. f # 0 => h[f - 1] = g[f - 1]
          BY <5>1
        <5>4. QED
          BY <5>1, <5>2, <5>3
      <4>3. QED
        BY <4>1, <4>2
    <3> HIDE DEF v
    <3>2. h = [f \in 0..m |-> h[f]]
      OBVIOUS
    <3> HIDE DEF h
    <3>3. QED
      BY <3>1, <3>2 DEF WalkUpTo
  <2>4. QED
    BY <2>3
<1>4. QED
  BY <1>2, <1>3

\* One file takes a number of bytes, and no more than it lacks.
LEMMA WalkStepFacts ==
    ASSUME NEW f \in FileIds, WithinLength, NEW s \in [offset : Nat, left : Nat, len : Nat]
    PROVE  /\ WalkStep(s, f) \in [offset : Nat, left : Nat, len : Nat]
           /\ written[f] + WalkStep(s, f).len <= FileLengths[f]
<1>1. FileLengths[f] \in Nat /\ written[f] \in Nat /\ written[f] <= FileLengths[f]
  BY SizeAssumption DEF WithinLength, FileIds
<1>2. s.offset \in Nat /\ s.left \in Nat /\ s.len \in Nat
  OBVIOUS
<1>3. CASE s.left = 0
  <2>1. WalkStep(s, f) = [s EXCEPT !.len = 0]
    BY <1>3 DEF WalkStep
  <2>2. WalkStep(s, f) = [offset |-> s.offset, left |-> s.left, len |-> 0]
    BY <2>1
  <2>3. QED
    BY <1>1, <1>2, <2>2
<1>4. CASE s.left # 0 /\ s.offset >= FileLengths[f]
  <2>1. WalkStep(s, f) = [s EXCEPT !.offset = @ - FileLengths[f], !.len = 0]
    BY <1>4 DEF WalkStep
  <2>2. WalkStep(s, f) = [offset |-> s.offset - FileLengths[f], left |-> s.left, len |-> 0]
    BY <2>1
  <2>3. s.offset - FileLengths[f] \in Nat
    BY <1>1, <1>2, <1>4
  <2>4. QED
    BY <1>1, <1>2, <2>2, <2>3
<1>5. CASE s.left # 0 /\ ~(s.offset >= FileLengths[f])
  <2> DEFINE len == Lesser(s.left, FileLengths[f] - written[f])
  <2>1. len \in Nat /\ len <= s.left /\ written[f] + len <= FileLengths[f]
    BY <1>1, <1>2 DEF Lesser
  <2>2. WalkStep(s, f) = [offset |-> 0, left |-> s.left - len, len |-> len]
    BY <1>5 DEF WalkStep
  <2> HIDE DEF len
  <2>3. QED
    BY <1>2, <2>1, <2>2
<1>6. QED
  BY <1>3, <1>4, <1>5

\* What WritePiece hands to a file is a number of bytes, and no more than the file lacks, for
\* any number and lengths of files.
LEMMA WriteLenFacts ==
    ASSUME NEW p \in Pieces, size[p] \in Nat, WithinLength, NEW f \in FileIds
    PROVE  WriteLen(p)[f] \in Nat /\ written[f] + WriteLen(p)[f] <= FileLengths[f]
<1> DEFINE N == Len(FileLengths)
           g == CHOOSE h : WalkUpTo(h, p, N)
           Walk == [offset : Nat, left : Nat, len : Nat]
<1>1. N \in Nat /\ FileIds = 1..N
  BY SizeAssumption DEF FileIds
<1>2. WalkUpTo(g, p, N)
  BY <1>1, WalkExists
<1>3. WriteLen(p)[f] = g[f].len
  BY DEF WriteLen, WalkUpTo, WalkStep
<1> HIDE DEF g, N
<1>4. g[0] \in Walk
  <2>1. g[0] = [offset |-> p * PieceLength, left |-> size[p], len |-> 0]
    BY <1>1, <1>2 DEF WalkUpTo
  <2>2. p \in Nat /\ PieceLength \in Nat
    BY SizeAssumption DEF Pieces
  <2>3. p * PieceLength \in Nat
    BY <2>2
  <2>4. QED
    BY <2>1, <2>3
<1>5. \A k \in 1..N : g[k] = WalkStep(g[k - 1], k)
  BY <1>1, <1>2 DEF WalkUpTo
<1> DEFINE T == {k \in 0..N : g[k] \notin Walk}
<1>6. T = {}
  <2> SUFFICES ASSUME T # {} PROVE FALSE
    OBVIOUS
  <2>1. T \in SUBSET Nat
    BY <1>1
  <2>2. PICK m \in T : \A k \in T : m <= k
    <3> HIDE DEF T
    <3>1. QED
      BY <2>1, LeastNat
  <2>3. m # 0
    BY <1>4, <2>2
  <2>4. m \in 1..N /\ m - 1 \in 0..N /\ m - 1 \notin T
    BY <1>1, <2>2, <2>3
  <2>5. g[m - 1] \in Walk /\ m \in FileIds
    BY <1>1, <2>4
  <2> HIDE DEF Walk
  <2>6. g[m] \in Walk
    BY <1>5, <2>4, <2>5, WalkStepFacts DEF Walk
  <2>7. QED
    BY <2>2, <2>6
<1>7. f \in 1..N /\ f - 1 \in 0..N
  BY <1>1
<1>8. g[f - 1] \in Walk
  BY <1>6, <1>7
<1>9. g[f] \in Walk /\ written[f] + g[f].len <= FileLengths[f]
  <2> HIDE DEF Walk
  <2>1. QED
    BY <1>5, <1>7, <1>8, WalkStepFacts DEF Walk
<1>10. QED
  BY <1>3, <1>9

\* What the piece manager counts and flags keeps its types.
PieceRest == got \in [Pieces -> Nat] /\ done \in [Pieces -> SUBSET Nat] /\ skipped \in SUBSET FileIds
\* Every operation of the piece manager keeps these types.
LEMMA PieceRestKept ==
    ASSUME PieceRest, [PMNext]_pmVars
    PROVE  PieceRest'
<1>1. CASE UNCHANGED pmVars
  BY <1>1 DEF pmVars, pieceVars, PieceRest
<1>2. ASSUME NEW f \in FileIds, NEW skip \in BOOLEAN, SetFilePriority(f, skip) PROVE PieceRest'
  <2>1. skipped' \in SUBSET FileIds
    BY <1>2 DEF SetFilePriority, PieceRest
  <2>2. got' = got /\ done' = done
    BY <1>2 DEF SetFilePriority, pieceVars
  <2>3. QED
    BY <2>1, <2>2 DEF PieceRest
<1>3. ASSUME NEW a \in Addrs,
             \/ \E bits \in SUBSET Pieces : SetPeerBitfield(a, bits)
             \/ \E p \in Pieces \cup {NumPieces} : PeerHave(a, p)
             \/ RemovePeer(a)
      PROVE  PieceRest'
  <2>1. got' = got /\ done' = done /\ skipped' = skipped
    BY <1>3 DEF SetPeerBitfield, PeerHave, RemovePeer, pieceVars
  <2>2. QED
    BY <2>1 DEF PieceRest
<1>4. ASSUME NEW p \in Pieces, NEW b \in Blocks(p), NEW right \in BOOLEAN, StoreBlock(p, b, right)
      PROVE  PieceRest'
  <2>1. b \in Nat
    BY BlockFacts
  <2>2. /\ done' = [done EXCEPT ![p] = done[p] \cup {b}] /\ got' = [got EXCEPT ![p] = got[p] + 1]
        /\ skipped' = skipped
    BY <1>4 DEF StoreBlock
  <2>3. done[p] \cup {b} \in SUBSET Nat /\ got[p] + 1 \in Nat
    BY <2>1 DEF PieceRest
  <2>4. QED
    BY <2>2, <2>3 DEF PieceRest
<1>5. ASSUME NEW p \in Pieces, StoreBlockRejected(p) PROVE PieceRest'
  BY <1>5 DEF StoreBlockRejected, PieceRest
<1>6. ASSUME NEW p \in Pieces, VerifyPiece(p) PROVE PieceRest'
  <2>1. \/ done' = [done EXCEPT ![p] = {}] /\ got' = [got EXCEPT ![p] = 0]
        \/ done' = done /\ got' = got
    BY <1>6 DEF VerifyPiece
  <2>2. skipped' = skipped /\ {} \in SUBSET Nat /\ 0 \in Nat
    BY <1>6 DEF VerifyPiece
  <2>3. QED
    BY <2>1, <2>2 DEF PieceRest
<1>7. QED
  BY <1>1, <1>2, <1>3, <1>4, <1>5, <1>6 DEF PMNext

\* A step leaves the process up, or ends it.
LEMMA UpKept ==
    ASSUME up \in BOOLEAN, [Next]_vars
    PROVE  up' \in BOOLEAN
<1>1. CASE UNCHANGED vars
  BY <1>1 DEF vars, sessVars
<1>2. CASE \E f \in FileIds, skip \in BOOLEAN : Prioritize(f, skip)
  BY <1>2 DEF Prioritize, sessVars
<1>3. CASE \E c \in Conns : Panics(c)
  BY <1>3 DEF Panics
<1>4. ASSUME NEW c \in Conns, SessionStep(c) PROVE up' = up
  <2>1. CASE AddPeer(c) \/ HangUp(c) \/ SessionEnds(c) \/ RequestPiece(c) \/ CheckBlocks(c) \/ Verify(c)
             \/ WritePiece(c) \/ WriteFails(c)
    BY <2>1 DEF AddPeer, HangUp, SessionEnds, RequestPiece, CheckBlocks, OnlySession, Verify, WritePiece,
                WriteFails
  <2>2. CASE \/ \E bits \in SUBSET Pieces : GetsBitfield(c, bits)
             \/ \E p \in Pieces \cup {NumPieces} : GetsHave(c, p)
    BY <2>2 DEF GetsBitfield, GetsHave, sessVars
  <2>3. CASE \E p \in Pieces : GetsUnchoke(c, p) \/ GetsBadBlock(c, p)
    BY <2>3 DEF GetsUnchoke, GetsBadBlock, OnlySession, sessVars
  <2>4. CASE \E p \in Pieces : \E b \in Blocks(p), right \in BOOLEAN : GetsBlock(c, p, b, right)
    BY <2>4 DEF GetsBlock
  <2>5. QED
    BY <1>4, <2>1, <2>2, <2>3, <2>4 DEF SessionStep
<1>5. QED
  BY <1>1, <1>2, <1>3, <1>4 DEF Next

\* A piece is written once or in part, and no file gets more than it lacks.
LEMMA WrittenKept ==
    ASSUME SessTypes, PieceTypes, WithinLength, [Next]_vars
    PROVE  WithinLength'
<1>1. ASSUME NEW p \in Pieces,
             \A f \in FileIds : written'[f] = written[f] \/ written'[f] = written[f] + WriteLen(p)[f],
             \E g : written' = [f \in FileIds |-> g[f]]
      PROVE  WithinLength'
  <2>1. size[p] \in Nat
    BY DEF PieceTypes
  <2>2. ASSUME NEW f \in FileIds PROVE written'[f] \in Nat /\ written'[f] <= FileLengths[f]
    <3>1. /\ WriteLen(p)[f] \in Nat /\ written[f] + WriteLen(p)[f] <= FileLengths[f]
          /\ written[f] \in Nat /\ written[f] <= FileLengths[f]
      BY <2>1, WriteLenFacts DEF WithinLength
    <3>2. written'[f] = written[f] \/ written'[f] = written[f] + WriteLen(p)[f]
      BY <1>1
    <3>3. QED
      BY <3>1, <3>2
  <2>3. written' \in [FileIds -> Nat]
    <3>1. PICK g : written' = [f \in FileIds |-> g[f]]
      BY <1>1
    <3>2. QED
      BY <2>2, <3>1
  <2>4. QED
    BY <2>2, <2>3 DEF WithinLength
<1>2. CASE written' = written
  BY <1>2 DEF WithinLength
<1>3. ASSUME NEW c \in Conns, WritePiece(c) PROVE WithinLength'
  <2> DEFINE p == sess[c].piece
             g == [f \in FileIds |-> written[f] + WriteLen(p)[f]]
  <2>1. p \in Pieces
    BY <1>3 DEF WritePiece, SessTypes, HasPiece
  <2>2. written' = g
    BY <1>3 DEF WritePiece
  <2>3. \A f \in FileIds : written'[f] = written[f] + WriteLen(p)[f]
    BY <2>2
  <2>4. \E h : written' = [f \in FileIds |-> h[f]]
    <3>1. g = [f \in FileIds |-> g[f]]
      OBVIOUS
    <3>2. QED
      BY <2>2, <3>1
  <2>5. QED
    BY <1>1, <2>1, <2>3, <2>4
<1>4. ASSUME NEW c \in Conns, WriteFails(c) PROVE WithinLength'
  <2> DEFINE p == sess[c].piece
             g(n) == [f \in FileIds |-> IF f <= n THEN written[f] + WriteLen(p)[f] ELSE written[f]]
  <2>1. p \in Pieces
    BY <1>4 DEF WriteFails, SessTypes, HasPiece
  <2>2. PICK last \in 0..(Len(FileLengths) - 1) : written' = g(last)
    BY <1>4 DEF WriteFails
  <2>3. \A f \in FileIds : written'[f] = written[f] \/ written'[f] = written[f] + WriteLen(p)[f]
    BY <2>2
  <2>4. \E h : written' = [f \in FileIds |-> h[f]]
    <3>1. g(last) = [f \in FileIds |-> g(last)[f]]
      OBVIOUS
    <3>2. QED
      BY <2>2, <3>1
  <2>5. QED
    BY <1>1, <2>1, <2>3, <2>4
<1>5. CASE UNCHANGED vars
  BY <1>2, <1>5 DEF vars, sessVars
<1>6. CASE \E f \in FileIds, skip \in BOOLEAN : Prioritize(f, skip)
  BY <1>2, <1>6 DEF Prioritize, sessVars
<1>7. ASSUME NEW c \in Conns, SessionStep(c), ~WritePiece(c), ~WriteFails(c) PROVE written' = written
  <2>1. CASE AddPeer(c) \/ HangUp(c) \/ SessionEnds(c) \/ RequestPiece(c) \/ CheckBlocks(c) \/ Verify(c)
    BY <2>1 DEF AddPeer, HangUp, SessionEnds, RequestPiece, CheckBlocks, OnlySession, Verify
  <2>2. CASE \/ \E bits \in SUBSET Pieces : GetsBitfield(c, bits)
             \/ \E p \in Pieces \cup {NumPieces} : GetsHave(c, p)
    BY <2>2 DEF GetsBitfield, GetsHave, sessVars
  <2>3. CASE \E p \in Pieces : GetsUnchoke(c, p) \/ GetsBadBlock(c, p)
    BY <2>3 DEF GetsUnchoke, GetsBadBlock, OnlySession, sessVars
  <2>4. CASE \E p \in Pieces : \E b \in Blocks(p), right \in BOOLEAN : GetsBlock(c, p, b, right)
    BY <2>4 DEF GetsBlock
  <2>5. QED
    BY <1>7, <2>1, <2>2, <2>3, <2>4 DEF SessionStep
<1>8. CASE \E c \in Conns : Panics(c)
  BY <1>2, <1>8 DEF Panics
<1>9. QED
  BY <1>2, <1>3, <1>4, <1>5, <1>6, <1>7, <1>8 DEF Next

\* The inductive invariant of a torrent.
TorrentInv == PMInv /\ SessInv /\ PieceRest /\ up \in BOOLEAN /\ WithinLength

\* It holds at the start.
LEMMA TorrentInvInit == Init => TorrentInv
<1> SUFFICES ASSUME Init PROVE TorrentInv
  OBVIOUS
<1>1. PMInv /\ SessInv
  BY PMInitInv, InitSess DEF Init
<1>2. PieceRest
  BY DEF Init, PMInit, PieceRest
<1>3. up \in BOOLEAN
  BY DEF Init
<1>4. WithinLength
  <2>1. \A f \in FileIds : FileLengths[f] \in Nat
    BY SizeAssumption DEF FileIds
  <2>2. written = [f \in FileIds |-> 0]
    BY DEF Init
  <2>3. QED
    BY <2>1, <2>2 DEF WithinLength
<1>5. QED
  BY <1>1, <1>2, <1>3, <1>4 DEF TorrentInv

\* Every step keeps it.
LEMMA TorrentStep == TorrentInv /\ [Next]_vars => TorrentInv'
<1> SUFFICES ASSUME TorrentInv, [Next]_vars PROVE TorrentInv'
  OBVIOUS
<1>1. SessTypes /\ PieceTypes
  BY DEF TorrentInv, SessInv, PMInv, PieceInv
<1>2. [PMNext]_pmVars
  BY <1>1, StepIsPMStep
<1>3. PMInv' /\ SessInv' /\ PieceRest'
  BY <1>2, PMStepInv, SessStepInv, PieceRestKept DEF TorrentInv
<1>4. up' \in BOOLEAN /\ WithinLength'
  BY <1>1, UpKept, WrittenKept DEF TorrentInv
<1>5. QED
  BY <1>3, <1>4 DEF TorrentInv

\* It gives the types; a count is a number because it is that of a finite set.
LEMMA TorrentTypes == TorrentInv => TypeOK
<1> SUFFICES ASSUME TorrentInv PROVE TypeOK
  OBVIOUS
<1>1. /\ state \in [Pieces -> PieceState] /\ data \in [Pieces -> Seq(StoredBlock)]
      /\ size \in [Pieces -> Nat]
  BY DEF TorrentInv, PMInv, PieceInv, PieceTypes
<1>2. count \in [Pieces -> Nat] /\ has \in [Addrs -> SUBSET Pieces]
  <2>1. count \in [Pieces -> Int] /\ has \in [Addrs -> SUBSET Pieces]
    BY DEF TorrentInv, PMInv, PeerInv, PeerTypes
  <2>2. ASSUME NEW p \in Pieces PROVE count[p] \in Nat
    <3>1. count[p] = Cardinality(Having(p))
      BY DEF TorrentInv, PMInv, PeerInv, CountsMatch, Having
    <3>2. QED
      BY <3>1, HavingFinite, FS_CardinalityType
  <2>3. QED
    BY <2>1, <2>2
<1>3. got \in [Pieces -> Nat] /\ done \in [Pieces -> SUBSET Nat] /\ skipped \in SUBSET FileIds
  BY DEF TorrentInv, PieceRest
<1>4. /\ known \in SUBSET Addrs /\ peers \in [Addrs -> Conns \cup {NoConn}] /\ open \in SUBSET Conns
      /\ sess \in [Conns -> Session]
  BY DEF TorrentInv, SessInv, SessTypes
<1>5. up \in BOOLEAN /\ written \in [FileIds -> Nat]
  BY DEF TorrentInv, WithinLength
<1>6. QED
  BY <1>1, <1>2, <1>3, <1>4, <1>5 DEF TypeOK, PMTypeOK

\* For any number of peers, pieces and files: the piece manager and the sessions are well
\* typed; no count, of peers, blocks or bytes of a file, is ever negative, although all are
\* counted down or filled up by what is left (piece_manager.go, torrent.go).
THEOREM TorrentTyped == Spec => []TypeOK
<1>1. QED
  BY TorrentInvInit, TorrentStep, TorrentTypes, PTL DEF Spec

-----------------------------------------------------------------------------
-----------------------------------------------------------------------------
(* Logins and configurations (TrackerSessions).                            *)

\* What a configuration, a tracker and an asker are.
Conf == [account : Owners, enabled : BOOLEAN, user : Owners, key : Owners, passkey : Owners,
         cookie : Owners, expiry : {"none", "far", "soon", "past"}]
Tracker == [kind : TrackerKinds, authed : BOOLEAN, conf : Conf]
Ops == {"auth", "refresh", "test", "authAll", "testAll"}
AskerSteps == {"idle", "auth", "refresh", "test", "login", "fetch", "passkey", "mark", "keep"}
AskerType == [op : {"none"} \cup Ops, step : AskerSteps, obj : Numbers, rest : SUBSET (1..MaxTrackers),
              as : Owners, stale : BOOLEAN]

\* The types of TrackerSessions; a tracker in use is one of the MaxTrackers places.
SessionsTypes ==
    /\ tracker \in [TrackerIds -> Numbers]
    /\ object \in [1..MaxTrackers -> Tracker]
    /\ asker \in [Askers -> AskerType]
    /\ overtaken \subseteq Numbers /\ session \in [1..MaxTrackers -> Owners]

\* An asker that is not idle asks a tracker.
AskersAsk == \A p \in Askers : asker[p].step # "idle" => asker[p].op # "none" /\ asker[p].obj # 0

\* The credentials of a tracker's account, and those a configuration may hold.
Mine(n) == {Nobody, object[n].conf.account}
ConfIsOwn(c) == {c.user, c.key, c.passkey, c.cookie} \subseteq {Nobody, c.account}

\* A tracker no login overtook holds the credentials of its own account, and believes itself
\* logged in as nobody else.
ObjectsOwn ==
    \A n \in (1..MaxTrackers) \ overtaken :
        ConfIsOwn(object[n].conf) /\ (object[n].authed => session[n] \in Mine(n))

\* The steps at which an asker has a credential in its hands
Holding == {"login", "fetch", "passkey", "mark", "keep"}
\* What an asker is about to write is of the tracker's account, unless the configuration
\* was replaced since the asker read it (stale).
HeldIsOwn ==
    \A p \in Askers : asker[p].step \in Holding /\ ~asker[p].stale /\ asker[p].obj \notin overtaken
        => asker[p].as \in Mine(asker[p].obj)

\* The inductive invariant of the sessions.
SessionsInv == SessionsTypes /\ AskersAsk /\ ObjectsOwn /\ HeldIsOwn

\* A configuration as NewBaseTracker copies it holds only its own account's credentials, and
\* a tracker made of it is not logged in.
LEMMA CopiedFacts ==
    ASSUME NEW c \in Configs
    PROVE  /\ Copied(c) \in Conf /\ ConfIsOwn(Copied(c))
           /\ Create(c) \in Tracker /\ Create(c).conf = Copied(c) /\ ~Create(c).authed
<1>1. c.account \in Owners /\ Nobody \in Owners
  BY DEF Owners
<1>2. c.enabled \in BOOLEAN /\ c.kind \in TrackerKinds
  BY TrackersAssumption
<1>3. Copied(c) \in Conf
  BY <1>1, <1>2 DEF Copied, Conf
<1>4. ConfIsOwn(Copied(c))
  BY DEF Copied, ConfIsOwn
<1>5. Create(c) \in Tracker /\ Create(c).conf = Copied(c) /\ ~Create(c).authed
  BY <1>2, <1>3 DEF Create, Tracker
<1>6. QED
  BY <1>3, <1>4, <1>5

\* The trackers NewManager registers satisfy the invariant.
LEMMA SessionsInvInit == TrackersInit => SessionsInv
<1> SUFFICES ASSUME TrackersInit PROVE SessionsInv
    OBVIOUS
<1>1. PICK f \in [1..MaxTrackers -> Configs] : object = [k \in 1..MaxTrackers |-> Create(f[k])]
  BY DEF TrackersInit
<1>2. \A k \in 1..MaxTrackers : /\ object[k] \in Tracker /\ ConfIsOwn(object[k].conf) /\ ~object[k].authed
  BY <1>1, CopiedFacts
<1>3. object \in [1..MaxTrackers -> Tracker]
  BY <1>1, <1>2
<1>4. NotAsking \in AskerType /\ NotAsking.step = "idle"
  BY TrackersAssumption DEF NotAsking, AskerType, AskerSteps, Numbers, Owners
<1>5. tracker \in [TrackerIds -> Numbers] /\ asker = [p \in Askers |-> NotAsking]
      /\ overtaken = {} /\ session = [k \in 1..MaxTrackers |-> Nobody]
  BY DEF TrackersInit
<1>6. SessionsTypes
  BY <1>3, <1>4, <1>5 DEF SessionsTypes, Owners
<1>7. AskersAsk /\ HeldIsOwn
  BY <1>4, <1>5 DEF AskersAsk, HeldIsOwn, Holding
<1>8. ObjectsOwn
  BY <1>2 DEF ObjectsOwn
<1>9. QED
  BY <1>6, <1>7, <1>8 DEF SessionsInv

\* What an asker may be after a step that leaves the trackers alone
AskerMay(a) ==
    /\ a \in AskerType
    /\ a.step # "idle" => a.op # "none" /\ a.obj # 0
    /\ a.step \in Holding /\ ~a.stale /\ a.obj \notin overtaken => a.as \in Mine(a.obj)

\* A step of one asker that leaves the trackers alone
LEMMA AskerMoves ==
    ASSUME SessionsInv, NEW p \in Askers, NEW a, AskerMay(a), asker' = [asker EXCEPT ![p] = a],
           UNCHANGED <<tracker, object, overtaken, session>>
    PROVE  SessionsInv'
<1>1. SessionsTypes'
  BY DEF SessionsInv, SessionsTypes, AskerMay
<1>2. asker'[p] = a /\ \A q \in Askers \ {p} : asker'[q] = asker[q]
  BY DEF SessionsInv, SessionsTypes
<1>3. AskersAsk'
  BY <1>2 DEF SessionsInv, AskersAsk, AskerMay
<1>4. ObjectsOwn'
  BY DEF SessionsInv, ObjectsOwn, Mine
<1>5. HeldIsOwn'
  BY <1>2 DEF SessionsInv, HeldIsOwn, AskerMay, Mine
<1>6. QED
  BY <1>1, <1>3, <1>4, <1>5 DEF SessionsInv

\* The first step of a call
LEMMA AsksFacts ==
    ASSUME SessionsTypes, NEW p \in Askers, NEW op \in Ops, NEW n \in 1..MaxTrackers,
           NEW rest \in SUBSET (1..MaxTrackers), Asks(p, op, n, rest)
    PROVE  \E a : AskerMay(a) /\ asker' = [asker EXCEPT ![p] = a] /\ a.step \notin Holding
<1> DEFINE a == [op |-> op, step |-> FirstStep[op], obj |-> n, rest |-> rest, as |-> Nobody, stale |-> FALSE]
<1>1. FirstStep[op] \in {"auth", "refresh", "test"}
  BY DEF Ops, FirstStep
<1>2. n \in Numbers /\ n # 0
  BY TrackersAssumption DEF Numbers
<1>3. a \in AskerType
  BY <1>1, <1>2 DEF AskerType, AskerSteps, Owners
<1>4. a.step \in {"auth", "refresh", "test"} /\ a.op # "none" /\ a.obj # 0
  BY <1>1, <1>2 DEF Ops
<1>5. asker' = [asker EXCEPT ![p] = a]
  BY DEF Asks
<1> HIDE DEF a
<1>6. AskerMay(a) /\ a.step \notin Holding
  BY <1>3, <1>4 DEF AskerMay, Holding
<1>7. QED
  BY <1>5, <1>6

\* The end of a call
LEMMA OverFacts ==
    ASSUME SessionsTypes, AskersAsk, NEW p \in Askers, asker[p].step # "idle", Over(p)
    PROVE  \E a : AskerMay(a) /\ asker' = [asker EXCEPT ![p] = a] /\ a.step \notin Holding
<1>1. CASE asker[p].rest = {}
  <2>1. NotAsking \in AskerType /\ NotAsking.step = "idle"
    BY TrackersAssumption DEF NotAsking, AskerType, AskerSteps, Numbers, Owners
  <2>2. AskerMay(NotAsking) /\ NotAsking.step \notin Holding
    BY <2>1 DEF AskerMay, Holding
  <2>3. QED
    BY <1>1, <2>2 DEF Over
<1>2. CASE asker[p].rest # {}
  <2>1. PICK n \in asker[p].rest : Asks(p, asker[p].op, n, asker[p].rest \ {n})
    BY <1>2 DEF Over
  <2>2. asker[p] \in AskerType /\ asker[p].op # "none"
    BY DEF SessionsTypes, AskersAsk
  <2>3. asker[p].op \in Ops /\ n \in 1..MaxTrackers /\ asker[p].rest \ {n} \in SUBSET (1..MaxTrackers)
    BY <2>2 DEF AskerType
  <2>4. QED
    BY <2>1, <2>3, AsksFacts
<1>3. QED
  BY <1>1, <1>2

\* The end of a call, or of one tracker's turn in AuthenticateAll and TestAll.
LEMMA OverKeeps ==
    ASSUME SessionsInv, NEW p \in Askers, asker[p].step # "idle", Over(p),
           UNCHANGED <<tracker, object, overtaken, session>>
    PROVE  SessionsInv'
<1>1. PICK a : AskerMay(a) /\ asker' = [asker EXCEPT ![p] = a]
  BY OverFacts DEF SessionsInv
<1>2. QED
  BY <1>1, AskerMoves

\* Going on to a step without, or with the same, credential
LEMMA GoesKeeps ==
    ASSUME SessionsInv, NEW p \in Askers, asker[p].step # "idle", NEW step \in AskerSteps,
           step \in Holding => asker[p].step \in Holding,
           Goes(p, step), UNCHANGED <<tracker, object, overtaken, session>>
    PROVE  SessionsInv'
<1> DEFINE a == [asker[p] EXCEPT !.step = step]
<1>1. asker[p] \in AskerType /\ asker[p].op # "none" /\ asker[p].obj # 0
  BY DEF SessionsInv, SessionsTypes, AskersAsk
<1>2. /\ a \in AskerType /\ a.step = step /\ a.op = asker[p].op /\ a.obj = asker[p].obj
      /\ a.as = asker[p].as /\ a.stale = asker[p].stale
  BY <1>1 DEF AskerType
<1>3. asker' = [asker EXCEPT ![p] = a]
  BY DEF Goes
<1> HIDE DEF a
<1>4. AskerMay(a)
  BY <1>1, <1>2 DEF AskerMay, SessionsInv, HeldIsOwn
<1>5. QED
  BY <1>3, <1>4, AskerMoves

\* Going on with a credential of the configuration
LEMMA ReadsKeeps ==
    ASSUME SessionsInv, NEW p \in Askers, asker[p].step # "idle", NEW step \in AskerSteps,
           NEW as \in {Nobody, Of(p).conf.user, Of(p).conf.key},
           ReadsCredential(p, step, as), UNCHANGED <<tracker, object, overtaken, session>>
    PROVE  SessionsInv'
<1> DEFINE a == [asker[p] EXCEPT !.step = step, !.as = as, !.stale = FALSE]
           n == asker[p].obj
<1>1. asker[p] \in AskerType /\ asker[p].op # "none" /\ n # 0
  BY DEF SessionsInv, SessionsTypes, AskersAsk
<1>2. n \in 1..MaxTrackers
  BY <1>1, TrackersAssumption DEF AskerType, Numbers
<1>3. object[n] \in Tracker
  BY <1>2 DEF SessionsInv, SessionsTypes
<1>4. as \in Owners
  BY <1>3 DEF Of, Tracker, Conf, Owners
<1>5. n \notin overtaken => as \in Mine(n)
  BY <1>2 DEF SessionsInv, ObjectsOwn, ConfIsOwn, Mine, Of
<1>6. /\ a \in AskerType /\ a.step = step /\ a.op = asker[p].op /\ a.obj = n
      /\ a.as = as /\ a.stale = FALSE
  BY <1>1, <1>4 DEF AskerType
<1>7. asker' = [asker EXCEPT ![p] = a]
  BY DEF ReadsCredential
<1> HIDE DEF a, n
<1>8. AskerMay(a)
  BY <1>1, <1>5, <1>6 DEF AskerMay
<1>9. QED
  BY <1>7, <1>8, AskerMoves

\* The start of a call.
LEMMA AskKeeps ==
    ASSUME SessionsInv, NEW p \in Askers, Ask(p)
    PROVE  SessionsInv'
<1>1. UNCHANGED <<tracker, object, overtaken, session>>
  BY DEF Ask
<1>2. SessionsTypes
  BY DEF SessionsInv
<1>3. \A i \in TrackerIds : tracker[i] # 0 => tracker[i] \in 1..MaxTrackers
  BY <1>2, TrackersAssumption DEF SessionsTypes, Numbers
<1>4. Enabled \subseteq 1..MaxTrackers
  BY <1>3 DEF Enabled
<1>5. \E op \in Ops, n \in 1..MaxTrackers, rest \in SUBSET (1..MaxTrackers) : Asks(p, op, n, rest)
  <2>1. CASE \E i \in TrackerIds, op \in {"auth", "refresh", "test"} : tracker[i] # 0 /\ Asks(p, op, tracker[i], {})
    BY <2>1, <1>3 DEF Ops
  <2>2. CASE \E n \in Enabled, op \in {"authAll", "testAll"} : Asks(p, op, n, Enabled \ {n})
    <3>1. PICK n \in Enabled, op \in {"authAll", "testAll"} : Asks(p, op, n, Enabled \ {n})
      BY <2>2
    <3>2. n \in 1..MaxTrackers /\ op \in Ops /\ Enabled \ {n} \in SUBSET (1..MaxTrackers)
      BY <1>4 DEF Ops
    <3>3. QED
      BY <3>1, <3>2
  <2>3. QED
    BY <2>1, <2>2 DEF Ask
<1>6. PICK a : AskerMay(a) /\ asker' = [asker EXCEPT ![p] = a]
  BY <1>2, <1>5, AsksFacts
<1>7. QED
  BY <1>1, <1>6, AskerMoves

\* The steps that read the configuration or wait for the server: they write nothing.
LEMMA ChecksKeep ==
    ASSUME SessionsInv, NEW p \in Askers,
           Refresh(p) \/ Test(p) \/ Authenticate(p) \/ LoginAnswer(p) \/ FetchPasskey(p)
    PROVE  SessionsInv'
<1>u. UNCHANGED <<tracker, object, overtaken, session>> /\ asker[p].step # "idle"
  BY DEF Refresh, Test, Authenticate, LoginAnswer, FetchPasskey, AtStep
<1>k. Of(p).kind \in TrackerKinds
  <2>1. asker[p] \in AskerType /\ asker[p].obj # 0
    BY <1>u DEF SessionsInv, SessionsTypes, AskersAsk
  <2>2. asker[p].obj \in 1..MaxTrackers
    BY <2>1, TrackersAssumption DEF AskerType, Numbers
  <2>3. QED
    BY <2>2 DEF SessionsInv, SessionsTypes, Of, Tracker
<1>1. CASE Refresh(p)
  <2>1. Goes(p, "auth") \/ Over(p)
    BY <1>1 DEF Refresh
  <2>2. QED
    BY <2>1, <1>u, GoesKeeps, OverKeeps DEF AskerSteps, Holding
<1>2. CASE Test(p)
  <2>1. Goes(p, "auth") \/ Over(p) \/ ReadsCredential(p, "mark", Of(p).conf.key)
    BY <1>2, <1>k DEF Test, KeyTest, TrackerKinds
  <2>2. QED
    BY <2>1, <1>u, GoesKeeps, OverKeeps, ReadsKeeps DEF AskerSteps, Holding
<1>3. CASE Authenticate(p)
  <2> DEFINE c == Of(p).conf
  <2>1. \E how \in {Fail, <<"mark", c.user>>, <<"mark", c.key>>, <<"login", c.user>>} : GoesOn(p, how)
    <3>1. \E how \in {BasicAuth(c), RedactedAuth(c), BtnAuth(c), AnonMouseAuth(c), TorrentLeechAuth(c)} : GoesOn(p, how)
      BY <1>3, <1>k DEF Authenticate, TrackerKinds
    <3>2. /\ BasicAuth(c) = <<"mark", c.user>>
          /\ RedactedAuth(c) \in {Fail, <<"mark", c.key>>}
          /\ AnonMouseAuth(c) \in {Fail, <<"login", c.user>>}
      BY DEF BasicAuth, RedactedAuth, AnonMouseAuth
    <3>3. /\ BtnAuth(c) \in {RedactedAuth(c), <<"login", c.user>>}
          /\ TorrentLeechAuth(c) \in {AnonMouseAuth(c), <<"mark", c.key>>}
      BY DEF BtnAuth, TorrentLeechAuth
    <3>4. QED
      BY <3>1, <3>2, <3>3
  <2>2. Over(p) \/ \E step \in {"mark", "login"}, as \in {Nobody, c.user, c.key} : ReadsCredential(p, step, as)
    BY <2>1 DEF GoesOn
  <2>3. QED
    BY <2>2, <1>u, OverKeeps, ReadsKeeps DEF AskerSteps
<1>4. CASE LoginAnswer(p)
  <2>1. asker[p].step \in Holding
    BY <1>4 DEF LoginAnswer, AtStep, Holding
  <2>2. Over(p) \/ \E step \in {"passkey", "fetch", "keep"} : Goes(p, step)
    BY <1>4 DEF LoginAnswer
  <2>3. QED
    BY <2>1, <2>2, <1>u, OverKeeps, GoesKeeps DEF AskerSteps
<1>5. CASE FetchPasskey(p)
  <2>1. asker[p].step \in Holding
    BY <1>5 DEF FetchPasskey, AtStep, Holding
  <2>2. Over(p) \/ Goes(p, "keep")
    BY <1>5 DEF FetchPasskey
  <2>3. QED
    BY <2>1, <2>2, <1>u, OverKeeps, GoesKeeps DEF AskerSteps
<1>6. QED
  BY <1>1, <1>2, <1>3, <1>4, <1>5

\* A credential that is held is written into the tracker it was read for
LEMMA ObjectWritten ==
    ASSUME SessionsInv, NEW p \in Askers, asker[p].step \in Holding,
           NEW a, a \in AskerType, a.step # "idle" => a.op # "none" /\ a.obj # 0,
           a.step \in Holding => a.obj = asker[p].obj /\ a.as = asker[p].as /\ a.stale = asker[p].stale,
           asker' = [asker EXCEPT ![p] = a],
           NEW o \in Tracker, object' = [object EXCEPT ![asker[p].obj] = o],
           o.conf.account = Of(p).conf.account,
           \A f \in {"user", "key", "passkey", "cookie"} : o.conf[f] \in {Of(p).conf[f], asker[p].as},
           \/ o.authed = Of(p).authed /\ session' = session
           \/ session' = [session EXCEPT ![asker[p].obj] = asker[p].as],
           overtaken' = IF asker[p].stale THEN overtaken \cup {asker[p].obj} ELSE overtaken,
           UNCHANGED tracker
    PROVE  SessionsInv'
<1> DEFINE n == asker[p].obj
<1>0. SessionsTypes
  BY DEF SessionsInv
<1>1. asker[p] \in AskerType /\ n # 0
  BY DEF SessionsInv, SessionsTypes, AskersAsk, Holding
<1>2. n \in 1..MaxTrackers /\ n \in Numbers /\ asker[p].as \in Owners /\ asker[p].stale \in BOOLEAN
  BY <1>1, TrackersAssumption DEF AskerType, Numbers
<1>3. object' \in [1..MaxTrackers -> Tracker] /\ session' \in [1..MaxTrackers -> Owners]
  BY <1>0, <1>2 DEF SessionsTypes
<1>4. SessionsTypes'
  BY <1>0, <1>2, <1>3 DEF SessionsTypes
<1>5. object'[n] = o /\ \A m \in 1..MaxTrackers : m # n => object'[m] = object[m] /\ session'[m] = session[m]
  BY <1>0, <1>2 DEF SessionsTypes
<1>6. asker'[p] = a /\ \A q \in Askers \ {p} : asker'[q] = asker[q]
  BY <1>0 DEF SessionsTypes
<1>7. \A m \in 1..MaxTrackers : object'[m].conf.account = object[m].conf.account
  BY <1>5 DEF Of
<1>8. AskersAsk'
  BY <1>6 DEF SessionsInv, AskersAsk
<1>9. \A m : m \notin overtaken' => m \notin overtaken
  OBVIOUS
<1>10. n \notin overtaken' => ~asker[p].stale /\ asker[p].as \in Mine(n)
  BY DEF SessionsInv, HeldIsOwn
<1>11. HeldIsOwn'
  <2> SUFFICES ASSUME NEW q \in Askers, asker'[q].step \in Holding, ~asker'[q].stale, asker'[q].obj \notin overtaken'
               PROVE  asker'[q].as \in {Nobody, object'[asker'[q].obj].conf.account}
    BY DEF HeldIsOwn, Mine
  <2>1. asker'[q] \in AskerType /\ asker'[q].obj # 0
    BY <1>4, <1>8 DEF SessionsTypes, AskersAsk, Holding
  <2>2. asker'[q].obj \in 1..MaxTrackers
    BY <2>1, TrackersAssumption DEF AskerType, Numbers
  <2>3. asker'[q].as \in {Nobody, object[asker'[q].obj].conf.account}
    <3>1. CASE q = p
      BY <3>1, <1>6, <1>10 DEF Mine
    <3>2. CASE q # p
      BY <3>2, <1>6, <1>9 DEF SessionsInv, HeldIsOwn, Mine
    <3>3. QED
      BY <3>1, <3>2
  <2>4. QED
    BY <2>2, <2>3, <1>7
<1>12. ObjectsOwn'
  <2> SUFFICES ASSUME NEW m \in 1..MaxTrackers, m \notin overtaken'
               PROVE  ConfIsOwn(object'[m].conf) /\ (object'[m].authed => session'[m] \in {Nobody, object'[m].conf.account})
    BY DEF ObjectsOwn, ConfIsOwn, Mine
  <2>1. m \notin overtaken
    BY <1>9
  <2>2. ConfIsOwn(object[m].conf) /\ (object[m].authed => session[m] \in Mine(m))
    BY <2>1 DEF SessionsInv, ObjectsOwn
  <2>3. CASE m # n
    BY <2>2, <2>3, <1>5 DEF Mine
  <2>4. CASE m = n
    <3>1. asker[p].as \in Mine(n) /\ Of(p) = object[n] /\ object'[m] = o
      BY <2>4, <1>10, <1>5 DEF Of
    <3>2. ConfIsOwn(o.conf)
      BY <2>2, <2>4, <3>1 DEF ConfIsOwn, Mine
    <3>3. o.authed => session'[n] \in Mine(n)
      BY <2>2, <2>4, <3>1, <1>0, <1>2 DEF SessionsTypes
    <3>4. QED
      BY <2>4, <3>1, <3>2, <3>3, <1>2, <1>7 DEF Mine
  <2>5. QED
    BY <2>3, <2>4
<1>13. QED
  BY <1>4, <1>8, <1>11, <1>12 DEF SessionsInv

\* AnonaMouse's passkey is stored without the lock: into the configuration that is there by then,
\* and what it was given during the login is remembered in overtaken.
LEMMA StorePasskeyKeeps ==
    ASSUME SessionsInv, NEW p \in Askers, StorePasskey(p)
    PROVE  SessionsInv'
<1> DEFINE n == asker[p].obj
           as == asker[p].as
           a == [asker[p] EXCEPT !.step = "keep"]
           o == [object[n] EXCEPT !.conf.passkey = as]
<1>1. asker[p].step = "passkey" /\ asker[p] \in AskerType /\ n # 0 /\ asker[p].op # "none"
  BY DEF StorePasskey, SessionsInv, SessionsTypes, AskersAsk
<1>2. n \in 1..MaxTrackers /\ as \in Owners
  BY <1>1, TrackersAssumption DEF AskerType, Numbers
<1>3. object[n] \in Tracker /\ Of(p) = object[n]
  BY <1>2 DEF SessionsInv, SessionsTypes, Of
<1>4. /\ o \in Tracker /\ o.authed = object[n].authed
      /\ o.conf.account = object[n].conf.account /\ o.conf["user"] = object[n].conf["user"]
      /\ o.conf["key"] = object[n].conf["key"] /\ o.conf["cookie"] = object[n].conf["cookie"]
      /\ o.conf["passkey"] = as
  BY <1>2, <1>3 DEF Tracker, Conf
<1>5. /\ a \in AskerType /\ a.step = "keep" /\ a.op = asker[p].op /\ a.obj = n
      /\ a.as = as /\ a.stale = asker[p].stale
  BY <1>1 DEF AskerType, AskerSteps
<1>6. asker' = [asker EXCEPT ![p] = a] /\ object' = [object EXCEPT ![n] = o]
      /\ overtaken' = (IF asker[p].stale THEN overtaken \cup {n} ELSE overtaken)
      /\ UNCHANGED <<tracker, session>>
  BY DEF StorePasskey, Goes
<1> HIDE DEF a, o
<1>7. asker[p].step \in Holding
  BY <1>1 DEF Holding
<1>8. QED
  BY <1>1, <1>3, <1>4, <1>5, <1>6, <1>7, ObjectWritten

\* What Mark and Keep leave in a tracker
LEMMA WritesKeeps ==
    ASSUME SessionsInv, NEW p \in Askers, asker[p].step \in Holding, NEW conf \in Conf,
           conf.account = Of(p).conf.account,
           \A f \in {"user", "key", "passkey", "cookie"} : conf[f] \in {Of(p).conf[f], asker[p].as},
           Writes(p, conf)
    PROVE  SessionsInv'
<1> DEFINE n == asker[p].obj
           o == [object[n] EXCEPT !.authed = TRUE, !.conf = conf]
<1>1. asker[p].step # "idle" /\ asker[p] \in AskerType /\ n # 0
  BY DEF SessionsInv, SessionsTypes, AskersAsk, Holding
<1>2. n \in 1..MaxTrackers
  BY <1>1, TrackersAssumption DEF AskerType, Numbers
<1>3. object[n] \in Tracker
  BY <1>2 DEF SessionsInv, SessionsTypes
<1>4. o \in Tracker /\ o.conf = conf
  BY <1>3 DEF Tracker
<1>5. Over(p)
  BY DEF Writes
<1>6. PICK a : AskerMay(a) /\ asker' = [asker EXCEPT ![p] = a] /\ a.step \notin Holding
  BY <1>1, <1>5, OverFacts DEF SessionsInv
<1>7. a \in AskerType /\ (a.step # "idle" => a.op # "none" /\ a.obj # 0)
  BY <1>6 DEF AskerMay
<1>8. /\ object' = [object EXCEPT ![n] = o]
      /\ session' = [session EXCEPT ![n] = asker[p].as]
      /\ overtaken' = (IF asker[p].stale THEN overtaken \cup {n} ELSE overtaken)
      /\ UNCHANGED tracker
  BY DEF Writes
<1> HIDE DEF o
<1>9. QED
  BY <1>4, <1>6, <1>7, <1>8, ObjectWritten

\* A login writes what it got into the configuration that is there by then.
LEMMA MarkKeepKeep ==
    ASSUME SessionsInv, NEW p \in Askers, Mark(p) \/ Keep(p)
    PROVE  SessionsInv'
<1> DEFINE n == asker[p].obj
           as == asker[p].as
           c == Of(p).conf
<1>1. asker[p].step \in {"mark", "keep"} /\ asker[p] \in AskerType /\ n # 0
  BY DEF Mark, Keep, SessionsInv, SessionsTypes, AskersAsk
<1>2. n \in 1..MaxTrackers /\ as \in Owners
  BY <1>1, TrackersAssumption DEF AskerType, Numbers
<1>3. c \in Conf
  BY <1>2 DEF SessionsInv, SessionsTypes, Of, Tracker
<1>4. \E conf \in Conf : /\ Writes(p, conf) /\ conf.account = c.account
                         /\ \A f \in {"user", "key", "passkey", "cookie"} : conf[f] \in {c[f], as}
  <2>1. CASE Mark(p)
    BY <2>1, <1>3 DEF Mark
  <2>2. CASE Keep(p)
    <3>1. PICK conf \in CookieSession(c, as) \cup KeySession(c, as) : Writes(p, conf)
      BY <2>2 DEF Keep
    <3>2. CASE conf \in CookieSession(c, as)
      <4>1. conf = [c EXCEPT !.cookie = as, !.expiry = "far"]
        BY <3>2 DEF CookieSession
      <4>2. /\ conf \in Conf /\ conf.account = c.account /\ conf["user"] = c["user"] /\ conf["key"] = c["key"]
            /\ conf["passkey"] = c["passkey"] /\ conf["cookie"] = as
        BY <4>1, <1>2, <1>3 DEF Conf
      <4>3. QED
        BY <3>1, <4>2
    <3>3. CASE conf \in KeySession(c, as)
      <4>1. PICK e \in {"far", "soon"} : conf = [c EXCEPT !.key = as, !.expiry = e]
        BY <3>3 DEF KeySession
      <4>2. /\ conf \in Conf /\ conf.account = c.account /\ conf["user"] = c["user"] /\ conf["key"] = as
            /\ conf["passkey"] = c["passkey"] /\ conf["cookie"] = c["cookie"]
        BY <4>1, <1>2, <1>3 DEF Conf
      <4>3. QED
        BY <3>1, <4>2
    <3>4. QED
      BY <3>1, <3>2, <3>3
  <2>3. QED
    BY <2>1, <2>2
<1>5. asker[p].step \in Holding
  BY <1>1 DEF Holding
<1>6. QED
  BY <1>4, <1>5, WritesKeeps

\* A tracker in a place that nobody else has, and nobody asks
LEMMA RegistersKeeps ==
    ASSUME SessionsInv, NEW i \in TrackerIds, NEW c \in Configs, Registers(i, c)
    PROVE  SessionsInv'
<1>1. PICK n \in 1..MaxTrackers :
          /\ ~InUse(i, n)
          /\ object' = [object EXCEPT ![n] = Create(c)] /\ tracker' = [tracker EXCEPT ![i] = n]
          /\ session' = [session EXCEPT ![n] = Nobody] /\ overtaken' = overtaken \ {n}
  BY DEF Registers
<1>2. asker' = asker
  BY DEF Registers
<1>3. n \in Numbers
  BY TrackersAssumption DEF Numbers
<1>4. Create(c) \in Tracker /\ ConfIsOwn(Create(c).conf) /\ ~Create(c).authed
  BY CopiedFacts
<1>5. SessionsTypes'
  BY <1>1, <1>2, <1>3, <1>4 DEF SessionsInv, SessionsTypes, Owners
<1>6. /\ object'[n] = Create(c)
      /\ \A m \in (1..MaxTrackers) \ {n} : object'[m] = object[m] /\ session'[m] = session[m]
  BY <1>1 DEF SessionsInv, SessionsTypes
<1>7. \A p \in Askers : asker[p].obj # n
  BY <1>1 DEF InUse
<1>8. AskersAsk'
  BY <1>2 DEF SessionsInv, AskersAsk
<1>9. ObjectsOwn'
  BY <1>1, <1>4, <1>6 DEF SessionsInv, ObjectsOwn, Mine
<1>10. HeldIsOwn'
  <2> SUFFICES ASSUME NEW q \in Askers, asker[q].step \in Holding, ~asker[q].stale, asker[q].obj \notin overtaken'
               PROVE  asker[q].as \in {Nobody, object'[asker[q].obj].conf.account}
    BY <1>2 DEF HeldIsOwn, Mine
  <2>1. asker[q] \in AskerType /\ asker[q].obj # 0
    BY DEF SessionsInv, SessionsTypes, AskersAsk, Holding
  <2>2. asker[q].obj \in (1..MaxTrackers) \ {n}
    BY <2>1, <1>7, TrackersAssumption DEF AskerType, Numbers
  <2>3. asker[q].as \in Mine(asker[q].obj)
    BY <2>2, <1>1 DEF SessionsInv, HeldIsOwn
  <2>4. QED
    BY <2>2, <2>3, <1>6 DEF Mine
<1>11. QED
  BY <1>5, <1>8, <1>9, <1>10 DEF SessionsInv

\* SetConfig replaces the configuration whole, makes every login under way stale and
\* leaves the tracker logged out.
LEMMA SetConfigKeeps ==
    ASSUME SessionsInv, NEW i \in TrackerIds, NEW c \in Configs, SetConfig(i, c)
    PROVE  SessionsInv'
<1> DEFINE n == tracker[i]
           o == [object[n] EXCEPT !.conf = Copied(c), !.authed = FALSE]
<1>0. SessionsTypes
  BY DEF SessionsInv
<1>1. n \in 1..MaxTrackers
  BY <1>0, TrackersAssumption DEF SetConfig, SessionsTypes, Numbers
<1>2. /\ object' = [object EXCEPT ![n] = o]
      /\ asker' = [p \in Askers |-> [asker[p] EXCEPT !.stale = @ \/ asker[p].obj = n]]
      /\ overtaken' = overtaken \ {n} /\ UNCHANGED <<tracker, session>>
  BY DEF SetConfig, AuthedAfterSet
<1>3. object[n] \in Tracker
  BY <1>0, <1>1 DEF SessionsTypes
<1>4. o \in Tracker /\ o.conf = Copied(c) /\ ~o.authed /\ ConfIsOwn(Copied(c))
  BY <1>3, CopiedFacts DEF Tracker
<1> HIDE DEF o
<1>5. /\ object' \in [1..MaxTrackers -> Tracker] /\ object'[n] = o
      /\ \A m \in (1..MaxTrackers) \ {n} : object'[m] = object[m]
  BY <1>0, <1>1, <1>2, <1>4 DEF SessionsTypes
<1>6. \A p \in Askers : /\ asker'[p] \in AskerType /\ asker'[p].op = asker[p].op /\ asker'[p].step = asker[p].step
                        /\ asker'[p].obj = asker[p].obj /\ asker'[p].as = asker[p].as
                        /\ ~asker'[p].stale => ~asker[p].stale /\ asker[p].obj # n
  <2> SUFFICES ASSUME NEW p \in Askers
               PROVE  /\ asker'[p] \in AskerType /\ asker'[p].op = asker[p].op /\ asker'[p].step = asker[p].step
                      /\ asker'[p].obj = asker[p].obj /\ asker'[p].as = asker[p].as
                      /\ ~asker'[p].stale => ~asker[p].stale /\ asker[p].obj # n
    OBVIOUS
  <2> DEFINE s == asker[p].stale \/ asker[p].obj = n
  <2>1. asker[p] \in AskerType /\ asker'[p] = [asker[p] EXCEPT !.stale = s]
    BY <1>0, <1>2 DEF SessionsTypes
  <2>2. s \in BOOLEAN /\ (~s => ~asker[p].stale /\ asker[p].obj # n)
    OBVIOUS
  <2> HIDE DEF s
  <2>3. /\ asker'[p] \in AskerType /\ asker'[p].op = asker[p].op /\ asker'[p].step = asker[p].step
        /\ asker'[p].obj = asker[p].obj /\ asker'[p].as = asker[p].as /\ asker'[p].stale = s
    BY <2>1, <2>2 DEF AskerType
  <2>4. QED
    BY <2>2, <2>3
<1>7. SessionsTypes'
  BY <1>0, <1>2, <1>5, <1>6 DEF SessionsTypes
<1>8. AskersAsk'
  BY <1>6 DEF SessionsInv, AskersAsk
<1>9. ObjectsOwn'
  BY <1>2, <1>4, <1>5 DEF SessionsInv, ObjectsOwn, Mine
<1>10. HeldIsOwn'
  <2> SUFFICES ASSUME NEW q \in Askers, asker'[q].step \in Holding, ~asker'[q].stale, asker'[q].obj \notin overtaken'
               PROVE  asker'[q].as \in {Nobody, object'[asker'[q].obj].conf.account}
    BY DEF HeldIsOwn, Mine
  <2>1. asker[q] \in AskerType /\ asker[q].obj # 0 /\ asker[q].obj # n /\ asker[q].step \in Holding /\ ~asker[q].stale
    BY <1>6, <1>0 DEF SessionsInv, SessionsTypes, AskersAsk, Holding
  <2>2. asker[q].obj \in (1..MaxTrackers) \ {n}
    BY <2>1, TrackersAssumption DEF AskerType, Numbers
  <2>3. asker[q].as \in Mine(asker[q].obj)
    BY <2>1, <1>2, <1>6 DEF SessionsInv, HeldIsOwn
  <2>4. QED
    BY <2>2, <2>3, <1>5, <1>6 DEF Mine
<1>11. QED
  BY <1>7, <1>8, <1>9, <1>10 DEF SessionsInv

\* A tracker taken off the manager's map stays what it was to those who use it.
LEMMA RemoveTrackerKeeps ==
    ASSUME SessionsInv, NEW i \in TrackerIds, RemoveTracker(i)
    PROVE  SessionsInv'
<1>1. tracker' = [tracker EXCEPT ![i] = 0] /\ UNCHANGED <<object, asker, overtaken, session>>
  BY DEF RemoveTracker
<1>2. 0 \in Numbers
  BY TrackersAssumption DEF Numbers
<1>3. QED
  BY <1>1, <1>2 DEF SessionsInv, SessionsTypes, AskersAsk, ObjectsOwn, HeldIsOwn, Mine

\* Time changes no credential.
LEMMA ExpireKeeps ==
    ASSUME SessionsInv, NEW n \in 1..MaxTrackers, Expire(n)
    PROVE  SessionsInv'
<1> DEFINE e == IF object[n].conf.expiry = "far" THEN "soon" ELSE "past"
           o == [object[n] EXCEPT !.conf.expiry = e]
<1>1. object[n] \in Tracker
  BY DEF SessionsInv, SessionsTypes
<1>2. e \in {"soon", "past"}
  OBVIOUS
<1>3. object' = [object EXCEPT ![n] = o] /\ UNCHANGED <<tracker, asker, overtaken, session>>
  BY DEF Expire
<1> HIDE DEF e
<1>4. /\ o \in Tracker /\ o.conf.account = object[n].conf.account /\ o.conf.user = object[n].conf.user
      /\ o.conf.key = object[n].conf.key /\ o.conf.passkey = object[n].conf.passkey
      /\ o.conf.cookie = object[n].conf.cookie /\ o.authed = object[n].authed
  BY <1>1, <1>2 DEF Tracker, Conf
<1> HIDE DEF o
<1>5. /\ object' \in [1..MaxTrackers -> Tracker] /\ object'[n] = o
      /\ \A m \in (1..MaxTrackers) \ {n} : object'[m] = object[m]
  BY <1>3, <1>4 DEF SessionsInv, SessionsTypes
<1>6. \A m \in 1..MaxTrackers : /\ object'[m].conf.account = object[m].conf.account /\ (ConfIsOwn(object[m].conf) => ConfIsOwn(object'[m].conf))
                                /\ object'[m].authed = object[m].authed
  BY <1>4, <1>5 DEF ConfIsOwn
<1>7. SessionsTypes' /\ AskersAsk'
  BY <1>3, <1>5 DEF SessionsInv, SessionsTypes, AskersAsk
<1>8. ObjectsOwn'
  BY <1>3, <1>6 DEF SessionsInv, ObjectsOwn, Mine
<1>9. HeldIsOwn'
  <2> SUFFICES ASSUME NEW q \in Askers, asker[q].step \in Holding, ~asker[q].stale, asker[q].obj \notin overtaken
               PROVE  asker[q].as \in {Nobody, object'[asker[q].obj].conf.account}
    BY <1>3 DEF HeldIsOwn, Mine
  <2>1. asker[q] \in AskerType /\ asker[q].obj # 0
    BY DEF SessionsInv, SessionsTypes, AskersAsk, Holding
  <2>2. asker[q].obj \in 1..MaxTrackers
    BY <2>1, TrackersAssumption DEF AskerType, Numbers
  <2>3. QED
    BY <2>2, <1>6 DEF SessionsInv, HeldIsOwn, Mine
<1>10. QED
  BY <1>7, <1>8, <1>9 DEF SessionsInv

\* Every step of the manager, of its callers and of time keeps the invariant.
LEMMA SessionsStep == SessionsInv /\ [SessionsNext]_sessionsVars => SessionsInv'
<1> SUFFICES ASSUME SessionsInv, [SessionsNext]_sessionsVars PROVE SessionsInv'
    OBVIOUS
<1>1. ASSUME NEW i \in TrackerIds,
             RemoveTracker(i) \/ \E c \in Configs : AddTracker(i, c) \/ UpdateTracker(i, c) \/ SetConfig(i, c)
      PROVE  SessionsInv'
  <2>1. CASE \E c \in Configs : AddTracker(i, c) \/ UpdateTracker(i, c)
    BY <2>1, RegistersKeeps DEF AddTracker, UpdateTracker
  <2>2. QED
    BY <1>1, <2>1, RemoveTrackerKeeps, SetConfigKeeps
<1>2. ASSUME NEW p \in Askers,
             \/ Ask(p) \/ Refresh(p) \/ Test(p) \/ Authenticate(p) \/ LoginAnswer(p)
             \/ FetchPasskey(p) \/ StorePasskey(p) \/ Mark(p) \/ Keep(p)
      PROVE  SessionsInv'
  BY <1>2, AskKeeps, ChecksKeep, StorePasskeyKeeps, MarkKeepKeep
<1>3. ASSUME NEW n \in 1..MaxTrackers, Expire(n) PROVE SessionsInv'
  BY <1>3, ExpireKeeps
<1>4. CASE UNCHANGED sessionsVars
  <2>1. UNCHANGED <<tracker, object, asker, overtaken, session>>
    BY <1>4 DEF sessionsVars
  <2>2. SessionsTypes' /\ AskersAsk'
    BY <2>1 DEF SessionsInv, SessionsTypes, AskersAsk
  <2>3. ObjectsOwn' /\ HeldIsOwn'
    BY <2>1 DEF SessionsInv, ObjectsOwn, HeldIsOwn, Mine
  <2>4. QED
    BY <2>2, <2>3 DEF SessionsInv
<1>5. QED
  BY <1>1, <1>2, <1>3, <1>4 DEF SessionsNext

\* The invariant holds in every state.
LEMMA SessionsInvariant == SessionsSpec => []SessionsInv
<1>1. QED
  BY SessionsInvInit, SessionsStep, PTL DEF SessionsSpec

\* For any number of trackers, callers and configurations: what a tracker sends, and the account it
\* believes itself logged in as, are of the account it is configured for, unless its
\* configuration was replaced during a login (tracker.go, manager.go).
THEOREM SessionsOwn == SessionsSpec => []SessionsAreOwn
<1>1. SessionsInv => SessionsAreOwn
  <2> SUFFICES ASSUME SessionsInv, NEW n \in (1..MaxTrackers) \ overtaken
               PROVE  /\ Sent(object[n]) \subseteq {Nobody, object[n].conf.account}
                      /\ object[n].authed => session[n] \in {Nobody, object[n].conf.account}
    BY DEF SessionsAreOwn
  <2>1. /\ ConfIsOwn(object[n].conf)
        /\ object[n].authed => session[n] \in {Nobody, object[n].conf.account}
    BY DEF SessionsInv, ObjectsOwn, Mine
  <2>2. object[n].kind \in TrackerKinds
    BY DEF SessionsInv, SessionsTypes, Tracker
  <2>3. Sent(object[n]) \subseteq {object[n].conf.cookie, object[n].conf.key, object[n].conf.passkey}
    BY <2>2 DEF Sent, TrackerKinds, ApplyAuth, RedactedSends, BtnSends, TorrentLeechSends, AnonMouseSends
  <2>4. QED
    BY <2>1, <2>3 DEF ConfIsOwn
<1>2. QED
  BY <1>1, SessionsInvariant, PTL

\* The invariant of the sessions gives their types.
LEMMA SessionsAreTyped == SessionsInv => SessionsTypeOK
<1>1. ASSUME SessionsInv PROVE asker \in [Askers -> [op : {"none", "auth", "refresh", "test", "authAll", "testAll"},
                           step : {"idle", "auth", "refresh", "test", "login", "fetch", "passkey", "mark", "keep"},
                           obj : Numbers, rest : SUBSET Numbers, as : Owners, stale : BOOLEAN]]
  <2>1. SUBSET (1..MaxTrackers) \subseteq SUBSET Numbers
    BY TrackersAssumption DEF Numbers
  <2>2. QED
    BY <1>1, <2>1 DEF SessionsInv, SessionsTypes, AskerType, Ops, AskerSteps
<1>2. QED
  BY <1>1 DEF SessionsInv, SessionsTypes, Tracker, Conf, SessionsTypeOK

\* The trackers are well typed, for any number of them.
THEOREM SessionsTyped == SessionsSpec => []SessionsTypeOK
<1>1. QED
  BY SessionsAreTyped, SessionsInvariant, PTL

-----------------------------------------------------------------------------
(* Transfer counts (TrackerStats).                                         *)

\* What a count says: an info hash, the tracker, how often it was transferred and seeded.
Entry == [tracker : StatTrackers, count : Nat, seedTime : Nat, seeding : BOOLEAN]

\* The types of TrackerStats.
StatsTypes ==
    /\ stats \in [Hashes -> SUBSET Entry]
    /\ reader \in [Queriers -> {<<>>} \cup TorrentAccounts]
    /\ reported \in [TorrentAccounts -> 0..MaxReports]
    /\ sessions \in [TorrentAccounts -> 0..MaxReports]
    /\ users \in [Hashes -> SUBSET StatTrackers]
    /\ overwritten \subseteq Hashes

\* The cache has one entry for an info hash.
OneEntry == \A h \in Hashes : \A e, f \in stats[h] : e = f

\* An entry counts no report and no session twice.
NothingTwice ==
    \A h \in Hashes : \A e \in stats[h] :
        /\ e.count <= reported[<<h, e.tracker>>]
        /\ e.seedTime + (IF e.seeding THEN 1 ELSE 0) <= sessions[<<h, e.tracker>>]

\* Whoever has an entry, a report or an entry to store has asked for the hash.
UsersAreKnown ==
    /\ \A h \in Hashes : IsFiniteSet(users[h])
    /\ \A h \in Hashes : \A e \in stats[h] : e.tracker \in users[h]
    /\ \A h \in Hashes, t \in StatTrackers : reported[<<h, t>>] # 0 => t \in users[h]
    /\ \A p \in Queriers : reader[p] # <<>> => reader[p][2] \in users[reader[p][1]]

\* On a hash of one tracker that no reader is about to overwrite
OnlyUser(h, t) == h \notin overwritten /\ users[h] \subseteq {t}
\* A tracker that has the hash for itself has all its reports counted, and nobody is about to
\* store an empty entry over them, unless somebody wrote between a look-up and its store.
AllCounted ==
    \A h \in Hashes, t \in StatTrackers : OnlyUser(h, t) =>
        /\ \A e \in stats[h] : e.count = reported[<<h, t>>]
        /\ stats[h] = {} => reported[<<h, t>>] = 0
        /\ \A p \in Queriers : reader[p] # <<>> /\ reader[p][1] = h => reported[<<h, t>>] = 0

\* The inductive invariant of the counts.
StatsInv == StatsTypes /\ OneEntry /\ NothingTwice /\ UsersAreKnown /\ AllCounted

\* An empty cache satisfies the invariant.
LEMMA StatsInvInit == StatsInit => StatsInv
<1> SUFFICES ASSUME StatsInit PROVE StatsInv
    OBVIOUS
<1>1. StatsTypes
  BY StatsAssumption DEF StatsInit, StatsTypes
<1>2. OneEntry /\ NothingTwice /\ AllCounted
  BY DEF StatsInit, OneEntry, NothingTwice, AllCounted, TorrentAccounts
<1>3. UsersAreKnown
  BY FS_EmptySet DEF StatsInit, UsersAreKnown, TorrentAccounts
<1>4. QED
  BY <1>1, <1>2, <1>3 DEF StatsInv

\* The entry a write starts from
LEMMA EntryOfFacts ==
    ASSUME StatsInv, NEW h \in Hashes, NEW t \in StatTrackers
    PROVE  /\ EntryOf(h, t) \in Entry /\ EntryOf(h, t).tracker = t
           /\ EntryOf(h, t).count <= reported[<<h, t>>]
           /\ EntryOf(h, t).seedTime + (IF EntryOf(h, t).seeding THEN 1 ELSE 0) <= sessions[<<h, t>>]
           /\ OnlyUser(h, t) => EntryOf(h, t).count = reported[<<h, t>>]
<1> <<h, t>> \in TorrentAccounts
  BY DEF TorrentAccounts
<1>1. CASE \E e \in stats[h] : e.tracker = t
  <2>1. PICK e \in stats[h] : e.tracker = t
    BY <1>1
  <2>2. EntryOf(h, t) \in stats[h]
    BY <1>1 DEF EntryOf
  <2>3. EntryOf(h, t) = e
    BY <2>1, <2>2 DEF StatsInv, OneEntry
  <2>4. e \in Entry
    BY <2>1 DEF StatsInv, StatsTypes
  <2>5. QED
    BY <2>1, <2>3, <2>4 DEF StatsInv, NothingTwice, AllCounted
<1>2. CASE ~ \E e \in stats[h] : e.tracker = t
  <2>1. EntryOf(h, t) = Empty(t)
    BY <1>2 DEF EntryOf
  <2>2. Empty(t) \in Entry /\ Empty(t).tracker = t /\ Empty(t).count = 0 /\ Empty(t).seedTime = 0 /\ ~Empty(t).seeding
    BY DEF Empty, Entry
  <2>3. reported[<<h, t>>] \in Nat /\ sessions[<<h, t>>] \in Nat
    BY StatsAssumption DEF StatsInv, StatsTypes
  <2>4. ASSUME OnlyUser(h, t) PROVE reported[<<h, t>>] = 0
    <3>1. \A e \in stats[h] : e.tracker \in users[h]
      BY DEF StatsInv, UsersAreKnown
    <3>2. stats[h] = {}
      BY <3>1, <2>4, <1>2 DEF OnlyUser
    <3>3. QED
      BY <3>2, <2>4 DEF StatsInv, AllCounted
  <2>5. QED
    BY <2>1, <2>2, <2>3, <2>4
<1>3. QED
  BY <1>1, <1>2

\* A write of one tracker's entry keeps the invariant, if it counts what is reported by then
LEMMA StatsStore ==
    ASSUME StatsInv, NEW h \in Hashes, NEW t \in StatTrackers, NEW e \in Entry,
           e.tracker = t, Store(h, e), Uses(h, t), UNCHANGED reader,
           reported' \in [TorrentAccounts -> 0..MaxReports],
           sessions' \in [TorrentAccounts -> 0..MaxReports],
           \A a \in TorrentAccounts \ {<<h, t>>} : reported'[a] = reported[a] /\ sessions'[a] = sessions[a],
           e.count <= reported'[<<h, t>>],
           e.seedTime + (IF e.seeding THEN 1 ELSE 0) <= sessions'[<<h, t>>],
           OnlyUser(h, t) => e.count = reported'[<<h, t>>]
    PROVE  StatsInv'
<1> USE StatsAssumption
<1> StatsTypes
  BY DEF StatsInv
<1>a. \A i \in Hashes, u \in StatTrackers : <<i, u>> \in TorrentAccounts
  BY DEF TorrentAccounts
<1>b. stats' = [stats EXCEPT ![h] = {e}]
  BY DEF Store
<1>c. users' = [users EXCEPT ![h] = @ \cup {t}]
  BY DEF Uses
<1>d. /\ overwritten \subseteq overwritten' /\ overwritten' \subseteq overwritten \cup {h}
      /\ h \notin overwritten' => \A p \in Queriers : reader[p] # <<>> => reader[p][1] # h
  BY DEF Uses
<1>1. StatsTypes'
  <2>1. stats' \in [Hashes -> SUBSET Entry]
    BY <1>b DEF StatsTypes
  <2>2. users' \in [Hashes -> SUBSET StatTrackers]
    BY <1>c DEF StatsTypes
  <2>3. QED
    BY <2>1, <2>2, <1>d DEF StatsTypes
<1>s. stats'[h] = {e} /\ \A i \in Hashes \ {h} : stats'[i] = stats[i]
  BY <1>b DEF StatsTypes
<1>u. users'[h] = users[h] \cup {t} /\ \A i \in Hashes \ {h} : users'[i] = users[i]
  BY <1>c DEF StatsTypes
<1>2. OneEntry'
  BY <1>s DEF StatsInv, OneEntry
<1>3. NothingTwice'
  <2> SUFFICES ASSUME NEW i \in Hashes, NEW f \in stats'[i]
               PROVE  /\ f.count <= reported'[<<i, f.tracker>>]
                      /\ f.seedTime + (IF f.seeding THEN 1 ELSE 0) <= sessions'[<<i, f.tracker>>]
    BY DEF NothingTwice
  <2>1. CASE i = h
    BY <2>1, <1>s
  <2>2. CASE i # h
    <3>1. f \in stats[i] /\ f.tracker \in StatTrackers
      BY <2>2, <1>s DEF StatsTypes, Entry
    <3>2. <<i, f.tracker>> \in TorrentAccounts \ {<<h, t>>}
      BY <2>2, <3>1, <1>a
    <3>3. QED
      BY <3>1, <3>2 DEF StatsInv, NothingTwice
  <2>3. QED
    BY <2>1, <2>2
<1>4. UsersAreKnown'
  <2>1. \A i \in Hashes : IsFiniteSet(users'[i])
    <3>1. \A i \in Hashes : IsFiniteSet(users[i])
      BY DEF StatsInv, UsersAreKnown
    <3>2. IsFiniteSet(users[h] \cup {t})
      BY <3>1, FS_AddElement
    <3>3. QED
      BY <3>1, <3>2, <1>u
  <2>2. \A i \in Hashes : \A f \in stats'[i] : f.tracker \in users'[i]
    BY <1>u, <1>s DEF StatsInv, UsersAreKnown
  <2>3. ASSUME NEW i \in Hashes, NEW u \in StatTrackers, reported'[<<i, u>>] # 0 PROVE u \in users'[i]
    <3>1. CASE <<i, u>> = <<h, t>>
      BY <3>1, <1>u
    <3>2. CASE <<i, u>> # <<h, t>>
      <4>1. reported[<<i, u>>] # 0
        BY <3>2, <2>3, <1>a
      <4>2. u \in users[i]
        BY <4>1 DEF StatsInv, UsersAreKnown
      <4>3. QED
        BY <4>2, <1>u
    <3>3. QED
      BY <3>1, <3>2
  <2>4. ASSUME NEW p \in Queriers, reader'[p] # <<>> PROVE reader'[p][2] \in users'[reader'[p][1]]
    <3>1. reader[p] \in TorrentAccounts /\ reader[p][2] \in users[reader[p][1]]
      BY <2>4 DEF StatsInv, UsersAreKnown, StatsTypes
    <3>2. reader[p][1] \in Hashes
      BY <3>1 DEF TorrentAccounts
    <3>3. QED
      BY <3>1, <3>2, <1>u
  <2>5. QED
    BY <2>1, <2>2, <2>3, <2>4 DEF UsersAreKnown
<1>5. AllCounted'
  <2> SUFFICES ASSUME NEW i \in Hashes, NEW u \in StatTrackers, OnlyUser(i, u)'
               PROVE  /\ \A f \in stats'[i] : f.count = reported'[<<i, u>>]
                      /\ stats'[i] = {} => reported'[<<i, u>>] = 0
                      /\ \A p \in Queriers : reader'[p] # <<>> /\ reader'[p][1] = i => reported'[<<i, u>>] = 0
    BY DEF AllCounted
  <2>1. OnlyUser(i, u)
    BY <1>d, <1>u DEF OnlyUser
  <2>2. CASE i = h
    <3>1. u = t
      BY <2>2, <1>u DEF OnlyUser
    <3>2. \A p \in Queriers : reader[p] # <<>> => reader[p][1] # h
      BY <2>2, <1>d DEF OnlyUser
    <3>3. QED
      BY <2>1, <2>2, <3>1, <3>2, <1>s
  <2>3. CASE i # h
    <3>1. reported'[<<i, u>>] = reported[<<i, u>>] /\ stats'[i] = stats[i]
      BY <2>3, <1>a, <1>s
    <3>2. QED
      BY <3>1, <2>1 DEF StatsInv, AllCounted
  <2>4. QED
    BY <2>2, <2>3
<1>6. QED
  BY <1>1, <1>2, <1>3, <1>4, <1>5 DEF StatsInv

\* UpdateStats adds a report to the tracker's entry, or to a new one.
LEMMA UpdateStatsKeeps ==
    ASSUME StatsInv, NEW h \in Hashes, NEW t \in StatTrackers, UpdateStats(h, t)
    PROVE  StatsInv'
<1> DEFINE a == <<h, t>>
           e == [EntryOf(h, t) EXCEPT !.count = @ + 1]
<1>1. a \in TorrentAccounts /\ reported \in [TorrentAccounts -> 0..MaxReports]
      /\ sessions \in [TorrentAccounts -> 0..MaxReports]
  BY DEF TorrentAccounts, StatsInv, StatsTypes
<1>2. /\ reported[a] < MaxReports /\ Store(h, e) /\ Uses(h, t) /\ UNCHANGED reader /\ sessions' = sessions
      /\ reported' = [reported EXCEPT ![a] = @ + 1]
  BY DEF UpdateStats
<1>3. /\ reported' \in [TorrentAccounts -> 0..MaxReports] /\ reported'[a] = reported[a] + 1
      /\ \A b \in TorrentAccounts \ {a} : reported'[b] = reported[b]
  BY <1>1, <1>2, StatsAssumption
<1>4. /\ EntryOf(h, t) \in Entry /\ EntryOf(h, t).tracker = t
      /\ EntryOf(h, t).count <= reported[a]
      /\ EntryOf(h, t).seedTime + (IF EntryOf(h, t).seeding THEN 1 ELSE 0) <= sessions[a]
      /\ OnlyUser(h, t) => EntryOf(h, t).count = reported[a]
  BY EntryOfFacts
<1>5. /\ e \in Entry /\ e.tracker = t /\ e.count = EntryOf(h, t).count + 1
      /\ e.seedTime = EntryOf(h, t).seedTime /\ e.seeding = EntryOf(h, t).seeding
  BY <1>4 DEF Entry
<1>6. /\ reported[a] \in Nat /\ EntryOf(h, t).count \in Nat
  BY <1>1, <1>4, StatsAssumption DEF Entry
<1> HIDE DEF a, e
<1>7. e.count <= reported'[a] /\ (OnlyUser(h, t) => e.count = reported'[a])
  BY <1>3, <1>4, <1>5, <1>6
<1>8. e.seedTime + (IF e.seeding THEN 1 ELSE 0) <= sessions'[a]
  BY <1>2, <1>4, <1>5
<1>9. QED
  BY <1>1, <1>2, <1>3, <1>5, <1>7, <1>8, StatsStore DEF a

\* SetStats stores a new entry.
LEMMA SetStatsKeeps ==
    ASSUME StatsInv, NEW h \in Hashes, NEW t \in StatTrackers, NEW n \in 0..MaxReports, SetStats(h, t, n)
    PROVE  StatsInv'
<1> DEFINE a == <<h, t>>
           e == [Empty(t) EXCEPT !.count = n]
<1>1. a \in TorrentAccounts /\ reported \in [TorrentAccounts -> 0..MaxReports]
      /\ sessions \in [TorrentAccounts -> 0..MaxReports]
  BY DEF TorrentAccounts, StatsInv, StatsTypes
<1>2. /\ Store(h, e) /\ Uses(h, t) /\ UNCHANGED reader /\ sessions' = sessions
      /\ reported' = [reported EXCEPT ![a] = n]
  BY DEF SetStats
<1>3. /\ reported' \in [TorrentAccounts -> 0..MaxReports] /\ reported'[a] = n
      /\ \A b \in TorrentAccounts \ {a} : reported'[b] = reported[b]
  BY <1>1, <1>2, StatsAssumption
<1>4. e \in Entry /\ e.tracker = t /\ e.count = n /\ e.seedTime = 0 /\ e.seeding = FALSE
  <2> DEFINE o == Empty(t)
  <2>1. n \in Nat
    BY StatsAssumption
  <2>2. o \in Entry /\ o.tracker = t /\ o.seedTime = 0 /\ o.seeding = FALSE
    BY DEF Empty, Entry
  <2> HIDE DEF o
  <2>3. /\ [o EXCEPT !.count = n] \in Entry /\ [o EXCEPT !.count = n].tracker = t
        /\ [o EXCEPT !.count = n].count = n /\ [o EXCEPT !.count = n].seedTime = 0
        /\ [o EXCEPT !.count = n].seeding = FALSE
    BY <2>1, <2>2 DEF Entry
  <2>4. QED
    BY <2>3 DEF o
<1> HIDE DEF a, e
<1>5. n <= n /\ 0 <= sessions[a]
  BY <1>1, StatsAssumption
<1>6. e.seedTime + (IF e.seeding THEN 1 ELSE 0) <= sessions'[a]
  BY <1>2, <1>4, <1>5
<1>7. QED
  BY <1>1, <1>2, <1>3, <1>4, <1>5, <1>6, StatsStore DEF a

\* StartSeeding starts a session in the tracker's entry, or in a new one.
LEMMA StartSeedingKeeps ==
    ASSUME StatsInv, NEW h \in Hashes, NEW t \in StatTrackers, StartSeeding(h, t)
    PROVE  StatsInv'
<1> DEFINE a == <<h, t>>
           e == [EntryOf(h, t) EXCEPT !.seeding = TRUE]
<1>1. a \in TorrentAccounts /\ reported \in [TorrentAccounts -> 0..MaxReports]
      /\ sessions \in [TorrentAccounts -> 0..MaxReports]
  BY DEF TorrentAccounts, StatsInv, StatsTypes
<1>2. /\ sessions[a] < MaxReports /\ Store(h, e) /\ Uses(h, t) /\ UNCHANGED reader /\ reported' = reported
      /\ sessions' = [sessions EXCEPT ![a] = @ + 1]
  BY DEF StartSeeding
<1>3. /\ sessions' \in [TorrentAccounts -> 0..MaxReports] /\ sessions'[a] = sessions[a] + 1
      /\ \A b \in TorrentAccounts \ {a} : sessions'[b] = sessions[b]
  BY <1>1, <1>2, StatsAssumption
<1>4. /\ EntryOf(h, t) \in Entry /\ EntryOf(h, t).tracker = t
      /\ EntryOf(h, t).count <= reported[a]
      /\ EntryOf(h, t).seedTime + (IF EntryOf(h, t).seeding THEN 1 ELSE 0) <= sessions[a]
      /\ OnlyUser(h, t) => EntryOf(h, t).count = reported[a]
  BY EntryOfFacts
<1>5. /\ e \in Entry /\ e.tracker = t /\ e.count = EntryOf(h, t).count
      /\ e.seedTime = EntryOf(h, t).seedTime /\ e.seeding = TRUE
  BY <1>4 DEF Entry
<1>6. /\ sessions[a] \in Nat /\ EntryOf(h, t).seedTime \in Nat
  BY <1>1, <1>4, StatsAssumption DEF Entry
<1> HIDE DEF a, e
<1>7. e.seedTime + (IF e.seeding THEN 1 ELSE 0) <= sessions'[a]
  BY <1>3, <1>4, <1>5, <1>6
<1>8. QED
  BY <1>1, <1>2, <1>3, <1>4, <1>5, <1>7, StatsStore DEF a

\* StopSeeding counts a session that was started, once.
LEMMA StopSeedingKeeps ==
    ASSUME StatsInv, NEW h \in Hashes, NEW t \in StatTrackers, StopSeedingOf(h, t)
    PROVE  StatsInv'
<1> DEFINE a == <<h, t>>
           o == EntryOf(h, t)
           e == [o EXCEPT !.seeding = FALSE, !.seedTime = IF o.seeding THEN @ + 1 ELSE @]
<1>1. a \in TorrentAccounts /\ reported \in [TorrentAccounts -> 0..MaxReports]
      /\ sessions \in [TorrentAccounts -> 0..MaxReports]
  BY DEF TorrentAccounts, StatsInv, StatsTypes
<1>2. /\ Store(h, e) /\ Uses(h, t) /\ UNCHANGED reader /\ reported' = reported /\ sessions' = sessions
  BY DEF StopSeedingOf
<1>4. /\ o \in Entry /\ o.tracker = t
      /\ o.count <= reported[a]
      /\ o.seedTime + (IF o.seeding THEN 1 ELSE 0) <= sessions[a]
      /\ OnlyUser(h, t) => o.count = reported[a]
  BY EntryOfFacts
<1> HIDE DEF o
<1>5. /\ e \in Entry /\ e.tracker = t /\ e.count = o.count
      /\ e.seedTime = o.seedTime + (IF o.seeding THEN 1 ELSE 0) /\ e.seeding = FALSE
  <2>1. CASE o.seeding
    <3>1. e = [o EXCEPT !.seeding = FALSE, !.seedTime = o.seedTime + 1]
      BY <2>1, <1>4 DEF Entry
    <3> HIDE DEF e
    <3>2. o.count \in Nat /\ o.seedTime \in Nat /\ o.seedTime + 1 \in Nat
      BY <1>4 DEF Entry
    <3>3. e \in Entry /\ e.tracker = t /\ e.count = o.count /\ e.seedTime = o.seedTime + 1 /\ e.seeding = FALSE
      BY <3>1, <3>2, <1>4 DEF Entry
    <3>4. QED
      BY <2>1, <3>2, <3>3
  <2>2. CASE ~o.seeding
    <3>1. e = [o EXCEPT !.seeding = FALSE, !.seedTime = o.seedTime]
      BY <2>2, <1>4 DEF Entry
    <3> HIDE DEF e
    <3>2. o.count \in Nat /\ o.seedTime \in Nat /\ o.seedTime \in Nat
      BY <1>4 DEF Entry
    <3>3. e \in Entry /\ e.tracker = t /\ e.count = o.count /\ e.seedTime = o.seedTime /\ e.seeding = FALSE
      BY <3>1, <3>2, <1>4 DEF Entry
    <3>4. QED
      BY <2>2, <3>2, <3>3
  <2>3. QED
    BY <2>1, <2>2
<1>6. e.seedTime \in Nat
  BY <1>5 DEF Entry
<1> HIDE DEF a, e
<1>7. e.seedTime + (IF e.seeding THEN 1 ELSE 0) <= sessions'[a]
  BY <1>2, <1>4, <1>5, <1>6
<1>8. QED
  BY <1>1, <1>2, <1>4, <1>5, <1>7, StatsStore DEF a

\* IncrementWarning may replace another tracker's entry.
LEMMA IncrementWarningKeeps ==
    ASSUME StatsInv, NEW h \in Hashes, NEW t \in StatTrackers, IncrementWarning(h, t)
    PROVE  StatsInv'
<1>1. /\ Store(h, EntryOf(h, t)) /\ Uses(h, t) /\ UNCHANGED reader /\ reported' = reported /\ sessions' = sessions
  BY DEF IncrementWarning
<1>2. /\ reported \in [TorrentAccounts -> 0..MaxReports]
      /\ sessions \in [TorrentAccounts -> 0..MaxReports]
  BY DEF StatsInv, StatsTypes
<1>3. /\ EntryOf(h, t) \in Entry /\ EntryOf(h, t).tracker = t
      /\ EntryOf(h, t).count <= reported[<<h, t>>]
      /\ EntryOf(h, t).seedTime + (IF EntryOf(h, t).seeding THEN 1 ELSE 0) <= sessions[<<h, t>>]
      /\ OnlyUser(h, t) => EntryOf(h, t).count = reported[<<h, t>>]
  BY EntryOfFacts
<1>4. QED
  BY <1>1, <1>2, <1>3, StatsStore

\* RemoveStats takes out the entry and what was reported for it.
LEMMA RemoveStatsKeeps ==
    ASSUME StatsInv, NEW h \in Hashes, RemoveStats(h)
    PROVE  StatsInv'
<1> USE DEF StatsTypes
<1> StatsTypes
  BY DEF StatsInv
<1>s. /\ stats' \in [Hashes -> SUBSET Entry] /\ stats'[h] = {}
      /\ \A i \in Hashes \ {h} : stats'[i] = stats[i]
  BY DEF RemoveStats
<1>r. /\ reported' \in [TorrentAccounts -> 0..MaxReports]
      /\ \A a \in TorrentAccounts : reported'[a] = IF a[1] = h THEN 0 ELSE reported[a]
  BY StatsAssumption DEF RemoveStats
<1>u. UNCHANGED <<reader, sessions, users, overwritten>>
  BY DEF RemoveStats
<1>a. \A i \in Hashes, u \in StatTrackers : <<i, u>> \in TorrentAccounts /\ <<i, u>>[1] = i
  BY DEF TorrentAccounts
<1>1. StatsTypes'
  BY <1>s, <1>r, <1>u
<1>2. OneEntry'
  BY <1>s DEF StatsInv, OneEntry
<1>3. NothingTwice'
  <2> SUFFICES ASSUME NEW i \in Hashes, NEW f \in stats'[i]
               PROVE  /\ f.count <= reported'[<<i, f.tracker>>]
                      /\ f.seedTime + (IF f.seeding THEN 1 ELSE 0) <= sessions'[<<i, f.tracker>>]
    BY DEF NothingTwice
  <2>1. i # h /\ f \in stats[i] /\ f.tracker \in StatTrackers
    BY <1>s DEF Entry
  <2>2. reported'[<<i, f.tracker>>] = reported[<<i, f.tracker>>]
    BY <2>1, <1>r, <1>a
  <2>3. QED
    BY <2>1, <2>2, <1>u DEF StatsInv, NothingTwice
<1>4. UsersAreKnown'
  <2>1. ASSUME NEW i \in Hashes, NEW u \in StatTrackers, reported'[<<i, u>>] # 0 PROVE u \in users'[i]
    BY <2>1, <1>r, <1>a, <1>u DEF StatsInv, UsersAreKnown
  <2>2. QED
    BY <2>1, <1>s, <1>u DEF StatsInv, UsersAreKnown
<1>5. AllCounted'
  <2> SUFFICES ASSUME NEW i \in Hashes, NEW u \in StatTrackers, OnlyUser(i, u)
               PROVE  /\ \A f \in stats'[i] : f.count = reported'[<<i, u>>]
                      /\ stats'[i] = {} => reported'[<<i, u>>] = 0
                      /\ \A p \in Queriers : reader[p] # <<>> /\ reader[p][1] = i => reported'[<<i, u>>] = 0
    BY <1>u DEF AllCounted, OnlyUser
  <2>1. CASE i = h
    BY <2>1, <1>s, <1>r, <1>a
  <2>2. CASE i # h
    <3>1. reported'[<<i, u>>] = reported[<<i, u>>] /\ stats'[i] = stats[i]
      BY <2>2, <1>r, <1>a, <1>s
    <3>2. QED
      BY <3>1 DEF StatsInv, AllCounted
  <2>3. QED
    BY <2>1, <2>2
<1>6. QED
  BY <1>1, <1>2, <1>3, <1>4, <1>5 DEF StatsInv

\* A read that finds no entry of its tracker has still to store one: nothing was reported for
\* a tracker that is alone, or it would have found it.
LEMMA LookUpKeeps ==
    ASSUME StatsInv, NEW p \in Queriers, NEW h \in Hashes, NEW t \in StatTrackers, LookUp(p, h, t)
    PROVE  StatsInv'
<1> USE DEF StatsTypes
<1> StatsTypes
  BY DEF StatsInv
<1>a. <<h, t>> \in TorrentAccounts /\ <<h, t>>[1] = h /\ <<h, t>>[2] = t
  BY DEF TorrentAccounts
<1>g. \A e \in stats[h] : e.tracker # t
  BY DEF LookUp
<1>r. /\ reader' \in [Queriers -> {<<>>} \cup TorrentAccounts] /\ reader'[p] = <<h, t>>
      /\ \A q \in Queriers \ {p} : reader'[q] = reader[q]
  BY <1>a DEF LookUp
<1>s. /\ users' \in [Hashes -> SUBSET StatTrackers] /\ users'[h] = users[h] \cup {t}
      /\ \A i \in Hashes \ {h} : users'[i] = users[i]
  BY DEF LookUp
<1>u. UNCHANGED <<stats, reported, sessions, overwritten>>
  BY DEF LookUp
<1>1. StatsTypes'
  BY <1>r, <1>s, <1>u
<1>2. OneEntry' /\ NothingTwice'
  BY <1>u DEF StatsInv, OneEntry, NothingTwice
<1>3. UsersAreKnown'
  <2>1. \A i \in Hashes : IsFiniteSet(users'[i])
    <3>1. \A i \in Hashes : IsFiniteSet(users[i])
      BY DEF StatsInv, UsersAreKnown
    <3>2. IsFiniteSet(users[h] \cup {t})
      BY <3>1, FS_AddElement
    <3>3. QED
      BY <3>1, <3>2, <1>s
  <2>2. \A i \in Hashes : users[i] \subseteq users'[i]
    BY <1>s
  <2>3. \A i \in Hashes : \A f \in stats'[i] : f.tracker \in users'[i]
    BY <2>2, <1>u DEF StatsInv, UsersAreKnown
  <2>4. \A i \in Hashes, v \in StatTrackers : reported'[<<i, v>>] # 0 => v \in users'[i]
    BY <2>2, <1>u DEF StatsInv, UsersAreKnown
  <2>5. ASSUME NEW q \in Queriers, reader'[q] # <<>> PROVE reader'[q][2] \in users'[reader'[q][1]]
    <3>1. CASE q = p
      BY <3>1, <1>r, <1>a, <1>s
    <3>2. CASE q # p
      <4>1. reader[q] \in TorrentAccounts /\ reader'[q] = reader[q] /\ reader[q][2] \in users[reader[q][1]]
        BY <2>5, <3>2, <1>r DEF StatsInv, UsersAreKnown
      <4>2. reader[q][1] \in Hashes
        BY <4>1 DEF TorrentAccounts
      <4>3. QED
        BY <4>1, <4>2, <2>2
    <3>3. QED
      BY <3>1, <3>2
  <2>6. QED
    BY <2>1, <2>3, <2>4, <2>5 DEF UsersAreKnown
<1>4. AllCounted'
  <2> SUFFICES ASSUME NEW i \in Hashes, NEW u \in StatTrackers, OnlyUser(i, u)'
               PROVE  /\ \A f \in stats[i] : f.count = reported[<<i, u>>]
                      /\ stats[i] = {} => reported[<<i, u>>] = 0
                      /\ \A q \in Queriers : reader'[q] # <<>> /\ reader'[q][1] = i => reported[<<i, u>>] = 0
    BY <1>u DEF AllCounted
  <2>1. OnlyUser(i, u)
    BY <1>u, <1>s DEF OnlyUser
  <2>2. /\ \A f \in stats[i] : f.count = reported[<<i, u>>]
        /\ stats[i] = {} => reported[<<i, u>>] = 0
        /\ \A q \in Queriers : reader[q] # <<>> /\ reader[q][1] = i => reported[<<i, u>>] = 0
    BY <2>1 DEF StatsInv, AllCounted
  <2>3. ASSUME i = h PROVE stats[i] = {}
    <3>1. t = u
      BY <2>3, <1>s DEF OnlyUser
    <3>2. \A e \in stats[h] : e.tracker \in {u}
      BY <2>1, <2>3 DEF OnlyUser, StatsInv, UsersAreKnown
    <3>3. QED
      BY <3>1, <3>2, <2>3, <1>g
  <2>4. QED
    BY <2>2, <2>3, <1>r, <1>a
<1>5. QED
  BY <1>1, <1>2, <1>3, <1>4 DEF StatsInv

\* The empty entry goes over whatever is there by then.
LEMMA StoreEmptyKeeps ==
    ASSUME StatsInv, NEW p \in Queriers, StoreEmpty(p)
    PROVE  StatsInv'
<1> USE DEF StatsTypes
<1> StatsTypes
  BY DEF StatsInv
<1> DEFINE h == reader[p][1]
           t == reader[p][2]
<1>a. h \in Hashes /\ t \in StatTrackers /\ reader[p] = <<h, t>> /\ reader[p] # <<>>
  BY DEF StoreEmpty, TorrentAccounts
<1>b. /\ stats' = [stats EXCEPT ![h] = {Empty(t)}] /\ reader' = [reader EXCEPT ![p] = <<>>]
      /\ UNCHANGED <<reported, sessions, users, overwritten>>
  BY DEF StoreEmpty, Store
<1>c. t \in users[h]
  BY <1>a DEF StatsInv, UsersAreKnown
<1>d. \A u \in StatTrackers : OnlyUser(h, u) => reported[<<h, u>>] = 0
  BY <1>a DEF StatsInv, AllCounted
<1> HIDE DEF h, t
<1>e. Empty(t) \in Entry /\ Empty(t).tracker = t /\ Empty(t).count = 0 /\ Empty(t).seedTime = 0 /\ ~Empty(t).seeding
  BY <1>a DEF Empty, Entry
<1>f. \A i \in Hashes, u \in StatTrackers : reported[<<i, u>>] \in Nat /\ sessions[<<i, u>>] \in Nat
  <2>1. \A i \in Hashes, u \in StatTrackers : <<i, u>> \in TorrentAccounts
    BY DEF TorrentAccounts
  <2>2. \A a \in TorrentAccounts : reported[a] \in Nat /\ sessions[a] \in Nat
    BY StatsAssumption
  <2>3. QED
    BY <2>1, <2>2
<1>s. /\ stats' \in [Hashes -> SUBSET Entry] /\ stats'[h] = {Empty(t)}
      /\ \A i \in Hashes \ {h} : stats'[i] = stats[i]
  BY <1>a, <1>b, <1>e
<1>r. /\ reader' \in [Queriers -> {<<>>} \cup TorrentAccounts] /\ reader'[p] = <<>>
      /\ \A q \in Queriers \ {p} : reader'[q] = reader[q]
  BY <1>b
<1>1. StatsTypes'
  BY <1>s, <1>r, <1>b
<1>2. OneEntry'
  BY <1>s DEF StatsInv, OneEntry
<1>3. NothingTwice'
  <2> SUFFICES ASSUME NEW i \in Hashes, NEW f \in stats'[i]
               PROVE  /\ f.count <= reported[<<i, f.tracker>>]
                      /\ f.seedTime + (IF f.seeding THEN 1 ELSE 0) <= sessions[<<i, f.tracker>>]
    BY <1>b DEF NothingTwice
  <2>1. CASE i = h
    <3>1. f = Empty(t)
      BY <2>1, <1>s
    <3>2. QED
      BY <3>1, <2>1, <1>a, <1>e, <1>f
  <2>2. CASE i # h
    BY <2>2, <1>s DEF StatsInv, NothingTwice
  <2>3. QED
    BY <2>1, <2>2
<1>4. UsersAreKnown'
  <2>1. \A i \in Hashes : \A f \in stats'[i] : f.tracker \in users[i]
    BY <1>s, <1>e, <1>c DEF StatsInv, UsersAreKnown
  <2>2. \A q \in Queriers : reader'[q] # <<>> => reader'[q][2] \in users[reader'[q][1]]
    BY <1>r DEF StatsInv, UsersAreKnown
  <2>3. QED
    BY <2>1, <2>2, <1>b DEF StatsInv, UsersAreKnown
<1>5. AllCounted'
  <2> SUFFICES ASSUME NEW i \in Hashes, NEW u \in StatTrackers, OnlyUser(i, u)
               PROVE  /\ \A f \in stats'[i] : f.count = reported[<<i, u>>]
                      /\ stats'[i] = {} => reported[<<i, u>>] = 0
                      /\ \A q \in Queriers : reader'[q] # <<>> /\ reader'[q][1] = i => reported[<<i, u>>] = 0
    BY <1>b DEF AllCounted, OnlyUser
  <2>1. CASE i = h
    BY <2>1, <1>s, <1>e, <1>d
  <2>2. CASE i # h
    <3>1. /\ \A f \in stats[i] : f.count = reported[<<i, u>>]
          /\ stats[i] = {} => reported[<<i, u>>] = 0
          /\ \A q \in Queriers : reader[q] # <<>> /\ reader[q][1] = i => reported[<<i, u>>] = 0
      BY DEF StatsInv, AllCounted
    <3>2. QED
      BY <2>2, <3>1, <1>s, <1>r
  <2>3. QED
    BY <2>1, <2>2
<1>6. QED
  BY <1>1, <1>2, <1>3, <1>4, <1>5 DEF StatsInv

\* Every step on the cache keeps the invariant.
LEMMA StatsStep == StatsInv /\ [StatsNext]_statsVars => StatsInv'
<1> SUFFICES ASSUME StatsInv, [StatsNext]_statsVars PROVE StatsInv'
    OBVIOUS
<1>1. ASSUME NEW h \in Hashes, NEW t \in StatTrackers,
             \/ UpdateStats(h, t) \/ \E n \in 0..MaxReports : SetStats(h, t, n)
             \/ StartSeeding(h, t) \/ StopSeedingOf(h, t) \/ IncrementWarning(h, t)
             \/ \E p \in Queriers : LookUp(p, h, t)
      PROVE  StatsInv'
  BY <1>1, UpdateStatsKeeps, SetStatsKeeps, StartSeedingKeeps, StopSeedingKeeps, IncrementWarningKeeps, LookUpKeeps
<1>2. ASSUME NEW h \in Hashes, RemoveStats(h) PROVE StatsInv'
  BY <1>2, RemoveStatsKeeps
<1>3. ASSUME NEW p \in Queriers, StoreEmpty(p) PROVE StatsInv'
  BY <1>3, StoreEmptyKeeps
<1>4. CASE UNCHANGED statsVars
  <2>1. UNCHANGED <<stats, reader, reported, sessions, users, overwritten>>
    BY <1>4 DEF statsVars
  <2>2. StatsTypes' /\ OneEntry' /\ NothingTwice'
    BY <2>1 DEF StatsInv, StatsTypes, OneEntry, NothingTwice
  <2>3. UsersAreKnown' /\ AllCounted'
    BY <2>1 DEF StatsInv, UsersAreKnown, AllCounted, OnlyUser
  <2>4. QED
    BY <2>2, <2>3 DEF StatsInv
<1>5. QED
  BY <1>1, <1>2, <1>3, <1>4 DEF StatsNext

\* The invariant holds in every state.
LEMMA StatsInvariant == StatsSpec => []StatsInv
<1>1. QED
  BY StatsInvInit, StatsStep, PTL DEF StatsSpec

\* Two trackers use a hash
LEMMA TwoUsers ==
    ASSUME NEW S, IsFiniteSet(S), NEW a \in S, NEW b \in S, a # b
    PROVE  Cardinality(S) > 1
<1>1. {a, b} \subseteq S /\ IsFiniteSet({b})
  BY FS_Singleton
<1>2. Cardinality({b} \cup {a}) = 2
  <2>1. Cardinality({b}) = 1
    BY FS_Singleton
  <2>2. Cardinality({b} \cup {a}) = IF a \in {b} THEN Cardinality({b}) ELSE Cardinality({b}) + 1
    BY <1>1, FS_AddElement
  <2>3. QED
    BY <2>1, <2>2
<1>3. {b} \cup {a} \subseteq S
  OBVIOUS
<1>4. Cardinality({b} \cup {a}) <= Cardinality(S) /\ Cardinality(S) \in Nat
  BY <1>3, FS_Subset, FS_CardinalityType
<1>5. QED
  BY <1>2, <1>4

\* For any number of torrents, trackers and callers: an entry counts nothing twice, and it counts
\* all that was reported, unless the hash has a second tracker or somebody wrote between a
\* look-up and the store that follows it (stats.go).
THEOREM CountsOwn == StatsSpec => []CountsAreOwn
<1>1. StatsInv => CountsAreOwn
  <2> SUFFICES ASSUME StatsInv, NEW h \in Hashes, NEW e \in stats[h]
               PROVE  /\ e.count <= reported[<<h, e.tracker>>]
                      /\ e.seedTime + (IF e.seeding THEN 1 ELSE 0) <= sessions[<<h, e.tracker>>]
                      /\ e.count < reported[<<h, e.tracker>>] => Cardinality(users[h]) > 1 \/ h \in overwritten
    BY DEF CountsAreOwn
  <2>1. /\ e.count <= reported[<<h, e.tracker>>]
        /\ e.seedTime + (IF e.seeding THEN 1 ELSE 0) <= sessions[<<h, e.tracker>>]
    BY DEF StatsInv, NothingTwice
  <2>2. ASSUME e.count < reported[<<h, e.tracker>>], h \notin overwritten
        PROVE  Cardinality(users[h]) > 1
    <3>1. e \in Entry /\ e.tracker \in StatTrackers /\ e.tracker \in users[h] /\ IsFiniteSet(users[h])
      BY DEF StatsInv, StatsTypes, UsersAreKnown, Entry
    <3>2. e.count # reported[<<h, e.tracker>>]
      <4>1. e.count \in Nat
        BY <3>1 DEF Entry
      <4>2. QED
        BY <2>2, <4>1
    <3>3. ~OnlyUser(h, e.tracker)
      BY <3>1, <3>2 DEF StatsInv, AllCounted
    <3>4. PICK u \in users[h] : u # e.tracker
      BY <3>3, <2>2 DEF OnlyUser
    <3>5. QED
      BY <3>1, <3>4, TwoUsers
  <2>3. QED
    BY <2>1, <2>2
<1>2. QED
  BY <1>1, StatsInvariant, PTL

\* The invariant of the counts gives their types.
LEMMA StatsAreTyped == StatsInv => StatsTypeOK
<1> SUFFICES ASSUME StatsInv, NEW h \in Hashes
             PROVE  /\ Cardinality(stats[h]) <= 1
                    /\ stats[h] \subseteq [tracker : StatTrackers, count : 0..MaxReports,
                                              seedTime : 0..MaxReports, seeding : BOOLEAN]
  BY DEF StatsInv, StatsTypes, StatsTypeOK
<1>1. Cardinality(stats[h]) <= 1
  <2>1. CASE stats[h] = {}
    BY <2>1, FS_EmptySet
  <2>2. CASE stats[h] # {}
    <3>1. PICK e \in stats[h] : TRUE
      BY <2>2
    <3>2. stats[h] = {e}
      BY <3>1 DEF StatsInv, OneEntry
    <3>3. Cardinality({e}) = 1
      BY FS_Singleton
    <3>4. QED
      BY <3>2, <3>3
  <2>3. QED
    BY <2>1, <2>2
<1>2. ASSUME NEW e \in stats[h]
      PROVE  e \in [tracker : StatTrackers, count : 0..MaxReports, seedTime : 0..MaxReports, seeding : BOOLEAN]
  <2>1. e \in Entry
    BY DEF StatsInv, StatsTypes
  <2>2. <<h, e.tracker>> \in TorrentAccounts
    BY <2>1 DEF Entry, TorrentAccounts
  <2>3. reported[<<h, e.tracker>>] \in 0..MaxReports /\ sessions[<<h, e.tracker>>] \in 0..MaxReports
    BY <2>2 DEF StatsInv, StatsTypes
  <2>4. e.count <= reported[<<h, e.tracker>>] /\ e.seedTime + (IF e.seeding THEN 1 ELSE 0) <= sessions[<<h, e.tracker>>]
    BY DEF StatsInv, NothingTwice
  <2>5. e.count \in Nat /\ e.seedTime \in Nat
    BY <2>1 DEF Entry
  <2>6. e.count \in 0..MaxReports /\ e.seedTime \in 0..MaxReports
    BY <2>3, <2>4, <2>5, StatsAssumption
  <2>7. QED
    BY <2>1, <2>6 DEF Entry
<1>3. QED
  BY <1>1, <1>2

\* The counts are well typed, one entry to a hash, for any number of trackers.
THEOREM StatsTyped == StatsSpec => []StatsTypeOK
<1>1. QED
  BY StatsAreTyped, StatsInvariant, PTL

-----------------------------------------------------------------------------
(* The peers and the trackers together (MCTorrents).                       *)

\* Whichever component a behaviour is one of, all three are well typed.
THEOREM TorrentsTyped == TorrentsSpec => []Types
<1> DEFINE All == TorrentInv /\ SessionsInv /\ StatsInv
<1>1. TorrentsInit => All
  BY TorrentInvInit, SessionsInvInit, StatsInvInit DEF TorrentsInit
<1>2. All /\ [TorrentsNext]_torrentsVars => All'
  <2> SUFFICES ASSUME All, [TorrentsNext]_torrentsVars PROVE All'
    OBVIOUS
  <2>1. [Next]_vars /\ [SessionsNext]_sessionsVars /\ [StatsNext]_statsVars
    BY DEF TorrentsNext, torrentsVars, OneTracker, TwoTrackers
  <2>2. QED
    BY <2>1, TorrentStep, SessionsStep, StatsStep
<1>3. All => Types
  BY TorrentTypes, SessionsAreTyped, StatsAreTyped DEF Types
<1>4. QED
  BY <1>1, <1>2, <1>3, PTL DEF TorrentsSpec
=============================================================================
