--------------------------- MODULE MCTorrentPeers ---------------------------
\* Instances of TorrentPeers for TLC.
EXTENDS TorrentPeers, TLC

CONSTANTS a1, a2, c1, c2, c3

\* One piece of three bytes in two blocks, the last one short; the second file starts
\* inside the piece.
PieceOfTwoFiles == <<1, 2>>
SharedAddress == c1 :> a1 @@ c2 :> a1 @@ c3 :> a2
=============================================================================
