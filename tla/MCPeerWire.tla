----------------------------- MODULE MCPeerWire -----------------------------
EXTENDS PeerWire

\* A message without payload, the have of piece 1, and a block of one byte.
MCMessages == {Unchoke, [type |-> 4, payload |-> <<0, 0, 0, 1>>],
               [type |-> 7, payload |-> <<0, 0, 0, 1, 0, 0, 0, 0, 7>>]}
=============================================================================
