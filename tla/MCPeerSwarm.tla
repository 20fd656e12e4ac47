----------------------------- MODULE MCPeerSwarm -----------------------------
EXTENDS PeerSwarm
CONSTANTS v1, v2
MCPieces == [v \in Versions |-> IF v = v1 THEN 2 ELSE 1]
=============================================================================
