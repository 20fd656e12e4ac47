--------------------------- MODULE MCTrackerState ---------------------------
(* The tracker alone, under requests of every kind in any order. *)
EXTENDS TrackerState

MCPieceCounts == 1 .. 2
=============================================================================
