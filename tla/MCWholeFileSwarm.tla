--------------------------- MODULE MCWholeFileSwarm ---------------------------
(* Two peers, one of whose users has the file. *)
EXTENDS WholeFileSwarm
=============================================================================
