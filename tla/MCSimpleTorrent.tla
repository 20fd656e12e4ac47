--------------------------- MODULE MCSimpleTorrent ---------------------------
(* Three peers, one or two of which start with the file. *)
EXTENDS SimpleTorrent
=============================================================================
