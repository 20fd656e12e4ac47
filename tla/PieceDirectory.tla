--------------------------- MODULE PieceDirectory ---------------------------
(***************************************************************************)
(* What the piece-sharing systems of P2P_Project promise, with no          *)
(* processes, files or messages: who holds which piece, and what the       *)
(* directory lists.  PeerSwarm (cpp_version) implements it for as long as  *)
(* its peers only add, download by pieces, quit and come back, and         *)
(* trackers are restarted; WholeFileSwarm (python_version), whose files    *)
(* have one piece, always does.                                            *)
(***************************************************************************)
CONSTANTS Peers,      \* the peers
          Seeds,      \* the peers that have the file from outside
          PieceIds    \* the pieces of the file

VARIABLES held,       \* <<piece, peer>>: the peer would serve the piece
          listed      \* <<piece, peer>>: the directory says that it would

dvars == <<held, listed>>

Init == held = {} /\ listed = {}

(* A piece enters the system at a seed only ... *)
Publish(p, i) == /\ p \in Seeds
                 /\ held' = held \cup {<<i, p>>}
                 /\ UNCHANGED listed

(* ... and reaches a peer from one that holds it. *)
Acquire(p, i) == /\ \E q \in Peers : <<i, q>> \in held
                 /\ held' = held \cup {<<i, p>>}
                 /\ UNCHANGED listed

(* The directory lists a peer for pieces that it holds. *)
List(p, S) == /\ S \X {p} \subseteq held
              /\ listed' = listed \cup (S \X {p})
              /\ UNCHANGED held

(* It may lose everything it knows, and then relies on the peers again. *)
Forget == listed' = {} /\ UNCHANGED held

Next == \/ \E p \in Peers, i \in PieceIds : Publish(p, i) \/ Acquire(p, i)
        \/ \E p \in Peers, S \in SUBSET PieceIds : List(p, S)
        \/ Forget

Spec == Init /\ [][Next]_dvars

-----------------------------------------------------------------------------
TypeOK == /\ held \subseteq PieceIds \X Peers
          /\ listed \subseteq held

(* No piece is held before a seed has published it: it has a holder among
   the seeds, and seeds do not lose pieces. *)
FromSeeds == \A o \in held : \E q \in Seeds : <<o[1], q>> \in held

(* Whatever the directory lists can be had from a seed: the two together. *)
ListedAtSeed == \A o \in listed : \E q \in Seeds : <<o[1], q>> \in held
=============================================================================
