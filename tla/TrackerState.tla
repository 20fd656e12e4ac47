---------------------------- MODULE TrackerState ----------------------------
(***************************************************************************)
(* The tracker of P2P_Project/cpp_version: class TrackerState and the      *)
(* commands of tracker.cpp that call it.                                   *)
(*                                                                         *)
(* Every member function holds the one mutex for its whole body, so each   *)
(* call is one atomic step whatever the number of handle_client threads.   *)
(* An absent key of the maps `peers` and `files` is NoEndpoint / NoInfo;   *)
(* piece_owners (map<int, set<string>>) is the set of its <<piece, peer>>  *)
(* pairs.  filesize and piece_size are stored and sent back but decide     *)
(* nothing, here or in a peer, and are left out.                           *)
(***************************************************************************)
EXTENDS Integers, FiniteSets

CONSTANTS PeerIds,      \* the peer ids that requests carry
          Filenames,    \* the file names that requests carry
          Endpoints,    \* "ip port" pairs
          PieceCounts,  \* the piece counts that ADD_FILE requests carry
          NoEndpoint,   \* a peer id that `peers` does not hold
          NoInfo        \* a file name that `files` does not hold

VARIABLES peers,        \* TrackerState::peers
          files         \* TrackerState::files

tvars == <<peers, files>>

FileInfo == [piece_count : PieceCounts, owners : SUBSET (Nat \X PeerIds)]

ASSUME TrackerAssumption == /\ PieceCounts \subseteq Nat
                            /\ NoEndpoint \notin Endpoints
                            /\ NoInfo \notin FileInfo

Registered == {p \in PeerIds : peers[p] # NoEndpoint}
Known(f) == files[f] # NoInfo
Owners(f) == IF Known(f) THEN files[f].owners ELSE {}

-----------------------------------------------------------------------------
Init == /\ peers = [p \in PeerIds |-> NoEndpoint]
        /\ files = [f \in Filenames |-> NoInfo]

(* REGISTER: a second registration of an id replaces its address. *)
register_peer(p, e) == /\ peers' = [peers EXCEPT ![p] = e]
                       /\ UNCHANGED files

(* Mutant: a fresh record replaces the old one, owners included. *)
add_file_forgets_owners(p, f, n) ==
    /\ files' = [files EXCEPT ![f] = [piece_count |-> n, owners |-> (0 .. n - 1) \X {p}]]
    /\ UNCHANGED peers

(* Mutant: the caller joins the owners of all pieces but the last. *)
add_file_off_by_one(p, f, n) ==
    /\ files' = [files EXCEPT ![f] =
                    [piece_count |-> n, owners |-> Owners(f) \cup ((0 .. n - 2) \X {p})]]
    /\ UNCHANGED peers

(* Mutant: the loop over the pieces starts at -1. *)
add_file_bad_record(p, f, n) ==
    /\ files' = [files EXCEPT ![f] =
                    [piece_count |-> n, owners |-> Owners(f) \cup (((-1) .. n - 1) \X {p})]]
    /\ UNCHANGED peers

(* ADD_FILE: operator[] creates the entry or finds the old one; the piece
   count is overwritten, the caller joins the owners of the pieces 0 .. n-1,
   and no owner is ever removed. *)
add_file(p, f, n) ==
    /\ files' = [files EXCEPT ![f] =
                    [piece_count |-> n,
                     owners      |-> Owners(f) \cup ((0 .. n - 1) \X {p})]]
    /\ UNCHANGED peers

(* HAVE is refused for an unknown file and for a piece id out of range. *)
HaveAccepted(f, i) == Known(f) /\ 0 <= i /\ i < files[f].piece_count

have_piece(p, f, i) ==
    \/ /\ HaveAccepted(f, i)
       /\ files' = [files EXCEPT ![f].owners = @ \cup {<<i, p>>}]
       /\ UNCHANGED peers
    \/ /\ ~HaveAccepted(f, i)
       /\ UNCHANGED tvars

(* The lines after the header of a QUERY reply: the registered owners, each
   with the pieces it is recorded for (those beyond piece_count included). *)
query(f) == [p \in Registered \cap {o[2] : o \in Owners(f)} |->
                {o[1] : o \in {x \in Owners(f) : x[2] = p}}]

(* One client request; what a client may send does not depend on the state. *)
Request == \/ \E p \in PeerIds, e \in Endpoints : register_peer(p, e)
           \/ \E p \in PeerIds, f \in Filenames, n \in PieceCounts : add_file(p, f, n)
           \/ \E p \in PeerIds, f \in Filenames, n \in PieceCounts :
                    \E i \in -1 .. n : have_piece(p, f, i)

TrackerSpec == Init /\ [][Request]_tvars

-----------------------------------------------------------------------------
(* TypeOK: the two maps hold registrations and file records only. *)
TypeOK == /\ peers \in [PeerIds -> Endpoints \cup {NoEndpoint}]
          /\ files \in [Filenames -> FileInfo \cup {NoInfo}]

(* Every piece that the tracker says a file has was announced by someone:
   add_file sets the count and the owners of all its pieces together, and a
   later count always comes with owners for the pieces it adds. *)
EveryPieceHasOwner ==
    \A f \in Filenames : Known(f) =>
        \A i \in 0 .. files[f].piece_count - 1 : \E p \in PeerIds : <<i, p>> \in files[f].owners

(* What QUERY answers for a file never loses a source or a piece of one
   (whole files, single pieces, smaller versions and new addresses are added
   to what is known): a peer that was told of a source is never contradicted. *)
QueryGrows ==
    [][\A f \in Filenames :
          \A p \in DOMAIN query(f) : /\ p \in DOMAIN query(f)'
                                     /\ query(f)[p] \subseteq query(f)'[p]]_tvars
=============================================================================
