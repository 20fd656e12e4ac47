------------------------- MODULE TrackerStateProofs -------------------------
(* Proofs about TrackerState for every set of peers, files and addresses. *)
EXTENDS TrackerState, TLAPS

-----------------------------------------------------------------------------
(* What one call of a member function does to well-typed maps.  The lemmas
   are about the handlers alone, for use by whoever composes them. *)

(* A registration keeps the type of both maps. *)
LEMMA RegisterTypeOK ==
    ASSUME TypeOK, NEW p \in PeerIds, NEW e \in Endpoints, register_peer(p, e)
    PROVE  TypeOK'
BY DEF TypeOK, register_peer

(* The owners of a file are pairs of a piece and a peer, known file or not. *)
LEMMA OwnersType ==
    ASSUME TypeOK, NEW f \in Filenames
    PROVE  Owners(f) \subseteq Nat \X PeerIds
<1>1. CASE Known(f)
  <2>1. files[f] \in FileInfo
    BY <1>1 DEF TypeOK, Known
  <2> QED
    BY <1>1, <2>1 DEF Owners, FileInfo
<1>2. CASE ~Known(f)
  BY <1>2 DEF Owners
<1> QED
  BY <1>1, <1>2

(* ADD_FILE with a count from PieceCounts keeps the type of both maps. *)
LEMMA AddFileTypeOK ==
    ASSUME TypeOK, NEW p \in PeerIds, NEW f \in Filenames, NEW n \in PieceCounts,
           add_file(p, f, n)
    PROVE  TypeOK'
<1> DEFINE new == Owners(f) \cup ((0 .. n - 1) \X {p})
<1>1. n \in Nat
  BY TrackerAssumption
<1>2. new \subseteq Nat \X PeerIds
  BY <1>1, OwnersType
<1>3. [piece_count |-> n, owners |-> new] \in FileInfo
  BY <1>2 DEF FileInfo
<1> QED
  BY <1>3 DEF TypeOK, add_file

(* HAVE of any piece id keeps the type of both maps. *)
LEMMA HavePieceTypeOK ==
    ASSUME TypeOK, NEW p \in PeerIds, NEW f \in Filenames, NEW i \in Int,
           have_piece(p, f, i)
    PROVE  TypeOK'
<1>1. CASE HaveAccepted(f, i) /\ files' = [files EXCEPT ![f].owners = @ \cup {<<i, p>>}]
                              /\ UNCHANGED peers
  <2>1. files[f] \in FileInfo
    BY <1>1 DEF TypeOK, HaveAccepted, Known
  <2>2. [files[f] EXCEPT !.owners = @ \cup {<<i, p>>}] \in FileInfo
    BY <1>1, <2>1 DEF FileInfo, HaveAccepted
  <2>3. files' = [files EXCEPT ![f] = [files[f] EXCEPT !.owners = @ \cup {<<i, p>>}]]
    BY <1>1
  <2> QED
    BY <1>1, <2>2, <2>3 DEF TypeOK
<1>2. CASE UNCHANGED tvars
  BY <1>2 DEF TypeOK, tvars
<1> QED
  BY <1>1, <1>2 DEF have_piece

(* TypeOK, for every instance. *)
THEOREM TypeCorrect == TrackerSpec => []TypeOK
<1>1. Init => TypeOK
  BY DEF Init, TypeOK
<1>2. TypeOK /\ [Request]_tvars => TypeOK'
  <2> SUFFICES ASSUME TypeOK, [Request]_tvars PROVE TypeOK'
    OBVIOUS
  <2>1. ASSUME NEW p \in PeerIds, NEW e \in Endpoints, register_peer(p, e) PROVE TypeOK'
    BY <2>1, RegisterTypeOK
  <2>2. ASSUME NEW p \in PeerIds, NEW f \in Filenames, NEW n \in PieceCounts,
               add_file(p, f, n)
        PROVE  TypeOK'
    BY <2>2, AddFileTypeOK
  <2>3. ASSUME NEW p \in PeerIds, NEW f \in Filenames, NEW n \in PieceCounts,
               NEW i \in -1 .. n, have_piece(p, f, i)
        PROVE  TypeOK'
    <3>1. i \in Int
      BY TrackerAssumption
    <3> QED
      BY <2>3, <3>1, HavePieceTypeOK
  <2>4. CASE UNCHANGED tvars
    BY <2>4 DEF TypeOK, tvars
  <2> QED
    BY <2>1, <2>2, <2>3, <2>4 DEF Request
<1> QED
  BY <1>1, <1>2, PTL DEF TrackerSpec

-----------------------------------------------------------------------------
(* A call of add_file leaves every piece of every file with an owner. *)
LEMMA AddFileKeepsOwned ==
    ASSUME TypeOK, EveryPieceHasOwner,
           NEW p \in PeerIds, NEW f \in Filenames, NEW n \in PieceCounts, add_file(p, f, n)
    PROVE  EveryPieceHasOwner'
<1> SUFFICES ASSUME NEW g \in Filenames, Known(g)', NEW i \in 0 .. files'[g].piece_count - 1
             PROVE  \E q \in PeerIds : <<i, q>> \in files'[g].owners
  BY DEF EveryPieceHasOwner
<1>1. CASE g = f
  <2>1. files'[g] = [piece_count |-> n, owners |-> Owners(f) \cup ((0 .. n - 1) \X {p})]
    BY <1>1 DEF add_file, TypeOK
  <2>2. <<i, p>> \in files'[g].owners
    BY <2>1
  <2> QED
    BY <2>2
<1>2. CASE g # f
  BY <1>2 DEF add_file, TypeOK, EveryPieceHasOwner, Known
<1> QED
  BY <1>1, <1>2

(* A call of have_piece adds one owner at most and keeps the piece count. *)
LEMMA HavePieceKeepsOwned ==
    ASSUME TypeOK, EveryPieceHasOwner,
           NEW p \in PeerIds, NEW f \in Filenames, NEW i \in Int, have_piece(p, f, i)
    PROVE  EveryPieceHasOwner'
<1>1. CASE HaveAccepted(f, i) /\ files' = [files EXCEPT ![f].owners = @ \cup {<<i, p>>}]
  <2>1. files[f] \in FileInfo
    BY <1>1 DEF TypeOK, HaveAccepted, Known
  <2>2. /\ files'[f].piece_count = files[f].piece_count
        /\ files[f].owners \subseteq files'[f].owners
    BY <1>1, <2>1 DEF TypeOK, FileInfo
  <2>3. \A g \in Filenames : g # f => files'[g] = files[g]
    BY <1>1 DEF TypeOK
  <2> QED
    BY <1>1, <2>2, <2>3 DEF EveryPieceHasOwner, Known, HaveAccepted
<1>2. CASE UNCHANGED tvars
  BY <1>2 DEF EveryPieceHasOwner, Known, tvars
<1> QED
  BY <1>1, <1>2 DEF have_piece

(* EveryPieceHasOwner, for every instance: the invariant is inductive as it
   stands once the maps are known to be well typed. *)
THEOREM EveryPieceOwned == TrackerSpec => []EveryPieceHasOwner
<1>1. Init => EveryPieceHasOwner
  BY DEF Init, EveryPieceHasOwner, Known
<1>2. TypeOK /\ EveryPieceHasOwner /\ [Request]_tvars => EveryPieceHasOwner'
  <2> SUFFICES ASSUME TypeOK, EveryPieceHasOwner, [Request]_tvars PROVE EveryPieceHasOwner'
    OBVIOUS
  <2>1. ASSUME NEW p \in PeerIds, NEW e \in Endpoints, register_peer(p, e)
        PROVE  EveryPieceHasOwner'
    BY <2>1 DEF register_peer, EveryPieceHasOwner, Known
  <2>2. ASSUME NEW p \in PeerIds, NEW f \in Filenames, NEW n \in PieceCounts,
               add_file(p, f, n)
        PROVE  EveryPieceHasOwner'
    BY <2>2, AddFileKeepsOwned
  <2>3. ASSUME NEW p \in PeerIds, NEW f \in Filenames, NEW n \in PieceCounts,
               NEW i \in -1 .. n, have_piece(p, f, i)
        PROVE  EveryPieceHasOwner'
    <3>1. i \in Int
      BY TrackerAssumption
    <3> QED
      BY <2>3, <3>1, HavePieceKeepsOwned
  <2>4. CASE UNCHANGED tvars
    BY <2>4 DEF EveryPieceHasOwner, Known, tvars
  <2> QED
    BY <2>1, <2>2, <2>3, <2>4 DEF Request
<1> QED
  BY <1>1, <1>2, TypeCorrect, PTL DEF TrackerSpec

-----------------------------------------------------------------------------
(* No call unregisters a peer or forgets an owner. *)
LEMMA NothingForgotten ==
    ASSUME TypeOK, Request
    PROVE  /\ Registered \subseteq Registered'
           /\ \A f \in Filenames : Owners(f) \subseteq Owners(f)'
<1>1. ASSUME NEW p \in PeerIds, NEW e \in Endpoints, register_peer(p, e)
      PROVE  /\ Registered \subseteq Registered'
             /\ \A f \in Filenames : Owners(f) \subseteq Owners(f)'
  <2>1. e # NoEndpoint
    BY TrackerAssumption
  <2>2. Registered \subseteq Registered'
    BY <1>1, <2>1 DEF register_peer, Registered, TypeOK
  <2>3. files' = files
    BY <1>1 DEF register_peer
  <2> QED
    BY <2>2, <2>3 DEF Owners, Known
<1>2. ASSUME NEW p \in PeerIds, NEW f \in Filenames, NEW n \in PieceCounts, add_file(p, f, n)
      PROVE  /\ Registered \subseteq Registered'
             /\ \A g \in Filenames : Owners(g) \subseteq Owners(g)'
  <2> DEFINE new == Owners(f) \cup ((0 .. n - 1) \X {p})
  <2>1. files'[f] = [piece_count |-> n, owners |-> new]
    BY <1>2 DEF add_file, TypeOK
  <2>2. files'[f] \in FileInfo
    BY <1>2, AddFileTypeOK, <2>1, OwnersType, TrackerAssumption DEF FileInfo
  <2>3. Known(f)'
    BY <2>2, TrackerAssumption DEF Known
  <2>4. Owners(f)' = new
    BY <2>1, <2>3 DEF Owners
  <2>5. \A g \in Filenames : g # f => Owners(g)' = Owners(g)
    BY <1>2 DEF add_file, TypeOK, Owners, Known
  <2>6. Registered' = Registered
    BY <1>2 DEF add_file, Registered
  <2> QED
    BY <2>4, <2>5, <2>6
<1>3. ASSUME NEW p \in PeerIds, NEW f \in Filenames, NEW n \in PieceCounts,
             NEW i \in -1 .. n, have_piece(p, f, i)
      PROVE  /\ Registered \subseteq Registered'
             /\ \A g \in Filenames : Owners(g) \subseteq Owners(g)'
  <2>1. CASE HaveAccepted(f, i) /\ files' = [files EXCEPT ![f].owners = @ \cup {<<i, p>>}]
                                /\ UNCHANGED peers
    <3>1. files[f] \in FileInfo
      BY <2>1 DEF TypeOK, HaveAccepted, Known
    <3>2. files'[f] \in FileInfo /\ files[f].owners \subseteq files'[f].owners
      BY <2>1, <3>1, TrackerAssumption DEF TypeOK, FileInfo, HaveAccepted
    <3>3. Known(f) /\ Known(f)'
      BY <3>1, <3>2, TrackerAssumption DEF Known
    <3>4. Owners(f) \subseteq Owners(f)'
      BY <3>2, <3>3 DEF Owners
    <3>5. \A g \in Filenames : g # f => Owners(g)' = Owners(g)
      BY <2>1 DEF TypeOK, Owners, Known
    <3>6. Registered' = Registered
      BY <2>1 DEF Registered
    <3> QED
      BY <3>4, <3>5, <3>6
  <2>2. CASE UNCHANGED tvars
    BY <2>2 DEF tvars, Registered, Owners, Known
  <2> QED
    BY <1>3, <2>1, <2>2 DEF have_piece
<1> QED
  BY <1>1, <1>2, <1>3 DEF Request

(* QueryGrows, for every instance. *)
THEOREM QueriesGrow == TrackerSpec => QueryGrows
<1> DEFINE Grows == \A f \in Filenames :
                      \A p \in DOMAIN query(f) : /\ p \in DOMAIN query(f)'
                                                 /\ query(f)[p] \subseteq query(f)'[p]
<1>1. TypeOK /\ [Request]_tvars => [Grows]_tvars
  <2> SUFFICES ASSUME TypeOK, Request PROVE Grows
    OBVIOUS
  <2>1. /\ Registered \subseteq Registered'
        /\ \A f \in Filenames : Owners(f) \subseteq Owners(f)'
    BY NothingForgotten
  <2> SUFFICES ASSUME NEW f \in Filenames, NEW p \in DOMAIN query(f)
               PROVE  /\ p \in DOMAIN query(f)'
                      /\ query(f)[p] \subseteq query(f)'[p]
    OBVIOUS
  <2>2. p \in Registered /\ p \in {o[2] : o \in Owners(f)}
    BY DEF query
  <2>3. p \in Registered' /\ p \in {o[2] : o \in Owners(f)'}
    BY <2>1, <2>2
  <2>4. p \in DOMAIN query(f)'
    BY <2>3 DEF query
  <2>5. /\ query(f)[p] = {o[1] : o \in {x \in Owners(f) : x[2] = p}}
        /\ query(f)'[p] = {o[1] : o \in {x \in Owners(f)' : x[2] = p}}
    BY <2>2, <2>3 DEF query
  <2> QED
    BY <2>1, <2>4, <2>5
<1> QED
  BY <1>1, TypeCorrect, PTL DEF TrackerSpec, QueryGrows
=============================================================================
