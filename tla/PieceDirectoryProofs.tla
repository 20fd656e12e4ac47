------------------------ MODULE PieceDirectoryProofs ------------------------
(* What PieceDirectory promises, for every set of peers, seeds and pieces. *)
EXTENDS PieceDirectory, TLAPS

LEMMA InitInv == Init => TypeOK /\ FromSeeds
BY DEF Init, TypeOK, FromSeeds

LEMMA TypeStep == TypeOK /\ [Next]_dvars => TypeOK'
<1> SUFFICES ASSUME TypeOK, [Next]_dvars PROVE TypeOK'
  OBVIOUS
<1>1. ASSUME NEW p \in Peers, NEW i \in PieceIds, Publish(p, i) \/ Acquire(p, i) PROVE TypeOK'
  BY <1>1 DEF TypeOK, Publish, Acquire
<1>2. ASSUME NEW p \in Peers, NEW S \in SUBSET PieceIds, List(p, S) PROVE TypeOK'
  BY <1>2 DEF TypeOK, List
<1>3. CASE Forget \/ UNCHANGED dvars
  BY <1>3 DEF TypeOK, Forget, dvars
<1> QED
  BY <1>1, <1>2, <1>3 DEF Next

(* The directory lists a peer only for a piece that the peer holds: List says
   so of one step, and no step takes a piece from a peer. *)
LEMMA ListedIsHeld == Spec => []TypeOK
BY InitInv, TypeStep, PTL DEF Spec

LEMMA SeedsStep == FromSeeds /\ [Next]_dvars => FromSeeds'
<1> SUFFICES ASSUME FromSeeds, [Next]_dvars PROVE FromSeeds'
  OBVIOUS
<1>1. ASSUME NEW p \in Peers, NEW i \in PieceIds, Publish(p, i) PROVE FromSeeds'
  BY <1>1 DEF FromSeeds, Publish
<1>2. ASSUME NEW p \in Peers, NEW i \in PieceIds, Acquire(p, i) PROVE FromSeeds'
  <2>1. PICK q \in Peers : <<i, q>> \in held
    BY <1>2 DEF Acquire
  <2>2. PICK s \in Seeds : <<i, s>> \in held
    BY <2>1 DEF FromSeeds
  <2> QED
    BY <1>2, <2>2 DEF FromSeeds, Acquire
<1>3. ASSUME NEW p \in Peers, NEW S \in SUBSET PieceIds, List(p, S) PROVE FromSeeds'
  BY <1>3 DEF FromSeeds, List
<1>4. CASE Forget \/ UNCHANGED dvars
  BY <1>4 DEF FromSeeds, Forget, dvars
<1> QED
  BY <1>1, <1>2, <1>3, <1>4 DEF Next

(* A piece that anyone holds is still held by a seed: downloads only copy. *)
THEOREM HeldBySeeds == Spec => []FromSeeds
BY InitInv, SeedsStep, PTL DEF Spec

(* A piece that the directory lists, of whatever peer, is at one of the seeds:
   a reader of the directory that finds the listed peers gone has a seed left. *)
COROLLARY ListedPiecesAtSeeds == Spec => []ListedAtSeed
<1>1. TypeOK /\ FromSeeds => ListedAtSeed
  BY DEF TypeOK, FromSeeds, ListedAtSeed
<1> QED
  BY <1>1, ListedIsHeld, HeldBySeeds, PTL
=============================================================================
