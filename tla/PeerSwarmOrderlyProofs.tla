----------------------- MODULE PeerSwarmOrderlyProofs -----------------------
(* Proofs about PeerSwarm for orderly workloads: whoever the tracker lists for
   a piece answers with that piece, also while files are written, and only the
   whole original is announced.  For every set of peers and seeds, every size
   of the original and every number of commands and stops. *)
EXTENDS PeerSwarmProofs, FiniteSetTheorems

-----------------------------------------------------------------------------
(* The original and its pieces *)

LEMMA OneVersion ==
    ASSUME Orderly, NEW v \in Versions
    PROVE  Data(v) = Original
BY DEF Orderly, Original

LEMMA OriginalType ==
    ASSUME Orderly
    PROVE  /\ \E v \in Versions : Original = Data(v)
           /\ Original \in Content
           /\ Len(Original) \in Nat
           /\ Count = IF Len(Original) < 1 THEN 1 ELSE Len(Original)
           /\ Count \in Nat
<1>1. PICK v \in Versions : Versions = {v}
  BY DEF Orderly
<1>2. Original = Data(v)
  BY <1>1, OneVersion
<1>3. Original \in Content
  BY <1>2, DataType
<1>4. Len(Original) \in Nat
  BY <1>3 DEF Content
<1> QED
  BY <1>2, <1>3, <1>4 DEF Count, PieceCount

LEMMA PieceType ==
    ASSUME Orderly, NEW i \in Nat
    PROVE  /\ Piece(i) \in Content
           /\ i < Len(Original) => Piece(i) = <<Original[i + 1]>>
           /\ ~(i < Len(Original)) => Piece(i) = <<>>
<1>1. i \in Requests /\ i # Whole
  BY DEF Requests, Whole
<1> QED
  BY <1>1, OriginalType, PieceAtType DEF Piece, PieceAt

(* A file that has the original's length and chunks is the original. *)
LEMMA SameContent ==
    ASSUME NEW c \in Content, NEW d \in Content, Len(c) = Len(d),
           \A k \in 1 .. Len(d) : c[k] = d[k]
    PROVE  c = d
BY SeqEqual DEF Content

(* A read of a piece into a buffer of its size is the piece. *)
LEMMA FitWhole ==
    ASSUME NEW c \in Content
    PROVE  Fit(c, Len(c)) = c
<1>1. Len(c) \in Nat
  BY DEF Content
<1>2. Fit(c, Len(c)) \in Content
  BY <1>1, FitType
<1>3. Len(Fit(c, Len(c))) = Len(c) /\ \A k \in 1 .. Len(c) : Fit(c, Len(c))[k] = c[k]
  BY <1>1 DEF Fit
<1> QED
  BY <1>2, <1>3, SameContent

-----------------------------------------------------------------------------
(* What the invariant says of one peer, and of all steps together *)
Own(p) == SharedAt(p) /\ DownloadsAt(p) /\ PartsAt(p) /\ LoopAt(p) /\ JobsAt(p)
IInv == SwarmInv /\ OrderlyInv

LEMMA Parts == OrderlyInv <=> (\A p \in Peers : Own(p)) /\ ListedServe
BY DEF OrderlyInv, Own

(* No request is for the whole file. *)
LEMMA JobsArePieces ==
    ASSUME IInv, NEW p \in Peers, NEW i \in DOMAIN jobs[p]
    PROVE  i \in Nat /\ jobs[p][i] \in Job /\ jobs[p][i].src \in Peers
<1>1. pc[p] # "fetching"
  BY DEF IInv, OrderlyInv, LoopAt
<1>2. i \in Nat
  BY <1>1 DEF IInv, SwarmInv, JobsAwaited
<1>3. jobs[p][i] \in Job
  BY DEF IInv, SwarmInv, TypeOK, JobsOK
<1> QED
  BY <1>2, <1>3 DEF Job

(* The local file, the one under shared/ when there is one, is not being
   written, or complete already: then it is whole. *)
Settled(p) == /\ pc[p] = "copying" => todo[p] = <<>>
              /\ pc[p] = "assemble" /\ disk[p]["shared"] = NoFile => at[p] = want[p]

LEMMA SharedWhole ==
    ASSUME Orderly, IInv, NEW p \in Peers, Settled(p), disk[p]["shared"] # NoFile
    PROVE  disk[p]["shared"] = Original
<1>1. disk[p]["shared"] \in Content
  BY DEF IInv, SwarmInv, TypeOK, StoreOK, Dirs
<1>2. disk[p]["shared"] \o <<>> = disk[p]["shared"]
  BY <1>1, ConcatEmptySeq DEF Content
<1> QED
  BY <1>2 DEF Settled, IInv, OrderlyInv, SharedAt

LEMMA AssembledWhole ==
    ASSUME Orderly, IInv, NEW p \in Peers, Settled(p),
           disk[p]["downloads"] # NoFile, disk[p]["shared"] = NoFile
    PROVE  disk[p]["downloads"] = Original
<1>1. disk[p]["downloads"] \in Content
  BY DEF IInv, SwarmInv, TypeOK, StoreOK, Dirs
<1>2. pc[p] = "assemble" => at[p] = Count
  BY DEF Settled, IInv, OrderlyInv, LoopAt
<1>3. ~(pc[p] = "assemble" /\ at[p] < Len(Original))
  BY <1>2, OriginalType
<1>4. Assembled(p)
  BY DEF IInv, OrderlyInv, DownloadsAt
<1> QED
  BY <1>1, <1>3, <1>4, OriginalType, SameContent DEF Assembled

LEMMA LocalWhole ==
    ASSUME Orderly, IInv, NEW p \in Peers, Settled(p), HasLocal(p)
    PROVE  LocalContent(p) = Original
<1>1. CASE disk[p]["shared"] # NoFile
  BY <1>1, SharedWhole DEF LocalContent, LocalDir
<1>2. CASE disk[p]["shared"] = NoFile
  <2>1. disk[p]["downloads"] # NoFile
    BY <1>2 DEF HasLocal, Dirs
  <2> QED
    BY <1>2, <2>1, AssembledWhole DEF LocalContent, LocalDir
<1> QED
  BY <1>1, <1>2

(* A peer with a whole file serves each of its pieces. *)
LEMMA LocalServes ==
    ASSUME Orderly, IInv, NEW p \in Peers, Settled(p), HasLocal(p), NEW i \in 0 .. Count - 1,
           pc[p] # "writing part"
    PROVE  Serves(p, i)
<1>1. \A k \in DOMAIN parts[p] : parts[p][k] = Piece(k)
  BY DEF IInv, OrderlyInv, PartsAt, Writing
<1>2. CASE disk[p]["shared"] # NoFile
  BY <1>1, <1>2, SharedWhole DEF Serves
<1>3. CASE disk[p]["shared"] = NoFile
  <2>1. i \in DOMAIN parts[p]
    BY <1>3 DEF HasLocal, Dirs, IInv, OrderlyInv, DownloadsAt
  <2> QED
    BY <1>1, <2>1 DEF Serves
<1> QED
  BY <1>2, <1>3

(* What a peer that serves a piece answers to GET_PIECE. *)
LEMMA ServesServed ==
    ASSUME Orderly, IInv, NEW p \in Peers, NEW i \in Nat, Serves(p, i)
    PROVE  Served(p, i) = Piece(i)
<1>1. CASE i \in DOMAIN parts[p]
  BY <1>1 DEF Serves, Served
<1>2. CASE i \notin DOMAIN parts[p]
  <2>1. disk[p]["shared"] = Original
    BY <1>2 DEF Serves
  <2>2. Original # NoFile
    BY OriginalType, ContentExists
  <2> QED
    BY <1>2, <2>1, <2>2 DEF Served, HasLocal, LocalContent, LocalDir, Dirs, Piece
<1> QED
  BY <1>1, <1>2

-----------------------------------------------------------------------------
(* What a step leaves alone *)

SameState(q) == /\ pc'[q] = pc[q] /\ todo'[q] = todo[q] /\ want'[q] = want[q] /\ at'[q] = at[q]
                /\ disk'[q] = disk[q] /\ parts'[q] = parts[q] /\ jobs'[q] = jobs[q]

(* Whoever serves a piece goes on to serve it, and whole files stay. *)
Stable == \A q \in Peers : /\ \A i \in Nat : Serves(q, i) => Serves(q, i)'
                           /\ disk[q]["shared"] = Original => disk'[q]["shared"] = Original

LEMMA OtherPeer ==
    ASSUME IInv, NEW q \in Peers, SameState(q), Stable
    PROVE  Own(q)'
<1>1. Own(q)
  BY DEF IInv, Parts, OrderlyInv, Own
<1>2. SharedAt(q)' /\ DownloadsAt(q)' /\ LoopAt(q)'
  BY <1>1 DEF Own, SameState, SharedAt, DownloadsAt, Assembled, LoopAt
<1>3. PartsAt(q)'
  <2>1. at[q] \in Nat
    BY DEF IInv, SwarmInv, TypeOK, ThreadsOK
  <2>2. \A i \in Nat : (\E s \in Peers : Serves(s, i)) => \E s \in Peers : Serves(s, i)'
    BY DEF Stable
  <2>3. at'[q] = at[q]
    BY DEF SameState
  <2> QED
    BY <1>1, <2>1, <2>2, <2>3 DEF Own, SameState, PartsAt, Writing, Serves
<1>4. JobsAt(q)'
  <2> SUFFICES ASSUME NEW i \in DOMAIN jobs[q]
               PROVE  /\ i < Count /\ i \notin DOMAIN parts'[q] /\ ~HasLocal(q)'
                      /\ Serves(jobs[q][i].src, i)'
                      /\ jobs[q][i].phase = "serving" =>
                           IF jobs[q][i].path = "part" THEN jobs[q][i].size = Len(Piece(i))
                           ELSE /\ jobs[q][i].path = "shared"
                                /\ disk'[jobs[q][i].src]["shared"] = Original
                      /\ jobs[q][i].phase = "done" => jobs[q][i].data = Piece(i)
    BY DEF JobsAt, SameState, Serves
  <2>1. i \in Nat /\ jobs[q][i].src \in Peers
    BY JobsArePieces
  <2>2. HasLocal(q)' <=> HasLocal(q)
    BY DEF HasLocal, SameState
  <2>3. Serves(jobs[q][i].src, i) => Serves(jobs[q][i].src, i)'
    BY <2>1 DEF Stable, SameState, Serves
  <2>4. disk[jobs[q][i].src]["shared"] = Original => disk'[jobs[q][i].src]["shared"] = Original
    BY <2>1 DEF Stable
  <2> QED
    BY <1>1, <2>2, <2>3, <2>4 DEF Own, JobsAt, SameState
<1> QED
  BY <1>2, <1>3, <1>4 DEF Own

(* A step of peer p, or of an upload to it *)
LEMMA PeerStepOrderly ==
    ASSUME IInv, NEW p \in Peers, \A q \in Peers : q # p => SameState(q), Stable,
           Own(p)', ListedServe'
    PROVE  OrderlyInv'
<1>1. \A q \in Peers : Own(q)'
  BY OtherPeer
<1> QED
  BY <1>1 DEF OrderlyInv, Own

LEMMA ListedKept ==
    ASSUME IInv, UNCHANGED tracker, Stable
    PROVE  ListedServe'
<1>1. Tracker!Owners(TheFile)' = Tracker!Owners(TheFile)
  BY DEF tracker, Tracker!Owners, Tracker!Known
<1>2. ASSUME NEW o \in Tracker!Owners(TheFile)
      PROVE  o[1] < Count /\ Serves(o[2], o[1])'
  <2>1. o[1] \in Nat /\ o[2] \in Peers
    BY <1>2, OwnersType DEF IInv, SwarmInv, TypeOK, TrackerOK
  <2>2. o[1] < Count /\ Serves(o[2], o[1])
    BY <1>2 DEF IInv, OrderlyInv, ListedServe
  <2> QED
    BY <2>1, <2>2 DEF Stable
<1>3. Tracker!Known(TheFile)' => files'[TheFile].piece_count = Count
  BY DEF tracker, Tracker!Known, IInv, OrderlyInv, ListedServe
<1> QED
  BY <1>1, <1>2, <1>3 DEF ListedServe

LEMMA StoreStable ==
    ASSUME UNCHANGED store
    PROVE  Stable
BY DEF Stable, Serves, store

LEMMA ThreadState ==
    ASSUME ThreadsOK, NEW p \in Peers, NEW l, NEW c, NEW n, NEW i, Thread(p, l, c, n, i)
    PROVE  /\ pc'[p] = l /\ todo'[p] = c /\ want'[p] = n /\ at'[p] = i
           /\ \A q \in Peers : q # p => /\ pc'[q] = pc[q] /\ todo'[q] = todo[q]
                                        /\ want'[q] = want[q] /\ at'[q] = at[q]
BY DEF ThreadsOK, Thread

-----------------------------------------------------------------------------
(* Steps of the command thread that leave the disk alone.  They begin where no
   file and no part is under way, and end so. *)
LEMMA RequestMoves ==
    ASSUME Orderly, IInv, NEW p \in Peers, UNCHANGED store,
           \A q \in Peers : q # p => SameState(q),
           Settled(p), pc[p] # "writing part",
           pc'[p] = "copying" => todo'[p] = <<>>,
           pc'[p] \notin {"assemble", "writing part"},
           LoopAt(p)', JobsAt(p)', ListedServe'
    PROVE  OrderlyInv'
<1>1. UNCHANGED <<disk, parts>>
  BY DEF store
<1>2. SharedAt(p)'
  <2>1. Original \in Content
    BY OriginalType
  <2>2. Original \o <<>> = Original
    BY <2>1, ConcatEmptySeq DEF Content
  <2> QED
    BY <1>1, <2>2, SharedWhole DEF SharedAt
<1>3. DownloadsAt(p)'
  <2> SUFFICES ASSUME disk[p]["downloads"] # NoFile, disk[p]["shared"] = NoFile
               PROVE  Assembled(p)' /\ 0 .. Count - 1 \subseteq DOMAIN parts[p]
    BY <1>1 DEF DownloadsAt
  <2>1. disk[p]["downloads"] = Original
    BY AssembledWhole
  <2>2. Assembled(p)'
    BY <1>1, <2>1 DEF Assembled
  <2> QED
    BY <2>2 DEF IInv, OrderlyInv, DownloadsAt
<1>4. PartsAt(p)'
  BY <1>1 DEF IInv, OrderlyInv, PartsAt, Writing
<1> QED
  BY <1>2, <1>3, <1>4, StoreStable, PeerStepOrderly DEF Own

(* Those that leave the requests alone as well *)
LEMMA ThreadMoves ==
    ASSUME Orderly, IInv, NEW p \in Peers, UNCHANGED <<store, jobs>>,
           \A q \in Peers : q # p => SameState(q),
           Settled(p), pc[p] # "writing part",
           pc'[p] = "copying" => todo'[p] = <<>>,
           pc'[p] \notin {"assemble", "writing part"},
           LoopAt(p)', ListedServe'
    PROVE  OrderlyInv'
<1>1. UNCHANGED <<disk, parts, jobs>>
  BY DEF store
<1>2. JobsAt(p)
  BY DEF IInv, OrderlyInv
<1>3. JobsAt(p)'
  BY <1>1, <1>2 DEF JobsAt, HasLocal, Serves
<1> QED
  BY <1>3, RequestMoves

LEMMA SameStates ==
    ASSUME SwarmInv, NEW p \in Peers, NEW l, NEW c, NEW n, NEW i, Thread(p, l, c, n, i),
           UNCHANGED <<store, jobs>>
    PROVE  /\ pc'[p] = l /\ todo'[p] = c /\ want'[p] = n /\ at'[p] = i
           /\ \A q \in Peers : q # p => SameState(q)
BY ThreadState DEF SameState, store, SwarmInv, TypeOK

LEMMA StartOrderly ==
    ASSUME Orderly, IInv, NEW p \in Peers, Start(p)
    PROVE  OrderlyInv'
<1>1. Thread(p, "idle", todo[p], want[p], at[p]) /\ UNCHANGED <<store, jobs>> /\ pc[p] = "down"
  BY DEF Start, Goto
<1>2. pc'[p] = "idle" /\ \A q \in Peers : q # p => SameState(q)
  BY <1>1, SameStates DEF IInv
<1>3. ListedServe'
  <2>1. /\ Tracker!Owners(TheFile)' = Tracker!Owners(TheFile)
        /\ files' = files
    BY DEF Start, Call, Tracker!register_peer, Tracker!Owners, Tracker!Known
  <2> QED
    BY <1>1, <2>1 DEF IInv, OrderlyInv, ListedServe, Tracker!Known, Serves, store
<1> QED
  BY <1>1, <1>2, <1>3, ThreadMoves DEF LoopAt, Settled

(* The commands that begin without touching the disk *)
LEMMA OtherCommandOrderly ==
    ASSUME Orderly, IInv, NEW p \in Peers, AddInPlace(p) \/ DownloadPieces(p) \/ Have(p)
    PROVE  OrderlyInv'
<1>1. pc[p] = "idle" /\ UNCHANGED <<tracker, store, jobs>>
  BY DEF AddInPlace, DownloadPieces, Have, Command, store
<1>2. Settled(p)
  BY <1>1 DEF Settled
<1>3. ListedServe'
  BY <1>1, ListedKept, StoreStable
<1>4. CASE AddInPlace(p)
  <2>1. pc'[p] = "copying" /\ todo'[p] = <<>> /\ \A q \in Peers : q # p => SameState(q)
    BY <1>1, <1>4, SameStates DEF IInv, AddInPlace
  <2> QED
    BY <1>1, <1>2, <1>3, <2>1, ThreadMoves DEF LoopAt
<1>5. CASE DownloadPieces(p)
  <2>1. pc'[p] = "query pieces" /\ \A q \in Peers : q # p => SameState(q)
    BY <1>1, <1>5, SameStates DEF IInv, DownloadPieces, Goto
  <2> QED
    BY <1>1, <1>2, <1>3, <2>1, ThreadMoves DEF LoopAt
<1>6. CASE Have(p)
  <2>1. LocalContent(p) = Original
    BY <1>2, <1>6, LocalWhole DEF Have
  <2>2. /\ pc'[p] = "claim" /\ want'[p] = Count /\ at'[p] = 0
        /\ \A q \in Peers : q # p => SameState(q)
    BY <1>1, <1>6, <2>1, SameStates DEF IInv, Have, Count
  <2>3. LoopAt(p)'
    BY <2>2, OriginalType DEF LoopAt
  <2> QED
    BY <1>1, <1>2, <1>3, <2>2, <2>3, ThreadMoves
<1> QED
  BY <1>4, <1>5, <1>6

(* ADD_FILE, accepted or lost, of a file that is whole *)
LEMMA AnnounceOrderly ==
    ASSUME Orderly, IInv, NEW p \in Peers, Announce(p)
    PROVE  OrderlyInv'
<1>1. UNCHANGED <<store, jobs>> /\ FileWritten(p) /\ Return(p)
  BY DEF Announce
<1>2. Settled(p) /\ pc[p] # "writing part" /\ HasLocal(p)
  <2>1. pc[p] # "saving"
    BY DEF IInv, OrderlyInv, LoopAt
  <2> QED
    BY <1>1, <2>1 DEF FileWritten, Settled, HasLocal, Dirs, IInv, SwarmInv, WritesExist
<1>3. LocalContent(p) = Original
  BY <1>2, LocalWhole
<1>4. pc'[p] = "idle" /\ \A q \in Peers : q # p => SameState(q)
  BY <1>1, SameStates DEF IInv, Return
<1>5. \A q \in Peers, i \in Nat : Serves(q, i) => Serves(q, i)'
  BY <1>1, StoreStable DEF Stable
<1>6. CASE Tracker!add_file(p, TheFile, Count)
  <2>1. files'[TheFile] = [piece_count |-> Count,
                           owners |-> Tracker!Owners(TheFile) \cup ((0 .. Count - 1) \X {p})]
    BY <1>6 DEF Tracker!add_file, IInv, SwarmInv, TypeOK, TrackerOK, Tracker!TypeOK
  <2>2. Tracker!Owners(TheFile)' \subseteq
            Tracker!Owners(TheFile) \cup ((0 .. Count - 1) \X {p})
    BY <2>1 DEF Tracker!Owners
  <2>3. ASSUME NEW o \in Tracker!Owners(TheFile)'
        PROVE  o[1] < Count /\ Serves(o[2], o[1])'
    <3>1. CASE o \in Tracker!Owners(TheFile)
      <4>1. o[1] \in Nat /\ o[2] \in Peers
        BY <3>1, OwnersType DEF IInv, SwarmInv, TypeOK, TrackerOK
      <4>2. o[1] < Count /\ Serves(o[2], o[1])
        BY <3>1 DEF IInv, OrderlyInv, ListedServe
      <4> QED
        BY <1>5, <4>1, <4>2
    <3>2. CASE o \in (0 .. Count - 1) \X {p}
      <4>1. o[1] \in 0 .. Count - 1 /\ o[2] = p
        BY <3>2
      <4>2. Serves(p, o[1])
        BY <1>2, <4>1, LocalServes
      <4>3. o[1] \in Nat /\ o[1] < Count
        BY <4>1, OriginalType
      <4> QED
        BY <1>5, <4>1, <4>2, <4>3
    <3> QED
      BY <2>2, <2>3, <3>1, <3>2
  <2>4. ListedServe'
    BY <2>1, <2>3 DEF ListedServe
  <2>5. LoopAt(p)'
    BY <1>4 DEF LoopAt
  <2> QED
    BY <1>1, <1>2, <1>4, <2>4, <2>5, ThreadMoves
<1>7. CASE UNCHANGED tracker
  BY <1>1, <1>2, <1>4, <1>7, ListedKept, StoreStable, ThreadMoves DEF LoopAt
<1> QED
  BY <1>3, <1>6, <1>7 DEF Announce, Call, Count, tracker

(* HAVE of a piece that the peer serves *)
LEMMA HaveListed ==
    ASSUME Orderly, IInv, NEW p \in Peers, UNCHANGED store, Call(Tracker!have_piece(p, TheFile, at[p])),
           at[p] < Count, Serves(p, at[p])
    PROVE  ListedServe'
<1>1. at[p] \in Nat
  BY DEF IInv, SwarmInv, TypeOK, ThreadsOK
<1>2. CASE /\ Tracker!Known(TheFile)
           /\ files' = [files EXCEPT ![TheFile].owners = @ \cup {<<at[p], p>>}]
  <2>1. files[TheFile] \in [piece_count : Nat, owners : SUBSET (Nat \X Peers)]
    BY <1>2 DEF IInv, SwarmInv, TypeOK, TrackerOK, Tracker!TypeOK, Tracker!Known, Tracker!FileInfo
  <2>2. /\ files'[TheFile].piece_count = files[TheFile].piece_count
        /\ files'[TheFile].owners = files[TheFile].owners \cup {<<at[p], p>>}
    BY <1>2, <2>1 DEF IInv, SwarmInv, TypeOK, TrackerOK, Tracker!TypeOK
  <2>3. Tracker!Owners(TheFile)' \subseteq Tracker!Owners(TheFile) \cup {<<at[p], p>>}
    BY <1>2, <2>2 DEF Tracker!Owners
  <2>4. files'[TheFile].piece_count = Count
    BY <1>2, <2>2 DEF IInv, OrderlyInv, ListedServe
  <2>5. \A q \in Peers, i \in Nat : Serves(q, i) => Serves(q, i)'
    BY StoreStable DEF Stable
  <2>6. ASSUME NEW o \in Tracker!Owners(TheFile)'
        PROVE  o[1] < Count /\ Serves(o[2], o[1])'
    <3>1. o[1] \in Nat /\ o[2] \in Peers /\ o[1] < Count /\ Serves(o[2], o[1])
      BY <1>1, <2>3, <2>6, OwnersType DEF IInv, SwarmInv, TypeOK, TrackerOK, OrderlyInv, ListedServe
    <3> QED
      BY <2>5, <3>1
  <2> QED
    BY <2>4, <2>6 DEF ListedServe
<1>3. CASE UNCHANGED tracker
  BY <1>3, ListedKept, StoreStable
<1> QED
  BY <1>2, <1>3 DEF Call, Tracker!have_piece, Tracker!HaveAccepted, Tracker!tvars, tracker

LEMMA HavePartOrderly ==
    ASSUME Orderly, IInv, NEW p \in Peers, HavePart(p)
    PROVE  OrderlyInv'
<1>1. /\ pc[p] = "have" /\ UNCHANGED <<store, jobs>>
      /\ Thread(p, "collect", todo[p], want[p], at[p])
  BY DEF HavePart, Goto
<1>2. at[p] < Count /\ Serves(p, at[p]) /\ want[p] = Count
  <2>1. at[p] \in DOMAIN parts[p]
    BY <1>1 DEF IInv, SwarmInv, WritesExist
  <2>2. at[p] < Count /\ parts[p][at[p]] = Piece(at[p])
    BY <1>1, <2>1 DEF IInv, OrderlyInv, PartsAt, Writing
  <2> QED
    BY <1>1, <2>1, <2>2 DEF Serves, IInv, OrderlyInv, LoopAt
<1>3. ListedServe'
  BY <1>1, <1>2, HaveListed DEF HavePart
<1>4. pc'[p] = "collect" /\ want'[p] = want[p] /\ \A q \in Peers : q # p => SameState(q)
  BY <1>1, SameStates DEF IInv
<1> QED
  BY <1>1, <1>2, <1>3, <1>4, ThreadMoves DEF Settled, LoopAt

LEMMA ClaimOrderly ==
    ASSUME Orderly, IInv, NEW p \in Peers, Claim(p)
    PROVE  OrderlyInv'
<1>1. pc[p] = "claim" /\ UNCHANGED <<store, jobs>>
  BY DEF Claim
<1>2. Settled(p)
  BY <1>1 DEF Settled
<1>3. at[p] \in Nat /\ at[p] < Count /\ want[p] = Count
  BY <1>1 DEF IInv, OrderlyInv, LoopAt, SwarmInv, TypeOK, ThreadsOK
<1>4. Serves(p, at[p])
  <2>1. HasLocal(p)
    BY <1>1 DEF IInv, SwarmInv, WritesExist
  <2>2. at[p] \in 0 .. Count - 1
    BY <1>3, OriginalType
  <2> QED
    BY <1>1, <1>2, <2>1, <2>2, LocalServes
<1>5. ListedServe'
  BY <1>1, <1>3, <1>4, HaveListed DEF Claim
<1>6. CASE Return(p)
  <2>1. pc'[p] = "idle" /\ \A q \in Peers : q # p => SameState(q)
    BY <1>1, <1>6, SameStates DEF IInv, Return
  <2> QED
    BY <1>1, <1>2, <1>5, <2>1, ThreadMoves DEF LoopAt
<1>7. CASE at[p] + 1 # want[p] /\ Thread(p, "claim", <<>>, want[p], at[p] + 1)
  <2>1. /\ pc'[p] = "claim" /\ want'[p] = want[p] /\ at'[p] = at[p] + 1
        /\ \A q \in Peers : q # p => SameState(q)
    BY <1>1, <1>7, SameStates DEF IInv
  <2>2. LoopAt(p)'
    BY <1>3, <1>7, <2>1, OriginalType DEF LoopAt
  <2> QED
    BY <1>1, <1>2, <1>5, <2>1, <2>2, ThreadMoves
<1> QED
  BY <1>6, <1>7 DEF Claim

LEMMA FailedCallOrderly ==
    ASSUME Orderly, IInv, NEW p \in Peers, QueryFails(p) \/ CallRefused(p)
    PROVE  OrderlyInv'
<1>1. UNCHANGED <<tracker, store, jobs>>
  BY DEF QueryFails, CallRefused
<1>2. Settled(p) /\ pc[p] # "writing part"
  BY DEF QueryFails, CallRefused, FileWritten, Settled
<1>3. pc'[p] \in {"idle", "drain"} /\ \A q \in Peers : q # p => SameState(q)
  <2>1. Return(p) \/ Goto(p, "drain")
    BY DEF QueryFails, CallRefused
  <2> QED
    BY <1>1, <2>1, SameStates DEF IInv, Return, Goto
<1>4. ListedServe'
  BY <1>1, ListedKept, StoreStable
<1> QED
  BY <1>1, <1>2, <1>3, <1>4, ThreadMoves DEF LoopAt

-----------------------------------------------------------------------------
(* Steps that write a file under shared/ or downloads/ *)

LEMMA FileMoves ==
    ASSUME Orderly, IInv, NEW p \in Peers, NEW d \in Dirs, NEW f, Write(p, d, f),
           UNCHANGED <<tracker, parts, jobs>>, \A q \in Peers : q # p =>
              pc'[q] = pc[q] /\ todo'[q] = todo[q] /\ want'[q] = want[q] /\ at'[q] = at[q],
           d = "shared" => disk[p]["shared"] # Original,
           pc[p] # "writing part", pc'[p] # "writing part", DOMAIN jobs[p] = {},
           SharedAt(p)', DownloadsAt(p)', LoopAt(p)'
    PROVE  OrderlyInv'
<1>1. /\ disk'[p] = [disk[p] EXCEPT ![d] = f]
      /\ \A q \in Peers : q # p => disk'[q] = disk[q]
  BY DEF Write, IInv, SwarmInv, TypeOK, StoreOK
<1>2. \A q \in Peers : disk[q]["shared"] = Original => disk'[q]["shared"] = Original
  <2>1. disk'[p]["shared"] = IF d = "shared" THEN f ELSE disk[p]["shared"]
    BY <1>1 DEF Dirs, IInv, SwarmInv, TypeOK, StoreOK
  <2> QED
    BY <1>1, <2>1
<1>3. Stable
  BY <1>2 DEF Stable, Serves
<1>4. \A q \in Peers : q # p => SameState(q)
  BY <1>1 DEF SameState
<1>5. PartsAt(p)'
  BY DEF IInv, OrderlyInv, PartsAt, Writing
<1>6. JobsAt(p)'
  BY DEF JobsAt
<1>7. ListedServe'
  BY <1>3, ListedKept
<1> QED
  BY <1>3, <1>4, <1>5, <1>6, <1>7, PeerStepOrderly DEF Own

LEMMA AddOrderly ==
    ASSUME Orderly, IInv, NEW p \in Peers, NEW v \in Versions, Add(p, v)
    PROVE  OrderlyInv'
<1>1. /\ disk[p]["shared"] = NoFile /\ pc[p] = "idle" /\ Write(p, "shared", <<>>)
      /\ Thread(p, "copying", Data(v), 0, 0) /\ UNCHANGED <<tracker, parts, jobs>>
  BY DEF Add, Command, Orderly
<1>2. disk[p]["shared"] # Original
  BY <1>1, OriginalType, ContentExists
<1>3. DOMAIN jobs[p] = {}
  BY <1>1 DEF IInv, SwarmInv, JobsAwaited
<1>4. /\ pc'[p] = "copying" /\ todo'[p] = Original
      /\ \A q \in Peers : q # p =>
            pc'[q] = pc[q] /\ todo'[q] = todo[q] /\ want'[q] = want[q] /\ at'[q] = at[q]
  BY <1>1, ThreadState, OneVersion DEF IInv, SwarmInv, TypeOK
<1>5. disk'[p]["shared"] = <<>>
  BY <1>1 DEF Write, Dirs, IInv, SwarmInv, TypeOK, StoreOK
<1>6. <<>> \o Original = Original
  BY OriginalType, ConcatEmptySeq DEF Content
<1>7. SharedAt(p)' /\ LoopAt(p)'
  BY <1>4, <1>5, <1>6 DEF SharedAt, LoopAt
<1>8. DownloadsAt(p)'
  BY <1>5, EmptyContent, ContentExists DEF DownloadsAt
<1> QED
  BY <1>1, <1>2, <1>3, <1>4, <1>7, <1>8, FileMoves DEF Dirs

(* A chunk moves from what is to come to what is there. *)
LEMMA ChunkMoves ==
    ASSUME NEW s \in Content, NEW t \in Content, t # <<>>
    PROVE  Append(s, Head(t)) \o Tail(t) = s \o t
<1> DEFINE a == Append(s, Head(t))
<1>1. /\ Len(s) \in Nat /\ Len(t) \in Nat /\ Len(t) >= 1 /\ Head(t) = t[1] /\ Head(t) \in Chunk
      /\ Tail(t) \in Seq(Chunk) /\ Len(Tail(t)) = Len(t) - 1
      /\ \A i \in 1 .. Len(t) - 1 : Tail(t)[i] = t[i + 1]
  BY HeadTailProperties, EmptySeq DEF Content
<1>2. /\ a \in Seq(Chunk) /\ Len(a) = Len(s) + 1
      /\ \A i \in 1 .. Len(s) : a[i] = s[i]
      /\ a[Len(s) + 1] = t[1]
  BY <1>1, AppendProperties DEF Content
<1> HIDE DEF a
<1>3. /\ a \o Tail(t) \in Seq(Chunk) /\ Len(a \o Tail(t)) = Len(s) + Len(t)
      /\ \A i \in 1 .. Len(s) + Len(t) :
            (a \o Tail(t))[i] = IF i <= Len(s) + 1 THEN a[i] ELSE Tail(t)[i - (Len(s) + 1)]
  <2>1. /\ a \o Tail(t) \in Seq(Chunk) /\ Len(a \o Tail(t)) = Len(a) + Len(Tail(t))
        /\ \A i \in 1 .. Len(a) + Len(Tail(t)) :
              (a \o Tail(t))[i] = IF i <= Len(a) THEN a[i] ELSE Tail(t)[i - Len(a)]
    BY <1>1, <1>2, ConcatProperties
  <2>2. Len(a) = Len(s) + 1 /\ Len(a) + Len(Tail(t)) = Len(s) + Len(t)
    BY <1>1, <1>2
  <2> QED
    BY <2>1, <2>2
<1>4. /\ s \o t \in Seq(Chunk) /\ Len(s \o t) = Len(s) + Len(t)
      /\ \A i \in 1 .. Len(s) + Len(t) : (s \o t)[i] = IF i <= Len(s) THEN s[i] ELSE t[i - Len(s)]
  BY ConcatProperties DEF Content
<1>5. ASSUME NEW i \in 1 .. Len(s) + Len(t)
      PROVE  (a \o Tail(t))[i] = (s \o t)[i]
  <2>1. CASE i <= Len(s)
    BY <1>1, <1>2, <1>3, <1>4, <2>1
  <2>2. CASE i = Len(s) + 1
    BY <1>1, <1>2, <1>3, <1>4, <2>2
  <2>3. CASE i > Len(s) + 1
    <3>1. i - (Len(s) + 1) \in 1 .. Len(t) - 1 /\ (i - (Len(s) + 1)) + 1 = i - Len(s)
      BY <1>1, <2>3
    <3> QED
      BY <1>1, <1>3, <1>4, <2>3, <3>1
  <2>4. i \in Int /\ Len(s) \in Int
    BY <1>1, <1>5
  <2>5. i <= Len(s) \/ i = Len(s) + 1 \/ i > Len(s) + 1
    BY <2>4
  <2> QED
    BY <2>1, <2>2, <2>3, <2>5
<1> QED
  BY <1>3, <1>4, <1>5, SeqEqual DEF a

LEMMA ChunkMissing ==
    ASSUME NEW s \in Content, NEW t \in Content, t # <<>>
    PROVE  s \o t # s
<1>1. s \in Seq(Chunk) /\ t \in Seq(Chunk)
  BY DEF Content
<1>2. s \o t = s <=> t = <<>>
  BY <1>1, ConcatEqualIffEmpty
<1> QED
  BY <1>2

LEMMA WriteChunkOrderly ==
    ASSUME Orderly, IInv, NEW p \in Peers, WriteChunk(p)
    PROVE  OrderlyInv'
<1> DEFINE s == disk[p]["shared"]
           f == Append(s, Head(todo[p]))
<1>1. /\ pc[p] = "copying" /\ todo[p] # <<>> /\ Write(p, "shared", f)
      /\ Thread(p, "copying", Tail(todo[p]), 0, 0) /\ UNCHANGED <<tracker, parts, jobs>>
  BY DEF WriteChunk, IInv, OrderlyInv, LoopAt
<1>2. s \in Content /\ todo[p] \in Content /\ s \o todo[p] = Original
  BY <1>1 DEF IInv, SwarmInv, WritesExist, TypeOK, StoreOK, ThreadsOK, Dirs, OrderlyInv, SharedAt
<1>3. s # Original
  BY <1>1, <1>2, ChunkMissing
<1>4. f \o Tail(todo[p]) = Original
  BY <1>1, <1>2, ChunkMoves
<1>5. f \in Content
  BY <1>1, <1>2, AppendProperties, HeadTailProperties DEF Content
<1> HIDE DEF f
<1>6. disk'[p]["shared"] = f
  BY <1>1 DEF Write, Dirs, IInv, SwarmInv, TypeOK, StoreOK
<1>7. /\ pc'[p] = "copying" /\ todo'[p] = Tail(todo[p])
      /\ \A q \in Peers : q # p =>
            pc'[q] = pc[q] /\ todo'[q] = todo[q] /\ want'[q] = want[q] /\ at'[q] = at[q]
  BY <1>1, ThreadState DEF IInv, SwarmInv, TypeOK
<1>8. SharedAt(p)' /\ LoopAt(p)' /\ DownloadsAt(p)'
  BY <1>4, <1>5, <1>6, <1>7, ContentExists DEF SharedAt, LoopAt, DownloadsAt
<1>9. DOMAIN jobs[p] = {}
  BY <1>1 DEF IInv, SwarmInv, JobsAwaited
<1> QED
  BY <1>1, <1>3, <1>7, <1>8, <1>9, FileMoves DEF Dirs

(* Without a file, as many parts as pieces are all the parts. *)
LEMMA AllParts ==
    ASSUME Orderly, IInv, NEW p \in Peers, disk[p]["shared"] = NoFile,
           Cardinality(CompletePieceIds(p, Count)) = Count
    PROVE  0 .. Count - 1 \subseteq DOMAIN parts[p]
<1>1. CASE HasLocal(p)
  BY <1>1 DEF HasLocal, Dirs, IInv, OrderlyInv, DownloadsAt
<1>2. CASE ~HasLocal(p)
  <2> DEFINE S == DOMAIN parts[p] \cap (0 .. Count - 1)
  <2>1. Cardinality(S) = Count
    BY <1>2 DEF CompletePieceIds
  <2>2. IsFiniteSet(0 .. Count - 1) /\ Cardinality(0 .. Count - 1) = Count
    <3>1. Count \in Nat /\ 0 \in Int /\ Count - 1 \in Int
      BY OriginalType
    <3>2. /\ IsFiniteSet(0 .. Count - 1)
          /\ Cardinality(0 .. Count - 1) = IF 0 > Count - 1 THEN 0 ELSE Count - 1 - 0 + 1
      BY <3>1, FS_Interval
    <3> QED
      BY <3>1, <3>2
  <2>3. S = 0 .. Count - 1
    BY <2>1, <2>2, FS_Subset
  <2> QED
    BY <2>3
<1> QED
  BY <1>1, <1>2

LEMMA CollectedOrderly ==
    ASSUME Orderly, IInv, NEW p \in Peers, Collected(p)
    PROVE  OrderlyInv'
<1>1. pc[p] = "collect" /\ DOMAIN jobs[p] = {} /\ UNCHANGED <<tracker, parts, jobs>> /\ want[p] = Count
  BY DEF Collected, IInv, OrderlyInv, LoopAt
<1>2. CASE /\ Cardinality(CompletePieceIds(p, want[p])) = want[p]
           /\ Write(p, "downloads", <<>>) /\ Thread(p, "assemble", <<>>, want[p], 0)
  <2>1. /\ pc'[p] = "assemble" /\ want'[p] = Count /\ at'[p] = 0
        /\ \A q \in Peers : q # p =>
              pc'[q] = pc[q] /\ todo'[q] = todo[q] /\ want'[q] = want[q] /\ at'[q] = at[q]
    BY <1>1, <1>2, ThreadState DEF IInv, SwarmInv, TypeOK
  <2>2. disk'[p]["downloads"] = <<>> /\ disk'[p]["shared"] = disk[p]["shared"]
    BY <1>2 DEF Write, Dirs, IInv, SwarmInv, TypeOK, StoreOK
  <2>3. SharedAt(p)'
    BY <1>1, <2>1, <2>2 DEF IInv, OrderlyInv, SharedAt
  <2>4. LoopAt(p)'
    BY <2>1, OriginalType DEF LoopAt
  <2>5. Assembled(p)'
    <3>1. Len(<<>>) = 0 /\ 1 .. 0 = {}
      OBVIOUS
    <3> QED
      BY <2>1, <2>2, <3>1, OriginalType DEF Assembled
  <2>6. DownloadsAt(p)'
    BY <1>1, <1>2, <2>2, <2>5, AllParts DEF DownloadsAt
  <2> QED
    BY <1>1, <1>2, <2>1, <2>3, <2>4, <2>6, FileMoves DEF Dirs
<1>3. CASE Return(p) /\ UNCHANGED disk
  <2>1. UNCHANGED <<store, jobs>> /\ Settled(p)
    BY <1>1, <1>3 DEF store, Settled
  <2>2. pc'[p] = "idle" /\ \A q \in Peers : q # p => SameState(q)
    BY <1>3, <2>1, SameStates DEF IInv, Return
  <2>3. ListedServe'
    BY <1>1, <2>1, ListedKept, StoreStable
  <2> QED
    BY <1>1, <2>1, <2>2, <2>3, ThreadMoves DEF LoopAt
<1> QED
  BY <1>2, <1>3 DEF Collected

(* The file grows by the piece that comes next. *)
LEMMA PieceAppended ==
    ASSUME Orderly, NEW c \in Content, NEW i \in Nat, i < Count,
           Len(c) = IF i < Len(Original) THEN i ELSE Len(Original),
           \A k \in 1 .. Len(c) : c[k] = Original[k]
    PROVE  LET n == IF i + 1 < Len(Original) THEN i + 1 ELSE Len(Original)
           IN  /\ Len(c \o Piece(i)) = n
               /\ \A k \in 1 .. n : (c \o Piece(i))[k] = Original[k]
<1>1. CASE i < Len(Original)
  <2>1. Piece(i) = <<Original[i + 1]>> /\ Piece(i) \in Seq(Chunk) /\ c \in Seq(Chunk)
    BY <1>1, PieceType DEF Content
  <2>2. Len(Piece(i)) = 1 /\ Piece(i)[1] = Original[i + 1]
    BY <2>1
  <2>3. /\ Len(c \o Piece(i)) = i + 1
        /\ \A k \in 1 .. i + 1 : (c \o Piece(i))[k] = IF k <= i THEN c[k] ELSE Piece(i)[k - i]
    BY <1>1, <2>1, <2>2, ConcatProperties
  <2> QED
    BY <1>1, <2>2, <2>3, OriginalType
<1>2. CASE ~(i < Len(Original))
  <2>1. Piece(i) = <<>> /\ c \o <<>> = c
    BY <1>2, PieceType, ConcatEmptySeq DEF Content
  <2> QED
    BY <1>2, <2>1, OriginalType
<1> QED
  BY <1>1, <1>2

LEMMA AppendPartOrderly ==
    ASSUME Orderly, IInv, NEW p \in Peers, AppendPart(p)
    PROVE  OrderlyInv'
<1> DEFINE c == disk[p]["downloads"]
           f == c \o parts[p][at[p]]
<1>1. /\ pc[p] = "assemble" /\ UNCHANGED <<tracker, parts, jobs>> /\ want[p] = Count
      /\ at[p] < Count /\ at[p] \in Nat
  BY DEF AppendPart, IInv, OrderlyInv, LoopAt, SwarmInv, TypeOK, ThreadsOK
<1>2. CASE /\ at[p] \in DOMAIN parts[p]
           /\ Write(p, "downloads", f) /\ Thread(p, "assemble", <<>>, want[p], at[p] + 1)
  <2>1. /\ pc'[p] = "assemble" /\ want'[p] = Count /\ at'[p] = at[p] + 1
        /\ \A q \in Peers : q # p =>
              pc'[q] = pc[q] /\ todo'[q] = todo[q] /\ want'[q] = want[q] /\ at'[q] = at[q]
    BY <1>1, <1>2, ThreadState DEF IInv, SwarmInv, TypeOK
  <2>2. c \in Content
    BY <1>1 DEF IInv, SwarmInv, WritesExist, TypeOK, StoreOK, Dirs
  <2>3. parts[p][at[p]] = Piece(at[p])
    BY <1>1, <1>2 DEF IInv, OrderlyInv, PartsAt, Writing
  <2>4. disk'[p]["downloads"] = f /\ disk'[p]["shared"] = disk[p]["shared"]
    BY <1>2 DEF Write, Dirs, IInv, SwarmInv, TypeOK, StoreOK
  <2>5. SharedAt(p)'
    BY <1>1, <2>1, <2>4 DEF IInv, OrderlyInv, SharedAt
  <2>6. LoopAt(p)'
    BY <1>1, <2>1, OriginalType DEF LoopAt
  <2>7. DownloadsAt(p)'
    <3> SUFFICES ASSUME disk[p]["shared"] = NoFile
                 PROVE  Assembled(p)' /\ 0 .. Count - 1 \subseteq DOMAIN parts[p]
      BY <1>1, <2>4 DEF DownloadsAt
    <3>1. Assembled(p) /\ 0 .. Count - 1 \subseteq DOMAIN parts[p]
      BY <2>2, ContentExists DEF IInv, OrderlyInv, DownloadsAt
    <3>2. /\ Len(c) = IF at[p] < Len(Original) THEN at[p] ELSE Len(Original)
          /\ \A k \in 1 .. Len(c) : c[k] = Original[k]
      BY <1>1, <3>1 DEF Assembled
    <3>3. LET n == IF at[p] + 1 < Len(Original) THEN at[p] + 1 ELSE Len(Original)
          IN  Len(f) = n /\ \A k \in 1 .. n : f[k] = Original[k]
      <4>1. f = c \o Piece(at[p])
        BY <2>3
      <4>2. /\ Len(c) = IF at[p] < Len(Original) THEN at[p] ELSE Len(Original)
            /\ \A k \in 1 .. Len(c) : c[k] = Original[k]
            /\ at[p] \in Nat /\ at[p] < Count /\ c \in Content
        BY <1>1, <2>2, <3>2
      <4> HIDE DEF c, f
      <4>3. LET n == IF at[p] + 1 < Len(Original) THEN at[p] + 1 ELSE Len(Original)
            IN  Len(c \o Piece(at[p])) = n /\ \A k \in 1 .. n : (c \o Piece(at[p]))[k] = Original[k]
        BY <4>2, PieceAppended
      <4> QED
        BY <4>1, <4>3
    <3> HIDE DEF f
    <3> QED
      BY <2>1, <2>4, <3>1, <3>3 DEF Assembled
  <2> QED
    BY <1>1, <1>2, <2>1, <2>5, <2>6, <2>7, FileMoves DEF Dirs, IInv, SwarmInv, JobsAwaited
<1>3. CASE at[p] \notin DOMAIN parts[p] /\ Return(p) /\ UNCHANGED disk
  <2>1. disk[p]["shared"] # NoFile
    <3>1. at[p] \in 0 .. Count - 1
      BY <1>1, OriginalType
    <3> QED
      BY <1>1, <1>3, <3>1 DEF IInv, SwarmInv, WritesExist, OrderlyInv, DownloadsAt
  <2>2. UNCHANGED <<store, jobs>> /\ Settled(p)
    BY <1>1, <1>3, <2>1 DEF store, Settled
  <2>3. pc'[p] = "idle" /\ \A q \in Peers : q # p => SameState(q)
    BY <1>3, <2>2, SameStates DEF IInv, Return
  <2>4. ListedServe'
    BY <1>1, <2>2, ListedKept, StoreStable
  <2> QED
    BY <1>1, <2>2, <2>3, <2>4, ThreadMoves DEF LoopAt
<1> QED
  BY <1>2, <1>3 DEF AppendPart

-----------------------------------------------------------------------------
(* Steps that change the requests or a part *)

(* Requests that stay as they are stay right. *)
LEMMA JobsKept ==
    ASSUME IInv, NEW p \in Peers, Stable, disk'[p] = disk[p],
           \A i \in DOMAIN jobs'[p] : /\ i \in DOMAIN jobs[p] /\ jobs'[p][i] = jobs[p][i]
                                      /\ i \notin DOMAIN parts'[p]
    PROVE  JobsAt(p)'
<1> SUFFICES ASSUME NEW i \in DOMAIN jobs'[p]
             PROVE  /\ i < Count /\ i \notin DOMAIN parts'[p] /\ ~HasLocal(p)'
                    /\ Serves(jobs[p][i].src, i)'
                    /\ jobs'[p][i].phase = "serving" =>
                         IF jobs'[p][i].path = "part" THEN jobs'[p][i].size = Len(Piece(i))
                         ELSE /\ jobs'[p][i].path = "shared"
                              /\ disk'[jobs'[p][i].src]["shared"] = Original
                    /\ jobs'[p][i].phase = "done" => jobs'[p][i].data = Piece(i)
  BY DEF JobsAt, Serves
<1> DEFINE j == jobs[p][i]
<1>1. i \in DOMAIN jobs[p] /\ jobs'[p][i] = j /\ i \notin DOMAIN parts'[p]
  OBVIOUS
<1>2. i \in Nat /\ j.src \in Peers
  BY <1>1, JobsArePieces
<1>3. /\ i < Count /\ ~HasLocal(p) /\ Serves(j.src, i)
      /\ j.phase = "serving" => IF j.path = "part" THEN j.size = Len(Piece(i))
                                ELSE j.path = "shared" /\ disk[j.src]["shared"] = Original
      /\ j.phase = "done" => j.data = Piece(i)
  BY <1>1 DEF IInv, OrderlyInv, JobsAt
<1>4. ~HasLocal(p)'
  BY <1>3 DEF HasLocal
<1>5. \A q \in Peers : Serves(q, i) => Serves(q, i)'
  BY <1>2 DEF Stable
<1>6. Serves(jobs[p][i].src, i)'
  BY <1>1, <1>2, <1>3, <1>5 DEF Serves
<1>7. disk[j.src]["shared"] = Original => disk'[j.src]["shared"] = Original
  BY <1>2 DEF Stable
<1> QED
  BY <1>1, <1>3, <1>4, <1>6, <1>7

(* The file and the requests of a peer that asks for pieces *)
LEMMA JobAt ==
    ASSUME IInv, NEW p \in Peers, NEW i \in DOMAIN jobs[p]
    PROVE  /\ i \in Nat /\ i < Count /\ i \notin DOMAIN parts[p]
           /\ \A d \in Dirs : disk[p][d] = NoFile
           /\ jobs[p][i].src \in Peers /\ Serves(jobs[p][i].src, i)
           /\ jobs[p][i].phase = "serving" =>
                IF jobs[p][i].path = "part" THEN jobs[p][i].size = Len(Piece(i))
                ELSE jobs[p][i].path = "shared" /\ disk[jobs[p][i].src]["shared"] = Original
           /\ jobs[p][i].phase = "done" => jobs[p][i].data = Piece(i)
BY JobsArePieces DEF IInv, OrderlyInv, JobsAt, HasLocal

LEMMA CollectOrderly ==
    ASSUME Orderly, IInv, NEW p \in Peers, Collect(p)
    PROVE  OrderlyInv'
<1> PICK i : i = Least(DOMAIN jobs[p])
  OBVIOUS
<1>1. pc[p] = "collect" /\ DOMAIN jobs[p] \subseteq Nat /\ DOMAIN jobs[p] # {} /\ want[p] = Count
  BY DEF Collect, IInv, SwarmInv, JobsAwaited, OrderlyInv, LoopAt
<1>2. i \in DOMAIN jobs[p]
  BY <1>1, LeastIn
<1>3. jobs' = [jobs EXCEPT ![p] = Drop(@, i)] /\ UNCHANGED <<tracker, disk>>
  BY DEF Collect
<1>4. \/ /\ WritePart(p, i, <<>>) /\ jobs[p][i].phase = "done"
         /\ Thread(p, "writing part", jobs[p][i].data, want[p], i)
      \/ Goto(p, "drain") /\ UNCHANGED parts
  BY DEF Collect
<1>5. /\ \A q \in Peers : q # p => jobs'[q] = jobs[q]
      /\ DOMAIN jobs'[p] = DOMAIN jobs[p] \ {i}
      /\ \A k \in DOMAIN jobs'[p] : jobs'[p][k] = jobs[p][k]
  BY <1>3, DropJobStep DEF IInv, SwarmInv, TypeOK, SameJobs
<1>6. CASE /\ WritePart(p, i, <<>>) /\ jobs[p][i].phase = "done"
           /\ Thread(p, "writing part", jobs[p][i].data, want[p], i)
  <2>1. /\ i \in Nat /\ i < Count /\ i \notin DOMAIN parts[p]
        /\ \A d \in Dirs : disk[p][d] = NoFile
        /\ jobs[p][i].src \in Peers /\ Serves(jobs[p][i].src, i)
        /\ jobs[p][i].data = Piece(i)
    BY <1>2, <1>6, JobAt
  <2>2. /\ \A q \in Peers : q # p => parts'[q] = parts[q]
        /\ DOMAIN parts'[p] = DOMAIN parts[p] \cup {i}
        /\ \A k \in DOMAIN parts[p] : k # i => parts'[p][k] = parts[p][k]
    BY <1>6 DEF WritePart, Put, IInv, SwarmInv, TypeOK, StoreOK
  <2>3. /\ pc'[p] = "writing part" /\ todo'[p] = Piece(i) /\ want'[p] = Count /\ at'[p] = i
        /\ \A q \in Peers : q # p => /\ pc'[q] = pc[q] /\ todo'[q] = todo[q]
                                     /\ want'[q] = want[q] /\ at'[q] = at[q]
    <3>1. /\ pc'[p] = "writing part" /\ todo'[p] = jobs[p][i].data /\ want'[p] = want[p] /\ at'[p] = i
          /\ \A q \in Peers : q # p => /\ pc'[q] = pc[q] /\ todo'[q] = todo[q]
                                       /\ want'[q] = want[q] /\ at'[q] = at[q]
      BY <1>6 DEF Thread, IInv, SwarmInv, TypeOK, ThreadsOK
    <3> QED
      BY <1>1, <2>1, <3>1
  <2>4. \A q \in Peers : q # p => SameState(q)
    BY <1>3, <1>5, <2>2, <2>3 DEF SameState
  <2>5. disk[p]["shared"] # Original
    BY <2>1, OriginalType, ContentExists DEF Dirs
  <2>6. Stable
    BY <1>3, <2>1, <2>2, <2>5 DEF Stable, Serves
  <2>7. SharedAt(p)' /\ DownloadsAt(p)' /\ LoopAt(p)'
    BY <1>3, <2>1, <2>3 DEF SharedAt, DownloadsAt, LoopAt, Dirs
  <2>8. JobsAt(p)'
    <3>1. \A k \in DOMAIN jobs'[p] : k \in DOMAIN jobs[p] /\ k \notin DOMAIN parts'[p]
      BY <1>5, <2>2, JobAt
    <3> QED
      BY <1>3, <1>5, <2>6, <3>1, JobsKept
  <2>9. PartsAt(p)'
    <3>1. \A k \in DOMAIN parts'[p] : k < Count /\ (k = i \/ parts'[p][k] = Piece(k))
      BY <1>1, <2>1, <2>2 DEF IInv, OrderlyInv, PartsAt, Writing
    <3>2. \E q \in Peers : Serves(q, i)'
      <4>1. PICK s \in Peers : Serves(s, i)
        BY <2>1
      <4> QED
        BY <2>1, <2>6, <4>1 DEF Stable
    <3> QED
      BY <2>2, <2>3, <3>1, <3>2 DEF PartsAt, Writing, Serves
  <2>10. ListedServe'
    BY <1>3, <2>6, ListedKept
  <2> QED
    BY <2>4, <2>6, <2>7, <2>8, <2>9, <2>10, PeerStepOrderly DEF Own
<1>7. CASE Goto(p, "drain") /\ UNCHANGED parts
  <2>1. UNCHANGED store /\ Stable
    BY <1>3, <1>7, StoreStable DEF store
  <2>2. /\ pc'[p] = "drain"
        /\ \A q \in Peers : q # p => /\ pc'[q] = pc[q] /\ todo'[q] = todo[q]
                                     /\ want'[q] = want[q] /\ at'[q] = at[q]
    BY <1>7, ThreadState DEF IInv, SwarmInv, TypeOK, Goto
  <2>3. \A q \in Peers : q # p => SameState(q)
    BY <1>3, <1>5, <1>7, <2>2 DEF SameState
  <2>4. JobsAt(p)'
    <3>1. \A k \in DOMAIN jobs'[p] : k \in DOMAIN jobs[p] /\ k \notin DOMAIN parts'[p]
      BY <1>5, <1>7, JobAt
    <3> QED
      BY <1>3, <1>5, <2>1, <3>1, JobsKept
  <2>5. ListedServe'
    BY <1>3, <2>1, ListedKept
  <2> QED
    BY <1>1, <2>1, <2>2, <2>3, <2>4, <2>5, RequestMoves DEF Settled, LoopAt
<1> QED
  BY <1>4, <1>6, <1>7

LEMMA PartWrittenOrderly ==
    ASSUME Orderly, IInv, NEW p \in Peers, PartWritten(p)
    PROVE  OrderlyInv'
<1> DEFINE i == at[p]
<1>1. /\ pc[p] = "writing part" /\ WritePart(p, i, todo[p]) /\ UNCHANGED <<tracker, disk, jobs>>
      /\ Thread(p, "have", <<>>, want[p], i)
  BY DEF PartWritten
<1>2. i \in DOMAIN parts[p] /\ todo[p] = Piece(i) /\ want[p] = Count
  BY <1>1 DEF IInv, OrderlyInv, PartsAt, LoopAt
<1>3. /\ \A q \in Peers : q # p => parts'[q] = parts[q]
      /\ DOMAIN parts'[p] = DOMAIN parts[p]
      /\ \A k \in DOMAIN parts[p] : parts'[p][k] = IF k = i THEN Piece(i) ELSE parts[p][k]
  BY <1>1, <1>2 DEF WritePart, Put, IInv, SwarmInv, TypeOK, StoreOK
<1>4. /\ pc'[p] = "have" /\ want'[p] = Count
      /\ \A q \in Peers : q # p => /\ pc'[q] = pc[q] /\ todo'[q] = todo[q]
                                   /\ want'[q] = want[q] /\ at'[q] = at[q]
  BY <1>1, <1>2, ThreadState DEF IInv, SwarmInv, TypeOK
<1>5. \A q \in Peers : q # p => SameState(q)
  BY <1>1, <1>3, <1>4 DEF SameState
<1>6. Stable
  BY <1>1, <1>3 DEF Stable, Serves
<1>7. SharedAt(p)' /\ DownloadsAt(p)' /\ LoopAt(p)'
  BY <1>1, <1>3, <1>4 DEF IInv, OrderlyInv, SharedAt, DownloadsAt, Assembled, LoopAt
<1>8. JobsAt(p)'
  <2>1. \A k \in DOMAIN jobs[p] : k \notin DOMAIN parts'[p]
    BY <1>3, JobAt
  <2> QED
    BY <1>1, <1>6, <2>1, JobsKept
<1>9. PartsAt(p)'
  <2>1. ASSUME NEW k \in DOMAIN parts[p]
        PROVE  k < Count /\ parts'[p][k] = Piece(k)
    <3>1. k < Count /\ (k = i \/ parts[p][k] = Piece(k))
      BY DEF IInv, OrderlyInv, PartsAt, Writing
    <3> QED
      BY <1>3, <3>1
  <2> QED
    BY <1>3, <1>4, <2>1 DEF PartsAt
<1>10. ListedServe'
  BY <1>1, <1>6, ListedKept
<1> QED
  BY <1>5, <1>6, <1>7, <1>8, <1>9, <1>10, PeerStepOrderly DEF Own

(* The source of a piece is listed for it. *)
LEMMA SourceListed ==
    ASSUME NEW heard, DOMAIN heard \subseteq Peers, NEW p \in Peers, NEW i, Listing(heard, i) # {}
    PROVE  source_for_piece(heard, p, i) \in Listing(heard, i)
<1>1. Listing(heard, i) \ {p} \subseteq Nat
  BY SwarmAssumption DEF Listing
<1>2. CASE Listing(heard, i) \ {p} # {}
  <2>1. Least(Listing(heard, i) \ {p}) \in Listing(heard, i) \ {p}
    BY <1>1, <1>2, LeastIn
  <2> QED
    BY <1>2, <2>1 DEF source_for_piece
<1>3. CASE Listing(heard, i) \ {p} = {}
  BY <1>3 DEF source_for_piece
<1> QED
  BY <1>2, <1>3

(* A reply that breaks off leaves out sources, and says nothing false. *)
LEMMA RepliesTrue ==
    ASSUME NEW heard \in Replies
    PROVE  \A q \in DOMAIN heard : /\ q \in DOMAIN Tracker!query(TheFile)
                                   /\ heard[q] = Tracker!query(TheFile)[q]
<1> DEFINE all == Tracker!query(TheFile)
           upto(k) == [q \in {x \in DOMAIN all : x < k} |-> all[q]]
<1>1. heard = all \/ \E k \in Peers : heard = upto(k)
  BY DEF Replies
<1> QED
  BY <1>1

LEMMA QueryPiecesOrderly ==
    ASSUME Orderly, IInv, NEW p \in Peers, QueryPieces(p)
    PROVE  OrderlyInv'
<1> DEFINE gaps(h, n) == {i \in 0 .. n - 1 : /\ i \notin CompletePieceIds(p, n)
                                             /\ Listing(h, i) # {}}
           asked(h, n) == [i \in gaps(h, n) |-> NewJob(source_for_piece(h, p, i))]
<1>1. files[TheFile].piece_count = Count
  BY DEF QueryPieces, IInv, OrderlyInv, ListedServe
<1>2. PICK heard \in Replies : /\ jobs' = [jobs EXCEPT ![p] = asked(heard, Count)]
                               /\ Thread(p, "collect", <<>>, Count, 0)
  <2>1. PICK h \in Replies : /\ jobs' = [jobs EXCEPT ![p] = asked(h, files[TheFile].piece_count)]
                             /\ Thread(p, "collect", <<>>, files[TheFile].piece_count, 0)
    BY DEF QueryPieces
  <2> QED
    BY <1>1, <2>1
<1> DEFINE missing == gaps(heard, Count)
           new == asked(heard, Count)
<1>3. /\ jobs' = [jobs EXCEPT ![p] = new] /\ Thread(p, "collect", <<>>, Count, 0)
      /\ pc[p] = "query pieces" /\ UNCHANGED <<tracker, store>>
  BY <1>2 DEF QueryPieces
<1>4. ASSUME NEW i \in missing
      PROVE  /\ i \in Nat /\ i < Count /\ i \notin DOMAIN parts[p] /\ ~HasLocal(p)
             /\ source_for_piece(heard, p, i) \in Peers
             /\ Serves(source_for_piece(heard, p, i), i)
  <2>1. i \in 0 .. Count - 1 /\ i \in Nat /\ i < Count
    BY OriginalType
  <2>2. ~HasLocal(p)
    <3> SUFFICES ASSUME HasLocal(p) PROVE FALSE
      OBVIOUS
    <3>1. LocalContent(p) = Original
      BY <1>3, LocalWhole DEF Settled
    <3>2. CompletePieceIds(p, Count) = 0 .. Count - 1
      BY <3>1 DEF CompletePieceIds, Count
    <3> QED
      BY <3>2
  <2>3. i \notin DOMAIN parts[p]
    BY <2>1, <2>2 DEF CompletePieceIds
  <2>4. DOMAIN heard \subseteq Peers
    BY RepliesType
  <2>5. source_for_piece(heard, p, i) \in Listing(heard, i)
    BY <2>4, SourceListed
  <2>6. \A q \in Listing(heard, i) : q \in Peers /\ <<i, q>> \in Tracker!Owners(TheFile)
    <3>1. Tracker!Owners(TheFile) \subseteq Nat \X Peers
      BY OwnersType DEF IInv, SwarmInv, TypeOK, TrackerOK
    <3>2. ASSUME NEW q \in Listing(heard, i)
          PROVE  q \in Peers /\ <<i, q>> \in Tracker!Owners(TheFile)
      <4>1. q \in DOMAIN heard /\ i \in heard[q]
        BY <3>2 DEF Listing
      <4>2. q \in DOMAIN Tracker!query(TheFile) /\ i \in Tracker!query(TheFile)[q]
        BY <4>1, RepliesTrue
      <4>3. \E o \in Tracker!Owners(TheFile) : o[2] = q /\ o[1] = i
        BY <4>2 DEF Tracker!query
      <4> QED
        BY <2>4, <3>1, <4>1, <4>3
    <3> QED
      BY <3>2
  <2>7. \A q : <<i, q>> \in Tracker!Owners(TheFile) => Serves(q, i)
    BY DEF IInv, OrderlyInv, ListedServe
  <2> QED
    BY <2>1, <2>2, <2>3, <2>5, <2>6, <2>7
<1>5. /\ DOMAIN new = missing
      /\ \A i \in missing : /\ new[i].src = source_for_piece(heard, p, i)
                            /\ new[i].phase = "sent"
  BY DEF NewJob
<1> HIDE DEF new, missing
<1>6. jobs'[p] = new /\ \A q \in Peers : q # p => jobs'[q] = jobs[q]
  BY <1>3 DEF IInv, SwarmInv, TypeOK, JobsOK
<1>7. UNCHANGED <<disk, parts>>
  BY <1>3 DEF store
<1>8. JobsAt(p)'
  <2>1. ~HasLocal(p)' <=> ~HasLocal(p)
    BY <1>7 DEF HasLocal
  <2> QED
    BY <1>4, <1>5, <1>6, <1>7, <2>1 DEF JobsAt, Serves
<1>9. /\ pc'[p] = "collect" /\ want'[p] = Count
      /\ \A q \in Peers : q # p => SameState(q)
  <2>1. /\ pc'[p] = "collect" /\ want'[p] = Count
        /\ \A q \in Peers : q # p => /\ pc'[q] = pc[q] /\ todo'[q] = todo[q]
                                     /\ want'[q] = want[q] /\ at'[q] = at[q]
    BY <1>3, ThreadState DEF IInv, SwarmInv, TypeOK
  <2> QED
    BY <1>6, <1>7, <2>1 DEF SameState
<1>10. ListedServe'
  BY <1>3, ListedKept, StoreStable
<1> QED
  BY <1>3, <1>8, <1>9, <1>10, RequestMoves DEF Settled, LoopAt

LEMMA DrainedOrderly ==
    ASSUME Orderly, IInv, NEW p \in Peers, Drained(p)
    PROVE  OrderlyInv'
<1>1. /\ pc[p] = "drain" /\ jobs' = [jobs EXCEPT ![p] = <<>>] /\ UNCHANGED <<tracker, store>>
      /\ Thread(p, "idle", <<>>, 0, 0)
  BY DEF Drained, Return
<1>2. /\ DOMAIN jobs'[p] = {} /\ \A q \in Peers : q # p => jobs'[q] = jobs[q]
  BY <1>1 DEF IInv, SwarmInv, TypeOK, JobsOK
<1>3. pc'[p] = "idle" /\ \A q \in Peers : q # p => SameState(q)
  BY <1>1, <1>2, ThreadState DEF IInv, SwarmInv, TypeOK, SameState, store
<1>4. JobsAt(p)'
  BY <1>2 DEF JobsAt
<1>5. ListedServe'
  BY <1>1, ListedKept, StoreStable
<1> QED
  BY <1>1, <1>3, <1>4, <1>5, RequestMoves DEF Settled, LoopAt

-----------------------------------------------------------------------------
(* Upload threads *)

LEMMA SetJobOrderly ==
    ASSUME Orderly, IInv, NEW p \in Peers, NEW r \in DOMAIN jobs[p], NEW j \in Job, SetJob(p, r, j),
           j.src = jobs[p][r].src,
           j.phase = "serving" => IF j.path = "part" THEN j.size = Len(Piece(r))
                                  ELSE j.path = "shared" /\ disk[j.src]["shared"] = Original,
           j.phase = "done" => j.data = Piece(r)
    PROVE  OrderlyInv'
<1>1. UNCHANGED <<tracker, thread, store>> /\ jobs' = [jobs EXCEPT ![p] = Put(@, r, j)]
  BY DEF SetJob
<1>2. UNCHANGED <<pc, todo, want, at, disk, parts>>
  BY <1>1 DEF thread, store
<1>3. /\ \A q \in Peers : q # p => jobs'[q] = jobs[q]
      /\ DOMAIN jobs'[p] = DOMAIN jobs[p]
      /\ \A x \in DOMAIN jobs[p] : jobs'[p][x] = IF x = r THEN j ELSE jobs[p][x]
  BY <1>1 DEF Put, IInv, SwarmInv, TypeOK, JobsOK
<1>4. JobsAt(p)'
  <2>1. ASSUME NEW x \in DOMAIN jobs[p]
        PROVE  /\ x < Count /\ x \notin DOMAIN parts[p] /\ ~HasLocal(p)
               /\ jobs'[p][x].src = jobs[p][x].src /\ Serves(jobs[p][x].src, x)
               /\ jobs'[p][x].phase = "serving" =>
                    IF jobs'[p][x].path = "part" THEN jobs'[p][x].size = Len(Piece(x))
                    ELSE jobs'[p][x].path = "shared" /\ disk[jobs[p][x].src]["shared"] = Original
               /\ jobs'[p][x].phase = "done" => jobs'[p][x].data = Piece(x)
    BY <1>3 DEF IInv, OrderlyInv, JobsAt
  <2> QED
    BY <1>2, <1>3, <2>1 DEF JobsAt, Serves, HasLocal
<1>5. SharedAt(p)' /\ DownloadsAt(p)' /\ PartsAt(p)' /\ LoopAt(p)'
  <2>1. SharedAt(p)' /\ DownloadsAt(p)' /\ LoopAt(p)'
    BY <1>2 DEF IInv, OrderlyInv, SharedAt, DownloadsAt, Assembled, LoopAt
  <2>2. PartsAt(p)'
    <3>1. /\ \A i \in DOMAIN parts[p] : i < Count /\ (Writing(p, i) \/ parts[p][i] = Piece(i))
          /\ pc[p] = "writing part" => /\ at[p] \in DOMAIN parts[p] /\ todo[p] = Piece(at[p])
                                       /\ \E s \in Peers : Serves(s, at[p])
      BY DEF IInv, OrderlyInv, PartsAt
    <3> QED
      BY <1>2, <3>1 DEF PartsAt, Writing, Serves
  <2> QED
    BY <2>1, <2>2
<1>6. \A q \in Peers : q # p => SameState(q)
  BY <1>2, <1>3 DEF SameState
<1>7. Stable /\ ListedServe'
  BY <1>1, StoreStable, ListedKept
<1> QED
  BY <1>4, <1>5, <1>6, <1>7, PeerStepOrderly DEF Own

LEMMA ServeOpenOrderly ==
    ASSUME Orderly, IInv, NEW p \in Peers, NEW r \in DOMAIN jobs[p], ServeOpen(p, r)
    PROVE  OrderlyInv'
<1> DEFINE j == jobs[p][r]
           q == j.src
           part == [j EXCEPT !.phase = "serving", !.path = "part", !.size = Len(parts[q][r])]
           file == [j EXCEPT !.phase = "serving", !.path = LocalDir(q),
                             !.size = Len(LocalContent(q))]
           none == [j EXCEPT !.phase = "failed"]
<1>1. j \in Job /\ q \in Peers /\ r \in Nat /\ Serves(q, r)
  BY JobsArePieces, JobAt
<1>2. StoreOK
  BY DEF IInv, SwarmInv, TypeOK
<1>3. CASE r \in DOMAIN parts[q]
  <2>1. parts[q][r] = Piece(r) /\ Len(Piece(r)) \in Nat
    BY <1>1, <1>3, PieceType DEF Serves, Content
  <2>2. part \in Job /\ part.src = q /\ part.phase = "serving" /\ part.path = "part"
        /\ part.size = Len(Piece(r))
    BY <1>1, <2>1 DEF Job
  <2>3. SetJob(p, r, part)
    BY <1>3 DEF ServeOpen
  <2> HIDE DEF part
  <2> QED
    BY <2>2, <2>3, SetJobOrderly
<1>4. CASE r \notin DOMAIN parts[q]
  <2>1. disk[q]["shared"] = Original /\ Original # NoFile
    BY <1>1, <1>4, OriginalType, ContentExists DEF Serves
  <2>2. HasLocal(q) /\ LocalDir(q) = "shared" /\ LocalContent(q) = Original
    BY <2>1 DEF HasLocal, LocalDir, LocalContent, Dirs
  <2>3. file \in Job /\ file.src = q /\ file.phase = "serving" /\ file.path = "shared"
    BY <1>1, <2>2, OriginalType DEF Job, Dirs
  <2>4. SetJob(p, r, file)
    BY <1>4, <2>2 DEF ServeOpen
  <2> HIDE DEF file
  <2> QED
    BY <2>1, <2>3, <2>4, SetJobOrderly
<1> QED
  BY <1>3, <1>4

LEMMA ServeReadOrderly ==
    ASSUME Orderly, IInv, NEW p \in Peers, NEW r \in DOMAIN jobs[p], ServeRead(p, r)
    PROVE  OrderlyInv'
<1> DEFINE j == jobs[p][r]
           c == IF j.path = "part" THEN parts[j.src][r] ELSE disk[j.src][j.path]
           d == IF j.path = "part" \/ r = Whole THEN Fit(c, j.size) ELSE PieceAt(c, r)
           done == [j EXCEPT !.phase = "done", !.data = d]
<1>1. j \in Job /\ j.src \in Peers /\ r \in Nat /\ Serves(j.src, r) /\ j.phase = "serving"
  BY JobsArePieces, JobAt DEF ServeRead
<1>2. r # Whole /\ Piece(r) \in Content
  BY <1>1, PieceType DEF Whole
<1>3. d = Piece(r)
  <2>1. CASE j.path = "part"
    <3>1. r \in DOMAIN parts[j.src]
      BY <1>1, <2>1 DEF IInv, SwarmInv, ReadsExist
    <3>2. c = Piece(r) /\ j.size = Len(Piece(r))
      BY <1>1, <2>1, <3>1, JobAt DEF Serves
    <3> QED
      BY <1>2, <2>1, <3>2, FitWhole
  <2>2. CASE j.path # "part"
    <3>1. c = Original
      BY <1>1, <2>2, JobAt
    <3> QED
      BY <1>2, <2>2, <3>1 DEF Piece
  <2> QED
    BY <2>1, <2>2
<1>4. SetJob(p, r, done)
  BY DEF ServeRead
<1> HIDE DEF d
<1>5. done \in Job /\ done.src = j.src /\ done.phase = "done" /\ done.data = Piece(r)
  BY <1>1, <1>2, <1>3 DEF Job
<1> HIDE DEF done
<1> QED
  BY <1>4, <1>5, SetJobOrderly

LEMMA JobFailsOrderly ==
    ASSUME Orderly, IInv, NEW p \in Peers, NEW r \in DOMAIN jobs[p], JobFails(p, r)
    PROVE  OrderlyInv'
<1> DEFINE failed == [jobs[p][r] EXCEPT !.phase = "failed"]
<1>1. failed \in Job /\ failed.src = jobs[p][r].src /\ failed.phase = "failed"
  BY JobsArePieces DEF Job
<1>2. SetJob(p, r, failed)
  BY DEF JobFails
<1> HIDE DEF failed
<1> QED
  BY <1>1, <1>2, SetJobOrderly

-----------------------------------------------------------------------------
(* Stops and restarts *)

(* A process ends between two commands; whoever it was serving sees a failure. *)
LEMMA QuitOrderly ==
    ASSUME Orderly, IInv, NEW p \in Peers, Quit(p)
    PROVE  OrderlyInv'
<1>1. pc[p] = "idle" /\ Thread(p, "down", <<>>, 0, 0) /\ UNCHANGED <<tracker, store>>
  BY DEF Quit, Stop
<1>2. UNCHANGED <<disk, parts>> /\ Stable /\ ListedServe'
  BY <1>1, StoreStable, ListedKept DEF store
<1>3. /\ pc'[p] = "down" /\ \A q \in Peers : q # p => /\ pc'[q] = pc[q] /\ todo'[q] = todo[q]
                                                     /\ want'[q] = want[q] /\ at'[q] = at[q]
  BY <1>1, ThreadState DEF IInv, SwarmInv, TypeOK
<1>4. DOMAIN jobs'[p] = {}
  BY DEF Quit, Stop
<1>5. ASSUME NEW q \in Peers, q # p
      PROVE  JobsAt(q)'
  <2>1. jobs'[q] = [r \in DOMAIN jobs[q] |->
                      IF jobs[q][r].src = p /\ jobs[q][r].phase = "serving"
                      THEN [jobs[q][r] EXCEPT !.phase = "failed"] ELSE jobs[q][r]]
    BY <1>5 DEF Quit, Stop
  <2>2. ASSUME NEW r \in DOMAIN jobs[q]
        PROVE  /\ jobs'[q][r].src = jobs[q][r].src
               /\ jobs'[q][r].phase \in {"serving", "done"} => jobs'[q][r] = jobs[q][r]
    <3>1. jobs[q][r] \in Job
      BY JobsArePieces
    <3>2. LET f == [jobs[q][r] EXCEPT !.phase = "failed"]
          IN  f.src = jobs[q][r].src /\ f.phase = "failed"
      BY <3>1 DEF Job
    <3> QED
      BY <2>1, <3>2
  <2>3. DOMAIN jobs'[q] = DOMAIN jobs[q]
    BY <2>1
  <2>4. ASSUME NEW r \in DOMAIN jobs[q]
        PROVE  /\ r < Count /\ r \notin DOMAIN parts[q] /\ ~HasLocal(q)
               /\ Serves(jobs[q][r].src, r)
               /\ jobs'[q][r].phase = "serving" =>
                    IF jobs'[q][r].path = "part" THEN jobs'[q][r].size = Len(Piece(r))
                    ELSE jobs'[q][r].path = "shared" /\ disk[jobs[q][r].src]["shared"] = Original
               /\ jobs'[q][r].phase = "done" => jobs'[q][r].data = Piece(r)
    BY <2>2 DEF IInv, OrderlyInv, JobsAt
  <2> QED
    BY <1>2, <2>2, <2>3, <2>4 DEF JobsAt, Serves, HasLocal
<1>6. ASSUME NEW q \in Peers, q # p
      PROVE  Own(q)'
  <2>1. SharedAt(q)' /\ DownloadsAt(q)' /\ LoopAt(q)'
    <3>1. SharedAt(q) /\ DownloadsAt(q) /\ LoopAt(q)
      BY <1>6 DEF IInv, OrderlyInv
    <3>2. /\ pc'[q] = pc[q] /\ todo'[q] = todo[q] /\ want'[q] = want[q] /\ at'[q] = at[q]
          /\ disk' = disk /\ parts' = parts
      BY <1>2, <1>3, <1>6
    <3> QED
      BY <3>1, <3>2 DEF SharedAt, DownloadsAt, Assembled, LoopAt
  <2>2. PartsAt(q)'
    <3>1. /\ \A i \in DOMAIN parts[q] : i < Count /\ (Writing(q, i) \/ parts[q][i] = Piece(i))
          /\ pc[q] = "writing part" => /\ at[q] \in DOMAIN parts[q] /\ todo[q] = Piece(at[q])
                                       /\ \E s \in Peers : Serves(s, at[q])
      BY <1>6 DEF IInv, OrderlyInv, PartsAt
    <3>2. pc'[q] = pc[q] /\ todo'[q] = todo[q] /\ at'[q] = at[q] /\ parts' = parts /\ disk' = disk
      BY <1>2, <1>3, <1>6
    <3> QED
      BY <3>1, <3>2 DEF PartsAt, Writing, Serves
  <2> QED
    BY <1>5, <1>6, <2>1, <2>2 DEF Own
<1>7. Own(p)'
  <2>1. Settled(p)
    BY <1>1 DEF Settled
  <2>2. SharedAt(p)'
    BY <1>2, <1>3, <2>1, SharedWhole DEF SharedAt
  <2>3. DownloadsAt(p)'
    <3> SUFFICES ASSUME disk[p]["downloads"] # NoFile, disk[p]["shared"] = NoFile
                 PROVE  Assembled(p)' /\ 0 .. Count - 1 \subseteq DOMAIN parts[p]
      BY <1>2 DEF DownloadsAt
    <3>1. disk[p]["downloads"] = Original
      BY <2>1, AssembledWhole
    <3> QED
      BY <1>2, <1>3, <3>1 DEF Assembled, IInv, OrderlyInv, DownloadsAt
  <2>4. PartsAt(p)'
    BY <1>1, <1>2, <1>3 DEF IInv, OrderlyInv, PartsAt, Writing
  <2>5. LoopAt(p)' /\ JobsAt(p)'
    BY <1>3, <1>4 DEF LoopAt, JobsAt
  <2> QED
    BY <2>2, <2>3, <2>4, <2>5 DEF Own
<1> QED
  BY <1>2, <1>6, <1>7 DEF OrderlyInv, Own

(* What a peer has and waits for does not depend on the tracker. *)
LEMMA TrackerOnlyOrderly ==
    ASSUME IInv, UNCHANGED <<thread, store, jobs>>, ListedServe'
    PROVE  OrderlyInv'
<1>1. \A q \in Peers : SameState(q)
  BY DEF SameState, thread, store
<1>2. \A q \in Peers : Own(q)'
  BY <1>1, StoreStable, OtherPeer
<1> QED
  BY <1>2 DEF OrderlyInv, Own

LEMMA TrackerStopOrderly ==
    ASSUME IInv, TrackerStop
    PROVE  OrderlyInv'
<1>1. ~Tracker!Known(TheFile)'
  BY DEF TrackerStop, Tracker!Known
<1>2. Tracker!Owners(TheFile)' = {}
  BY <1>1 DEF Tracker!Owners
<1>3. ListedServe'
  BY <1>1, <1>2 DEF ListedServe
<1> QED
  BY <1>3, TrackerOnlyOrderly DEF TrackerStop

LEMMA TrackerSameOrderly ==
    ASSUME IInv, TrackerStart \/ UNCHANGED vars \/ \E p \in Peers : Listen(p)
    PROVE  OrderlyInv'
<1>1. UNCHANGED <<peers, files, thread, store, jobs>>
  BY DEF TrackerStart, Listen, vars, tracker
<1>2. Stable
  BY <1>1, StoreStable
<1>3. ListedServe'
  BY <1>1 DEF IInv, OrderlyInv, ListedServe, Tracker!Known, Tracker!Owners, Serves, store
<1> QED
  BY <1>1, <1>3, TrackerOnlyOrderly

-----------------------------------------------------------------------------
LEMMA OrderlyInit == Init => OrderlyInv
<1> SUFFICES ASSUME Init PROVE OrderlyInv
  OBVIOUS
<1>1. DOMAIN <<>> = {}
  OBVIOUS
<1>2. ASSUME NEW p \in Peers
      PROVE  Own(p)
  <2>1. DOMAIN parts[p] = {} /\ DOMAIN jobs[p] = {} /\ pc[p] = "down"
    BY <1>1 DEF Init
  <2>2. \A d \in Dirs : disk[p][d] = NoFile
    BY DEF Init
  <2> QED
    BY <2>1, <2>2 DEF Own, SharedAt, DownloadsAt, PartsAt, LoopAt, JobsAt, Dirs
<1>3. ListedServe
  <2>1. ~Tracker!Known(TheFile)
    BY DEF Init, Tracker!Init, Tracker!Known
  <2> QED
    BY <2>1 DEF ListedServe, Tracker!Owners
<1> QED
  BY <1>2, <1>3 DEF OrderlyInv, Own

LEMMA OrderlyNext == Orderly /\ IInv /\ [Next]_vars => IInv'
<1> SUFFICES ASSUME Orderly, IInv, [Next]_vars PROVE IInv'
  OBVIOUS
<1>1. ASSUME NEW p \in Peers, UserStep(p) PROVE OrderlyInv'
  <2>1. ~DownloadFile(p)
    BY DEF DownloadFile, Command, Orderly
  <2> QED
    BY <1>1, <2>1, StartOrderly, AddOrderly, OtherCommandOrderly DEF UserStep
<1>2. ASSUME NEW p \in Peers, PeerStep(p) PROVE OrderlyInv'
  <2>1. pc[p] \notin {"query file", "fetching", "saving"}
    BY DEF IInv, OrderlyInv, LoopAt
  <2>2. ~QueryFile(p) /\ ~Fetched(p)
    BY <2>1 DEF QueryFile, Fetched
  <2> QED
    BY <1>2, <2>2, WriteChunkOrderly, AnnounceOrderly, FailedCallOrderly, QueryPiecesOrderly,
       CollectOrderly, PartWrittenOrderly, HavePartOrderly, DrainedOrderly, CollectedOrderly,
       AppendPartOrderly, ClaimOrderly
       DEF PeerStep
<1>3. ASSUME NEW p \in Peers, JobStep(p) PROVE OrderlyInv'
  BY <1>3, ServeOpenOrderly, ServeReadOrderly, JobFailsOrderly DEF JobStep
<1>4. ASSUME NEW p \in Peers, Quit(p) \/ Crash(p) PROVE OrderlyInv'
  <2>1. ~Crash(p)
    BY DEF Crash, Orderly
  <2> QED
    BY <1>4, <2>1, QuitOrderly
<1>5. ASSUME TrackerStop PROVE OrderlyInv'
  BY <1>5, TrackerStopOrderly
<1>6. ASSUME \/ TrackerStart \/ Quiet \/ UNCHANGED vars
             \/ \E p \in Peers : Listen(p)
      PROVE  OrderlyInv'
  BY <1>6, TrackerSameOrderly DEF Quiet
<1>7. OrderlyInv'
  BY <1>1, <1>2, <1>3, <1>4, <1>5, <1>6 DEF Next
<1> QED
  BY <1>7, NextInv DEF IInv

LEMMA OrderlyAlways ==
    ASSUME Orderly
    PROVE  Spec => []IInv
<1>1. Init => IInv
  BY InitInv, OrderlyInit DEF IInv
<1>2. IInv /\ [Next]_vars => IInv'
  BY OrderlyNext
<1> QED
  BY <1>1, <1>2, PTL DEF Spec

(* The invariant of orderly workloads *)
THEOREM OrderlyInvariant ==
    ASSUME Orderly
    PROVE  Spec => []OrderlyInv
<1>1. IInv => OrderlyInv
  BY DEF IInv
<1> QED
  BY <1>1, OrderlyAlways, PTL

(* Every peer that the tracker lists for a piece answers GET_PIECE with that
   piece of the original, in every state: also while it copies, downloads or
   assembles, after it was restarted and after the tracker was. *)
THEOREM OwnersServe ==
    ASSUME Orderly
    PROVE  Spec => []OwnerServes
<1>1. IInv => OwnerServes
  <2> SUFFICES ASSUME IInv, NEW o \in Tracker!Owners(TheFile)
               PROVE  Genuine(Served(o[2], o[1]), o[1])
    BY DEF OwnerServes
  <2>1. o[1] \in Nat /\ o[2] \in Peers
    BY OwnersType DEF IInv, SwarmInv, TypeOK, TrackerOK
  <2>2. Served(o[2], o[1]) = Piece(o[1])
    BY <2>1, ServesServed DEF IInv, OrderlyInv, ListedServe
  <2>3. PICK v \in Versions : Original = Data(v)
    BY OriginalType
  <2> QED
    BY <2>2, <2>3 DEF Genuine, Piece
<1> QED
  BY <1>1, OrderlyAlways, PTL

(* Whatever a peer announces with ADD_FILE is a file that is complete: copied
   to its end, or assembled from all the pieces, each once and in order. *)
THEOREM AnnouncedWhole ==
    ASSUME Orderly
    PROVE  Spec => []AnnouncesWhole
<1>1. IInv => AnnouncesWhole
  <2> SUFFICES ASSUME IInv, NEW p \in Peers, FileWritten(p)
               PROVE  \E v \in Versions : LocalContent(p) = Data(v)
    BY DEF AnnouncesWhole
  <2>1. pc[p] # "saving"
    BY DEF IInv, OrderlyInv, LoopAt
  <2>2. Settled(p) /\ HasLocal(p)
    BY <2>1 DEF FileWritten, Settled, HasLocal, Dirs, IInv, SwarmInv, WritesExist
  <2> QED
    BY <2>2, LocalWhole, OriginalType
<1> QED
  BY <1>1, OrderlyAlways, PTL

(* A file that the tracker knows can be had in full, at every moment: each piece
   has an owner, and the owner answers with it. *)
THEOREM EveryPieceAvailable ==
    ASSUME Orderly
    PROVE  Spec => []PiecesAvailable
<1>1. Tracker!EveryPieceHasOwner /\ OwnerServes => PiecesAvailable
  <2> SUFFICES ASSUME Tracker!EveryPieceHasOwner, OwnerServes, Tracker!Known(TheFile),
                      NEW i \in 0 .. files[TheFile].piece_count - 1
               PROVE  \E p \in Peers : /\ <<i, p>> \in Tracker!Owners(TheFile)
                                       /\ Genuine(Served(p, i), i)
    BY DEF PiecesAvailable
  <2>1. PICK p \in Peers : <<i, p>> \in files[TheFile].owners
    BY DEF Tracker!EveryPieceHasOwner
  <2>2. <<i, p>> \in Tracker!Owners(TheFile)
    BY <2>1 DEF Tracker!Owners
  <2>3. Genuine(Served(p, i), i)
    BY <2>2 DEF OwnerServes
  <2> QED
    BY <2>2, <2>3
<1> QED
  BY <1>1, OwnersServe, EveryPieceOwned, PTL

-----------------------------------------------------------------------------
(* Only seeds copy files. *)
SeedsCopy == \A p \in Peers : pc[p] = "copying" /\ todo[p] # <<>> => p \in Seeds

LEMMA SeedsCopyNext == SwarmInv /\ SeedsCopy /\ [Next]_vars => SeedsCopy'
<1> SUFFICES ASSUME SwarmInv, SeedsCopy, [Next]_vars PROVE SeedsCopy'
  OBVIOUS
<1> DEFINE Kind(p) == pc'[p] = "copying" /\ todo'[p] # <<>> => p \in Seeds
<1>1. ThreadsOK
  BY DEF SwarmInv, TypeOK
<1>2. ASSUME NEW p \in Peers, NEW l, NEW c, NEW n, NEW i, Thread(p, l, c, n, i),
             l = "copying" /\ c # <<>> => p \in Seeds
      PROVE  SeedsCopy'
  BY <1>1, <1>2, ThreadState DEF SeedsCopy
<1>3. ASSUME UNCHANGED thread
      PROVE  SeedsCopy'
  BY <1>3 DEF SeedsCopy, thread
<1>4. ASSUME NEW p \in Peers, UserStep(p)
      PROVE  SeedsCopy'
  <2>1. ASSUME NEW v \in Versions, Add(p, v)
        PROVE  SeedsCopy'
    BY <1>2, <2>1 DEF Add
  <2>2. CASE Start(p) \/ DownloadFile(p) \/ DownloadPieces(p) \/ Have(p)
    BY <1>2, <2>2 DEF Start, DownloadFile, DownloadPieces, Have, Goto
  <2>3. CASE AddInPlace(p)
    BY <1>2, <2>3 DEF AddInPlace
  <2> QED
    BY <1>4, <2>1, <2>2, <2>3 DEF UserStep
<1>5. ASSUME NEW p \in Peers, PeerStep(p)
      PROVE  SeedsCopy'
  <2>1. CASE WriteChunk(p)
    BY <1>2, <2>1 DEF WriteChunk, SeedsCopy
  <2>2. CASE Announce(p) \/ QueryFails(p) \/ Fetched(p) \/ Drained(p) \/ Collected(p)
    BY <1>2, <2>2 DEF Announce, QueryFails, Fetched, Drained, Collected, Return
  <2>3. CASE AppendPart(p) \/ Claim(p) \/ CallRefused(p) \/ PartWritten(p) \/ HavePart(p)
    BY <1>2, <2>3 DEF AppendPart, Claim, CallRefused, PartWritten, HavePart, Return, Goto
  <2>4. CASE QueryFile(p) \/ QueryPieces(p) \/ Collect(p)
    BY <1>2, <2>4 DEF QueryFile, QueryPieces, Collect, Return, Goto
  <2> QED
    BY <1>5, <2>1, <2>2, <2>3, <2>4 DEF PeerStep
<1>6. ASSUME NEW p \in Peers, JobStep(p)
      PROVE  SeedsCopy'
  BY <1>3, <1>6 DEF JobStep, ServeOpen, ServeRead, JobFails, SetJob
<1>7. ASSUME NEW p \in Peers, Quit(p) \/ Crash(p)
      PROVE  SeedsCopy'
  BY <1>2, <1>7 DEF Quit, Crash, Stop
<1>8. ASSUME \/ TrackerStop \/ TrackerStart \/ Quiet \/ UNCHANGED vars
             \/ \E p \in Peers : Listen(p)
      PROVE  SeedsCopy'
  BY <1>3, <1>8 DEF TrackerStop, TrackerStart, Quiet, Listen, vars
<1> QED
  BY <1>4, <1>5, <1>6, <1>7, <1>8 DEF Next

-----------------------------------------------------------------------------
(* The pieces that a peer holds, in the sense of PieceDirectory *)

Held == {o \in VersionPieces \X Peers : /\ Served(o[2], o[1]) # <<>>
                                        /\ Genuine(Served(o[2], o[1]), o[1])}

(* An empty file is announced as one piece, which nobody can hold. *)
NotEmpty == \A v \in Versions : Pieces[v] > 0

LEMMA PiecesOfOriginal ==
    ASSUME Orderly, NotEmpty
    PROVE  /\ VersionPieces = 0 .. Count - 1
           /\ Count = Len(Original)
           /\ \A i \in VersionPieces : i \in Nat /\ i < Count
<1>1. PICK v \in Versions : Versions = {v}
  BY DEF Orderly
<1>2. Pieces[v] \in Nat /\ Pieces[v] > 0
  BY SwarmAssumption DEF NotEmpty
<1>3. Len(Original) = Pieces[v]
  <2>1. Original = Data(v)
    BY <1>1, OneVersion
  <2> QED
    BY <1>2, <2>1 DEF Data
<1>4. Count = Pieces[v]
  BY <1>2, <1>3, OriginalType
<1>5. VersionPieces = 0 .. Pieces[v] - 1
  BY <1>1 DEF VersionPieces
<1> QED
  BY <1>2, <1>3, <1>4, <1>5

LEMMA GenuinePiece ==
    ASSUME Orderly, NotEmpty, NEW i \in VersionPieces, NEW c
    PROVE  c # <<>> /\ Genuine(c, i) <=> c = Piece(i)
<1>1. i \in Nat /\ i < Len(Original)
  BY PiecesOfOriginal
<1>2. Piece(i) # <<>>
  <2>1. Piece(i) = <<Original[i + 1]>>
    BY <1>1, PieceType
  <2> QED
    BY <2>1
<1>3. Genuine(c, i) <=> c = Piece(i)
  <2>1. PICK v \in Versions : Original = Data(v)
    BY OriginalType
  <2> QED
    BY <2>1, OneVersion DEF Genuine, Piece
<1> QED
  BY <1>2, <1>3

LEMMA HeldPieces ==
    ASSUME Orderly, NotEmpty
    PROVE  /\ \A p \in Peers, i \in VersionPieces : <<i, p>> \in Held <=> Served(p, i) = Piece(i)
           /\ \A p \in Peers, i \in VersionPieces :
                 <<i, p>> \in Held' <=> Served(p, i)' = Piece(i)
<1>1. \A i \in VersionPieces : \A c : c # <<>> /\ Genuine(c, i) <=> c = Piece(i)
  BY GenuinePiece
<1>2. ASSUME NEW p \in Peers, NEW i \in VersionPieces
      PROVE  <<i, p>> \in Held <=> Served(p, i) = Piece(i)
  BY <1>1 DEF Held
<1>3. ASSUME NEW p \in Peers, NEW i \in VersionPieces
      PROVE  <<i, p>> \in Held' <=> Served(p, i)' = Piece(i)
  <2>1. <<i, p>> \in Held' <=> Served(p, i)' # <<>> /\ Genuine(Served(p, i)', i)
    BY DEF Held
  <2> QED
    BY <1>1, <2>1
<1> QED
  BY <1>2, <1>3

-----------------------------------------------------------------------------
(* The ways in which a step may change who holds and who is listed *)

Owned == Tracker!Owners(TheFile)
DirectoryStep == Directory!Next \/ UNCHANGED Directory!dvars

LEMMA HoldNothingNew ==
    ASSUME Orderly, NotEmpty, Owned' = Owned,
           \A p \in Peers, i \in VersionPieces : Served(p, i)' = Piece(i) <=> Served(p, i) = Piece(i)
    PROVE  DirectoryStep
<1>1. \A o \in VersionPieces \X Peers : o \in Held' <=> o \in Held
  BY HeldPieces
<1>2. Held' = Held
  BY <1>1 DEF Held
<1> QED
  BY <1>2 DEF DirectoryStep, Directory!dvars, Held, Owned

LEMMA HoldOneMore ==
    ASSUME Orderly, NotEmpty, Owned' = Owned, NEW p \in Peers, NEW i \in VersionPieces,
           Served(p, i)' = Piece(i),
           \A q \in Peers, k \in VersionPieces :
              <<k, q>> # <<i, p>> => (Served(q, k)' = Piece(k) <=> Served(q, k) = Piece(k)),
           p \in Seeds \/ \E q \in Peers : Served(q, i) = Piece(i)
    PROVE  DirectoryStep
<1>1. \A o \in VersionPieces \X Peers : o \in Held' <=> o \in Held \/ o = <<i, p>>
  BY HeldPieces
<1>2. Held' = Held \cup {<<i, p>>}
  BY <1>1 DEF Held
<1>3. CASE p \in Seeds
  BY <1>2, <1>3 DEF DirectoryStep, Directory!Next, Directory!Publish, Held, Owned
<1>4. CASE \E q \in Peers : Served(q, i) = Piece(i)
  <2>1. \E q \in Peers : <<i, q>> \in Held
    BY <1>4, HeldPieces
  <2> QED
    BY <1>2, <2>1 DEF DirectoryStep, Directory!Next, Directory!Acquire, Held, Owned
<1> QED
  BY <1>3, <1>4

LEMMA SameHeld ==
    ASSUME UNCHANGED store
    PROVE  /\ \A p, i : Served(p, i)' = Served(p, i) /\ (Serves(p, i)' <=> Serves(p, i))
           /\ Held' = Held
<1>1. \A p, i : Served(p, i)' = Served(p, i)
  BY DEF store, Served, HasLocal, LocalContent, LocalDir
<1>2. \A p, i : Serves(p, i)' <=> Serves(p, i)
  BY DEF store, Serves
<1>3. Held' = Held
  BY <1>1 DEF Held
<1> QED
  BY <1>1, <1>2, <1>3

(* An announcement lists its peer for pieces that it holds. *)
LEMMA ListMore ==
    ASSUME Orderly, NotEmpty, IInv, OrderlyInv', UNCHANGED store, NEW p \in Peers,
           Owned \subseteq Owned', Owned' \subseteq Owned \cup (Nat \X {p})
    PROVE  DirectoryStep
<1> DEFINE S == {i \in Nat : <<i, p>> \in Owned'}
<1>1. Owned' = Owned \cup (S \X {p})
  OBVIOUS
<1>2. ASSUME NEW i \in S
      PROVE  i \in VersionPieces /\ <<i, p>> \in Held
  <2>1. i \in Nat /\ i < Count /\ Serves(p, i)'
    BY DEF OrderlyInv, ListedServe, Owned
  <2>2. i \in VersionPieces
    BY <2>1, PiecesOfOriginal
  <2>3. Served(p, i) = Piece(i)
    BY <2>1, SameHeld, ServesServed
  <2> QED
    BY <2>2, <2>3, HeldPieces
<1>3. S \in SUBSET VersionPieces /\ S \X {p} \subseteq Held
  BY <1>2
<1> HIDE DEF S
<1>4. Held' = Held
  BY SameHeld
<1> QED
  BY <1>1, <1>3, <1>4 DEF DirectoryStep, Directory!Next, Directory!List, Held, Owned

(* Writing to downloads/ where shared/ has the file, or all the parts are there *)
LEMMA DownloadsNotServed ==
    ASSUME Orderly, NotEmpty, IInv, NEW p \in Peers, NEW f, Write(p, "downloads", f),
           f # NoFile, UNCHANGED parts, Owned' = Owned,
           disk[p]["shared"] # NoFile \/ 0 .. Count - 1 \subseteq DOMAIN parts[p]
    PROVE  DirectoryStep
<1>1. /\ disk'[p]["shared"] = disk[p]["shared"]
      /\ \A q \in Peers : q # p => disk'[q] = disk[q]
  BY DEF Write, Dirs, IInv, SwarmInv, TypeOK, StoreOK
<1>2. ASSUME NEW q \in Peers, NEW i \in VersionPieces
      PROVE  Served(q, i)' = Served(q, i)
  <2>1. CASE i \in DOMAIN parts[q]
    BY <2>1 DEF Served
  <2>2. CASE q # p
    BY <1>1, <2>2 DEF Served, HasLocal, LocalContent, LocalDir
  <2>3. CASE q = p /\ disk[p]["shared"] # NoFile
    BY <1>1, <2>3 DEF Served, HasLocal, LocalContent, LocalDir, Dirs
  <2> QED
    BY <2>1, <2>2, <2>3, PiecesOfOriginal
<1> QED
  BY <1>2, HoldNothingNew

-----------------------------------------------------------------------------
(* The steps *)

(* Those that leave the files and the tracker's owners alone *)
LEMMA StepHoldsNothing ==
    ASSUME Orderly, NotEmpty, UNCHANGED store, Owned' = Owned
    PROVE  DirectoryStep
BY SameHeld, HoldNothingNew

LEMMA SameOwners ==
    ASSUME UNCHANGED tracker
    PROVE  Owned' = Owned
BY DEF tracker, Owned, Tracker!Owners, Tracker!Known

(* A file under shared/ begins empty. *)
LEMMA AddHolds ==
    ASSUME Orderly, NotEmpty, IInv, NEW p \in Peers, NEW v \in Versions, Add(p, v)
    PROVE  DirectoryStep
<1>1. /\ disk[p]["shared"] = NoFile /\ Write(p, "shared", <<>>) /\ UNCHANGED <<tracker, parts>>
  BY DEF Add, Command, Orderly
<1>2. /\ disk'[p]["shared"] = <<>>
      /\ \A q \in Peers : q # p => disk'[q] = disk[q]
  BY <1>1 DEF Write, Dirs, IInv, SwarmInv, TypeOK, StoreOK
<1>3. ASSUME NEW q \in Peers, NEW i \in VersionPieces
      PROVE  Served(q, i)' = Served(q, i)
  <2>1. CASE i \in DOMAIN parts[q]
    BY <1>1, <2>1 DEF Served
  <2>2. CASE q # p
    BY <1>1, <1>2, <2>2 DEF Served, HasLocal, LocalContent, LocalDir
  <2>3. CASE q = p /\ i \notin DOMAIN parts[p]
    <3>1. ~HasLocal(p)
      BY <1>1, <2>3, PiecesOfOriginal DEF HasLocal, Dirs, IInv, OrderlyInv, DownloadsAt
    <3>2. Served(p, i) = <<>>
      BY <2>3, <3>1 DEF Served
    <3>3. i \in Nat /\ Len(<<>>) = 0 /\ <<>> # NoFile
      BY PiecesOfOriginal, EmptyContent, ContentExists
    <3>4. PieceAt(<<>>, i) = <<>>
      BY <3>3 DEF PieceAt
    <3>5. Served(p, i)' = PieceAt(<<>>, i)
      BY <1>1, <1>2, <2>3, <3>3 DEF Served, HasLocal, LocalContent, LocalDir, Dirs
    <3> QED
      BY <2>3, <3>2, <3>4, <3>5
  <2> QED
    BY <2>1, <2>2, <2>3
<1> QED
  BY <1>1, <1>3, SameOwners, HoldNothingNew

(* The read of a piece from a file that holds the first chunks of the original *)
LEMMA PrefixPieces ==
    ASSUME Orderly, NEW c \in Content, NEW t \in Content, c \o t = Original,
           NEW i \in Nat, i < Len(Original)
    PROVE  PieceAt(c, i) = Piece(i) <=> i < Len(c)
<1>1. Len(c) \in Nat /\ c \in Seq(Chunk) /\ t \in Seq(Chunk)
  BY DEF Content
<1>2. Piece(i) = <<Original[i + 1]>>
  BY PieceType
<1>3. CASE i < Len(c)
  <2>1. i + 1 \in 1 .. Len(c) + Len(t) /\ i + 1 <= Len(c)
    BY <1>1, <1>3
  <2>2. (c \o t)[i + 1] = c[i + 1]
    BY <1>1, <2>1, ConcatProperties
  <2> QED
    BY <1>2, <1>3, <2>2 DEF PieceAt
<1>4. CASE ~(i < Len(c))
  <2>1. PieceAt(c, i) = <<>>
    BY <1>4 DEF PieceAt
  <2> QED
    BY <1>2, <1>4, <2>1
<1> QED
  BY <1>3, <1>4

(* A seed comes to hold the piece whose chunk it has copied, unless it has a
   part of it. *)
LEMMA WriteChunkHolds ==
    ASSUME Orderly, NotEmpty, IInv, SeedsCopy, NEW p \in Peers, WriteChunk(p)
    PROVE  DirectoryStep
<1> DEFINE s == disk[p]["shared"]
           f == Append(s, Head(todo[p]))
           t == Tail(todo[p])
<1>0. PICK n : n = Len(s)
  OBVIOUS
<1>1. /\ pc[p] = "copying" /\ todo[p] # <<>> /\ Write(p, "shared", f)
      /\ UNCHANGED <<tracker, parts>>
  BY DEF WriteChunk, IInv, OrderlyInv, LoopAt
<1>2. s \in Content /\ todo[p] \in Content /\ s \o todo[p] = Original
  BY <1>1 DEF IInv, SwarmInv, WritesExist, TypeOK, StoreOK, ThreadsOK, Dirs, OrderlyInv, SharedAt
<1>3. f \o t = Original
  BY <1>1, <1>2, ChunkMoves
<1>4. /\ f \in Content /\ t \in Content /\ Len(f) = n + 1 /\ n \in Nat
      /\ Len(todo[p]) \in Nat /\ Len(todo[p]) >= 1
  BY <1>0, <1>1, <1>2, AppendProperties, HeadTailProperties, EmptySeq DEF Content
<1>5. /\ disk'[p]["shared"] = f
      /\ \A q \in Peers : q # p => disk'[q] = disk[q]
  BY <1>1 DEF Write, Dirs, IInv, SwarmInv, TypeOK, StoreOK
<1>6. n \in VersionPieces
  <2>1. Len(s \o todo[p]) = n + Len(todo[p])
    BY <1>0, <1>2, ConcatProperties DEF Content
  <2> QED
    BY <1>2, <1>4, <2>1, PiecesOfOriginal
<1>7. p \in Seeds
  BY <1>1 DEF SeedsCopy
<1> HIDE DEF f, t
<1>8. ASSUME NEW q \in Peers, NEW i \in VersionPieces
      PROVE  /\ q # p \/ i \in DOMAIN parts[q] => Served(q, i)' = Served(q, i)
             /\ q = p /\ i \notin DOMAIN parts[q] =>
                   /\ Served(q, i) = Piece(i) <=> i < n
                   /\ Served(q, i)' = Piece(i) <=> i < n + 1
  <2>1. CASE i \in DOMAIN parts[q]
    BY <1>1, <2>1 DEF Served
  <2>2. CASE q # p
    BY <1>1, <1>5, <2>2 DEF Served, HasLocal, LocalContent, LocalDir
  <2>3. CASE q = p /\ i \notin DOMAIN parts[p]
    <3>1. i \in Nat /\ i < Len(Original)
      BY PiecesOfOriginal
    <3>2. s # NoFile /\ f # NoFile
      BY <1>2, <1>4, ContentExists
    <3>3. Served(p, i) = PieceAt(s, i) /\ Served(p, i)' = PieceAt(f, i)
      BY <1>1, <1>5, <2>3, <3>2 DEF Served, HasLocal, LocalContent, LocalDir, Dirs
    <3>4. PieceAt(s, i) = Piece(i) <=> i < n
      BY <1>0, <1>2, <3>1, PrefixPieces
    <3>5. PieceAt(f, i) = Piece(i) <=> i < n + 1
      BY <1>3, <1>4, <3>1, PrefixPieces
    <3> QED
      BY <2>3, <3>3, <3>4, <3>5
  <2> QED
    BY <2>1, <2>2, <2>3
<1>9. Owned' = Owned
  BY <1>1, SameOwners
<1>10. CASE n \in DOMAIN parts[p]
  <2>1. ASSUME NEW q \in Peers, NEW i \in VersionPieces
        PROVE  Served(q, i)' = Piece(i) <=> Served(q, i) = Piece(i)
    <3>1. CASE q = p /\ i \notin DOMAIN parts[q]
      <4>1. i \in Nat /\ i # n
        BY <1>10, <3>1, PiecesOfOriginal
      <4> QED
        BY <1>4, <1>8, <3>1, <4>1
    <3> QED
      BY <1>8, <3>1
  <2> QED
    BY <1>9, <2>1, HoldNothingNew
<1>11. CASE n \notin DOMAIN parts[p]
  <2>1. Served(p, n)' = Piece(n)
    BY <1>4, <1>6, <1>8, <1>11
  <2>2. ASSUME NEW q \in Peers, NEW i \in VersionPieces, <<i, q>> # <<n, p>>
        PROVE  Served(q, i)' = Piece(i) <=> Served(q, i) = Piece(i)
    <3>1. CASE q = p /\ i \notin DOMAIN parts[q]
      <4>1. i \in Nat /\ i # n
        BY <2>2, <3>1, PiecesOfOriginal
      <4> QED
        BY <1>4, <1>8, <3>1, <4>1
    <3> QED
      BY <1>8, <3>1
  <2> QED
    BY <1>6, <1>7, <1>9, <2>1, <2>2, HoldOneMore
<1> QED
  BY <1>10, <1>11

(* An empty part file takes the place of nothing. *)
LEMMA CollectHolds ==
    ASSUME Orderly, NotEmpty, IInv, NEW p \in Peers, Collect(p)
    PROVE  DirectoryStep
<1>1. PICK i : i = Least(DOMAIN jobs[p])
  OBVIOUS
<1>2. /\ i \in DOMAIN jobs[p] /\ UNCHANGED <<tracker, disk>>
      /\ WritePart(p, i, <<>>) \/ UNCHANGED parts
  <2>1. DOMAIN jobs[p] # {} /\ DOMAIN jobs[p] \subseteq Nat
    BY JobsArePieces DEF Collect
  <2> QED
    BY <1>1, <2>1, LeastIn DEF Collect
<1>3. Owned' = Owned
  BY <1>2, SameOwners
<1>4. CASE UNCHANGED parts
  BY <1>2, <1>3, <1>4, StepHoldsNothing DEF store
<1>5. CASE WritePart(p, i, <<>>)
  <2>1. /\ \A q \in Peers : q # p => parts'[q] = parts[q]
        /\ DOMAIN parts'[p] = DOMAIN parts[p] \cup {i}
        /\ \A k \in DOMAIN parts'[p] : parts'[p][k] = IF k = i THEN <<>> ELSE parts[p][k]
    BY <1>5 DEF WritePart, Put, IInv, SwarmInv, TypeOK, StoreOK
  <2>2. i \notin DOMAIN parts[p] /\ ~HasLocal(p)
    BY <1>2 DEF IInv, OrderlyInv, JobsAt
  <2>3. ASSUME NEW q \in Peers, NEW k \in VersionPieces
        PROVE  Served(q, k)' = Served(q, k)
    <3>1. CASE q = p /\ k = i
      BY <2>1, <2>2, <3>1 DEF Served
    <3>2. CASE ~(q = p /\ k = i)
      <4>1. HasLocal(q)' = HasLocal(q) /\ LocalContent(q)' = LocalContent(q)
        BY <1>2 DEF HasLocal, LocalContent, LocalDir
      <4>2. /\ k \in DOMAIN parts'[q] <=> k \in DOMAIN parts[q]
            /\ k \in DOMAIN parts[q] => parts'[q][k] = parts[q][k]
        BY <2>1, <3>2
      <4> QED
        BY <4>1, <4>2 DEF Served
    <3> QED
      BY <3>1, <3>2
  <2> QED
    BY <1>3, <2>3, HoldNothingNew
<1> QED
  BY <1>2, <1>4, <1>5

(* A downloaded piece comes from a peer that holds it. *)
LEMMA PartWrittenHolds ==
    ASSUME Orderly, NotEmpty, IInv, NEW p \in Peers, PartWritten(p)
    PROVE  DirectoryStep
<1>1. PICK i : i = at[p]
  OBVIOUS
<1>2. /\ pc[p] = "writing part" /\ WritePart(p, i, todo[p]) /\ UNCHANGED <<tracker, disk>>
  BY <1>1 DEF PartWritten
<1>3. /\ i \in DOMAIN parts[p] /\ i < Count /\ todo[p] = Piece(i)
      /\ \E q \in Peers : Serves(q, i)
  BY <1>1, <1>2 DEF IInv, OrderlyInv, PartsAt
<1>4. i \in Nat
  BY <1>1 DEF IInv, SwarmInv, TypeOK, ThreadsOK
<1>5. i \in VersionPieces
  BY <1>3, <1>4, PiecesOfOriginal
<1>6. /\ \A q \in Peers : q # p => parts'[q] = parts[q]
      /\ DOMAIN parts'[p] = DOMAIN parts[p]
      /\ \A k \in DOMAIN parts[p] : parts'[p][k] = IF k = i THEN Piece(i) ELSE parts[p][k]
  BY <1>2, <1>3 DEF WritePart, Put, IInv, SwarmInv, TypeOK, StoreOK
<1>7. Served(p, i)' = Piece(i)
  BY <1>3, <1>6 DEF Served
<1>8. ASSUME NEW q \in Peers, NEW k \in VersionPieces, <<k, q>> # <<i, p>>
      PROVE  Served(q, k)' = Served(q, k)
  <2>1. HasLocal(q)' = HasLocal(q) /\ LocalContent(q)' = LocalContent(q)
    BY <1>2 DEF HasLocal, LocalContent, LocalDir
  <2>2. /\ k \in DOMAIN parts'[q] <=> k \in DOMAIN parts[q]
        /\ k \in DOMAIN parts[q] => parts'[q][k] = parts[q][k]
    BY <1>6, <1>8
  <2> QED
    BY <2>1, <2>2 DEF Served
<1>9. \E q \in Peers : Served(q, i) = Piece(i)
  BY <1>3, <1>4, ServesServed
<1>10. Owned' = Owned
  BY <1>2, SameOwners
<1> QED
  BY <1>5, <1>7, <1>8, <1>9, <1>10, HoldOneMore

(* A file is assembled where its parts stay, or where shared/ has it. *)
LEMMA AssembleHolds ==
    ASSUME Orderly, NotEmpty, IInv, NEW p \in Peers, Collected(p) \/ AppendPart(p)
    PROVE  DirectoryStep
<1>1. UNCHANGED <<tracker, parts>> /\ want[p] = Count
  BY DEF Collected, AppendPart, IInv, OrderlyInv, LoopAt
<1>2. Owned' = Owned
  BY <1>1, SameOwners
<1>3. CASE UNCHANGED disk
  BY <1>1, <1>2, <1>3, StepHoldsNothing DEF store
<1>4. CASE Collected(p) /\ Cardinality(CompletePieceIds(p, Count)) = Count /\ Write(p, "downloads", <<>>)
  <2>1. <<>> # NoFile
    BY EmptyContent, ContentExists
  <2>2. disk[p]["shared"] # NoFile \/ 0 .. Count - 1 \subseteq DOMAIN parts[p]
    BY <1>4, AllParts
  <2> QED
    BY <1>1, <1>2, <1>4, <2>1, <2>2, DownloadsNotServed
<1>5. CASE /\ AppendPart(p) /\ at[p] \in DOMAIN parts[p]
           /\ Write(p, "downloads", disk[p]["downloads"] \o parts[p][at[p]])
  <2>1. disk[p]["downloads"] \in Content
    BY <1>5 DEF AppendPart, IInv, SwarmInv, WritesExist, TypeOK, StoreOK, Dirs
  <2>2. parts[p][at[p]] \in Content
    BY <1>5 DEF IInv, SwarmInv, TypeOK, StoreOK
  <2>3. disk[p]["downloads"] \o parts[p][at[p]] # NoFile
    BY <2>1, <2>2, ConcatProperties, ContentExists DEF Content
  <2>4. disk[p]["shared"] # NoFile \/ 0 .. Count - 1 \subseteq DOMAIN parts[p]
    BY <2>1, ContentExists DEF IInv, OrderlyInv, DownloadsAt
  <2> QED
    BY <1>1, <1>2, <1>5, <2>3, <2>4, DownloadsNotServed
<1> QED
  BY <1>1, <1>3, <1>4, <1>5 DEF Collected, AppendPart

(* ADD_FILE and HAVE, accepted or refused *)
LEMMA AnnouncedLists ==
    ASSUME Orderly, NotEmpty, IInv, OrderlyInv', NEW p \in Peers,
           Announce(p) \/ HavePart(p) \/ Claim(p)
    PROVE  DirectoryStep
<1>1. TrackerOK /\ UNCHANGED store
  BY DEF IInv, SwarmInv, TypeOK, Announce, HavePart, Claim
<1>2. CASE Announce(p)
  <2>1. HasLocal(p)
    <3>1. pc[p] # "saving"
      BY DEF IInv, OrderlyInv, LoopAt
    <3> QED
      BY <1>2, <3>1 DEF Announce, FileWritten, HasLocal, Dirs, IInv, SwarmInv, WritesExist
  <2>2. PICK n \in Nat : Call(Tracker!add_file(p, TheFile, n))
    <3>1. PieceCount(LocalContent(p)) \in Nat
      BY <2>1, LocalContentType, PieceCountType DEF IInv, SwarmInv, TypeOK
    <3> QED
      BY <1>2, <3>1 DEF Announce
  <2>3. Owned' \subseteq Owned \cup (Nat \X {p})
    BY <1>1, <2>2, AddFileCall DEF Owned
  <2>4. Owned \subseteq Owned'
    <3>1. CASE Tracker!add_file(p, TheFile, n)
      <4>1. /\ files'[TheFile] = [piece_count |-> n,
                                  owners |-> Tracker!Owners(TheFile) \cup ((0 .. n - 1) \X {p})]
            /\ TheFile \in {TheFile} /\ files' \in [{TheFile} -> {files'[TheFile]}]
        BY <1>1, <3>1 DEF Tracker!add_file, TrackerOK, Tracker!TypeOK
      <4>2. files'[TheFile] # NoInfo
        <5>1. Tracker!Owners(TheFile) \cup ((0 .. n - 1) \X {p}) \subseteq Nat \X Peers
          BY <1>1, <2>2, OwnersType DEF TrackerOK
        <5> QED
          BY <4>1, <5>1, SwarmAssumption
      <4> QED
        BY <4>1, <4>2 DEF Owned, Tracker!Owners, Tracker!Known
    <3>2. CASE UNCHANGED <<peers, files>>
      BY <3>2 DEF Owned, Tracker!Owners, Tracker!Known
    <3> QED
      BY <2>2, <3>1, <3>2 DEF Call
  <2> QED
    BY <1>1, <2>3, <2>4, ListMore
<1>3. CASE HavePart(p) \/ Claim(p)
  <2>1. Call(Tracker!have_piece(p, TheFile, at[p]))
    BY <1>3 DEF HavePart, Claim
  <2>2. at[p] \in Nat
    BY DEF IInv, SwarmInv, TypeOK, ThreadsOK
  <2>3. Owned' \subseteq Owned \cup (Nat \X {p})
    BY <1>1, <2>1, <2>2, HavePieceCall DEF Owned
  <2>4. Owned \subseteq Owned'
    <3>1. CASE /\ Tracker!HaveAccepted(TheFile, at[p])
               /\ files' = [files EXCEPT ![TheFile].owners = @ \cup {<<at[p], p>>}]
      <4>1. Tracker!Known(TheFile)
        BY <3>1 DEF Tracker!HaveAccepted
      <4>2. files[TheFile] \in [piece_count : Nat, owners : SUBSET (Nat \X Peers)]
        BY <1>1, <4>1 DEF TrackerOK, Tracker!TypeOK, Tracker!Known, Tracker!FileInfo
      <4>3. files'[TheFile] = [files[TheFile] EXCEPT !.owners = @ \cup {<<at[p], p>>}]
        BY <1>1, <3>1 DEF TrackerOK, Tracker!TypeOK
      <4>4. /\ files'[TheFile].owners = files[TheFile].owners \cup {<<at[p], p>>}
            /\ files'[TheFile] \in [piece_count : Nat, owners : SUBSET (Nat \X Peers)]
        BY <2>2, <4>2, <4>3
      <4>5. files'[TheFile] # NoInfo
        BY <4>4, SwarmAssumption
      <4> QED
        BY <4>1, <4>4, <4>5 DEF Owned, Tracker!Owners, Tracker!Known
    <3>2. CASE UNCHANGED <<peers, files>>
      BY <3>2 DEF Owned, Tracker!Owners, Tracker!Known
    <3> QED
      BY <2>1, <3>1, <3>2 DEF Call, Tracker!have_piece, Tracker!tvars
  <2> QED
    BY <1>1, <2>3, <2>4, ListMore
<1> QED
  BY <1>2, <1>3

LEMMA StepImplements ==
    ASSUME Orderly, NotEmpty, IInv, OrderlyInv', SeedsCopy, [Next]_vars
    PROVE  DirectoryStep
<1>1. ASSUME UNCHANGED <<tracker, store>>
      PROVE  DirectoryStep
  BY <1>1, SameOwners, StepHoldsNothing
<1>2. ASSUME NEW p \in Peers, UserStep(p)
      PROVE  DirectoryStep
  <2>1. CASE Start(p)
    <3>1. UNCHANGED store /\ files' = files
      BY <2>1 DEF Start, Call, Tracker!register_peer
    <3> QED
      BY <3>1, StepHoldsNothing DEF Owned, Tracker!Owners, Tracker!Known
  <2>2. CASE AddInPlace(p) \/ DownloadFile(p) \/ DownloadPieces(p) \/ Have(p)
    BY <1>1, <2>2 DEF AddInPlace, DownloadFile, DownloadPieces, Have, Command, store
  <2> QED
    BY <1>2, <2>1, <2>2, AddHolds DEF UserStep
<1>3. ASSUME NEW p \in Peers, PeerStep(p)
      PROVE  DirectoryStep
  <2>1. ~QueryFile(p) /\ ~Fetched(p)
    BY DEF QueryFile, Fetched, IInv, OrderlyInv, LoopAt
  <2>2. CASE QueryFails(p) \/ QueryPieces(p) \/ Drained(p) \/ CallRefused(p)
    BY <1>1, <2>2 DEF QueryFails, QueryPieces, Drained, CallRefused
  <2> QED
    BY <1>3, <2>1, <2>2, WriteChunkHolds, CollectHolds, PartWrittenHolds, AssembleHolds,
       AnnouncedLists DEF PeerStep
<1>4. ASSUME NEW p \in Peers, JobStep(p)
      PROVE  DirectoryStep
  BY <1>1, <1>4 DEF JobStep, ServeOpen, ServeRead, JobFails, SetJob
<1>5. ASSUME NEW p \in Peers, Quit(p) \/ Crash(p)
      PROVE  DirectoryStep
  BY <1>1, <1>5 DEF Quit, Crash, Stop
<1>6. ASSUME TrackerStop
      PROVE  DirectoryStep
  <2>1. UNCHANGED store /\ Owned' = {}
    BY <1>6 DEF TrackerStop, Owned, Tracker!Owners, Tracker!Known
  <2>2. Held' = Held
    BY <2>1, SameHeld
  <2> QED
    BY <2>1, <2>2 DEF DirectoryStep, Directory!Next, Directory!Forget, Held, Owned
<1>7. ASSUME TrackerStart
      PROVE  DirectoryStep
  <2>1. UNCHANGED <<store, files>>
    BY <1>7 DEF TrackerStart
  <2> QED
    BY <2>1, StepHoldsNothing DEF Owned, Tracker!Owners, Tracker!Known
<1>8. ASSUME Quiet \/ UNCHANGED vars \/ \E p \in Peers : Listen(p)
      PROVE  DirectoryStep
  BY <1>1, <1>8 DEF Quiet, Listen, vars
<1> QED
  BY <1>2, <1>3, <1>4, <1>5, <1>6, <1>7, <1>8 DEF Next

(* Every behaviour of peers, uploads and tracker on an orderly workload is one
   of PieceDirectory: pieces come from seeds and from holders, nobody loses
   one, and the tracker, restarted or not, lists only holders. *)
THEOREM OrderlySwarmIsDirectory ==
    ASSUME Orderly, NotEmpty
    PROVE  Spec => ImplementsDirectory
<1>1. Init => SeedsCopy /\ Directory!Init
  <2> SUFFICES ASSUME Init PROVE SeedsCopy /\ Directory!Init
    OBVIOUS
  <2>1. SeedsCopy
    BY DEF Init, SeedsCopy
  <2>2. Owned = {}
    BY DEF Init, Owned, Tracker!Init, Tracker!Owners, Tracker!Known
  <2>3. ASSUME NEW p \in Peers, NEW i \in VersionPieces
        PROVE  Served(p, i) = <<>>
    BY DEF Init, Served, HasLocal, Dirs
  <2>4. Held = {}
    BY <2>3 DEF Held
  <2> QED
    BY <2>1, <2>2, <2>4 DEF Directory!Init, Held, Owned
<1>2. SwarmInv /\ SeedsCopy /\ [Next]_vars => SeedsCopy'
  BY SeedsCopyNext
<1>3. IInv /\ IInv' /\ SeedsCopy /\ [Next]_vars => [Directory!Next]_(Directory!dvars)
  BY StepImplements DEF DirectoryStep, IInv
<1>4. IInv => SwarmInv
  BY DEF IInv
<1>5. Spec => []IInv
  BY OrderlyAlways
<1> QED
  BY <1>1, <1>2, <1>3, <1>4, <1>5, PTL DEF Spec, ImplementsDirectory, Directory!Spec

(* What PieceDirectory promises holds of the swarm: whatever a peer could
   answer with has a seed that could answer with it too, and the tracker lists
   only peers that could. *)
Promises == INSTANCE PieceDirectoryProofs
    WITH PieceIds <- VersionPieces, held <- Held, listed <- Tracker!Owners(TheFile)

COROLLARY PiecesFromSeeds ==
    ASSUME Orderly, NotEmpty
    PROVE  Spec => [](Directory!TypeOK /\ Directory!FromSeeds /\ Directory!ListedAtSeed)
<1>1. Directory!Init => Promises!Init
  BY DEF Directory!Init, Promises!Init, Held
<1>2. [Directory!Next]_(Directory!dvars) => [Promises!Next]_(Promises!dvars)
  BY DEF Directory!Next, Directory!Publish, Directory!Acquire, Directory!List, Directory!Forget,
         Directory!dvars, Promises!Next, Promises!Publish, Promises!Acquire, Promises!List,
         Promises!Forget, Promises!dvars, Held
<1>3. Promises!TypeOK /\ Promises!FromSeeds
        => Directory!TypeOK /\ Directory!FromSeeds /\ Directory!ListedAtSeed
  BY DEF Promises!TypeOK, Promises!FromSeeds, Directory!TypeOK, Directory!FromSeeds,
         Directory!ListedAtSeed, Held
<1>4. Directory!Spec => Promises!Spec
  BY <1>1, <1>2, PTL DEF Directory!Spec, Promises!Spec
<1>5. Promises!Spec => []Promises!TypeOK /\ []Promises!FromSeeds
  BY Promises!ListedIsHeld, Promises!HeldBySeeds, PTL
<1> QED
  BY <1>3, <1>4, <1>5, OrderlySwarmIsDirectory, PTL DEF ImplementsDirectory
=============================================================================
