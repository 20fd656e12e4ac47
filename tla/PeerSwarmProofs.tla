--------------------------- MODULE PeerSwarmProofs ---------------------------
(* Proofs about PeerSwarm for every set of peers, versions and world, bounds, and
   every workload: whatever crashes, restarts or is lost, the state stays well
   typed and the tracker lists only peers that have the piece on disk. *)
EXTENDS PeerSwarm, WellFoundedInduction, SequenceTheorems, TLAPS

-----------------------------------------------------------------------------
(* Data *)

(* The smallest element of a set of peer ids or piece ids is in the set. *)
LEMMA LeastIn ==
    ASSUME NEW S, S \subseteq Nat, S # {}
    PROVE  Least(S) \in S
<1>1. PICK x \in S : \A y \in S : ~(<<y, x>> \in OpToRel(<, Nat))
  BY NatLessThanWellFounded, WFMin
<1>2. \A y \in S : ~ (y < x)
  BY <1>1 DEF OpToRel
<1>3. \A y \in S : x <= y
  BY <1>2
<1> QED
  BY <1>3 DEF Least

(* What the reads and the versions give is content. *)
LEMMA EmptyContent == <<>> \in Content
BY DEF Content

LEMMA FitType ==
    ASSUME NEW c \in Content, NEW n \in Nat
    PROVE  Fit(c, n) \in Content
<1>1. \A k \in 1 .. n : (IF k <= Len(c) THEN c[k] ELSE Zero) \in Chunk
  BY DEF Content, Chunk
<1> QED
  BY <1>1 DEF Fit, Content

LEMMA PieceAtType ==
    ASSUME NEW c \in Content, NEW i \in Requests, i # Whole
    PROVE  PieceAt(c, i) \in Content
<1>1. i \in Nat
  BY DEF Requests, Whole
<1>2. CASE i < Len(c)
  <2>1. c[i + 1] \in Chunk
    BY <1>1, <1>2 DEF Content
  <2> QED
    BY <1>2, <2>1 DEF PieceAt, Content
<1>3. CASE ~(i < Len(c))
  BY <1>3, EmptyContent DEF PieceAt
<1> QED
  BY <1>2, <1>3

LEMMA DataType ==
    ASSUME NEW v \in Versions
    PROVE  Data(v) \in Content
<1>1. Pieces[v] \in Nat
  BY SwarmAssumption
<1>2. \A k \in 1 .. Pieces[v] : <<v, k - 1>> \in Chunk
  BY <1>1 DEF Chunk
<1> QED
  BY <1>1, <1>2 DEF Data, Content

LEMMA PieceCountType ==
    ASSUME NEW c \in Content
    PROVE  PieceCount(c) \in Nat
BY DEF PieceCount, Content

(* Content is never the absent file. *)
LEMMA ContentExists == \A c \in Content : c # NoFile
BY SwarmAssumption

LEMMA LocalContentType ==
    ASSUME StoreOK, NEW p \in Peers, HasLocal(p)
    PROVE  LocalDir(p) \in Dirs /\ LocalContent(p) \in Content
BY DEF StoreOK, HasLocal, LocalDir, LocalContent, Dirs

-----------------------------------------------------------------------------
(* The tracker: its handlers keep its type and add owners for the caller only. *)

LEMMA OwnersType ==
    ASSUME Tracker!TypeOK
    PROVE  Tracker!Owners(TheFile) \subseteq Nat \X Peers
<1>1. CASE Tracker!Known(TheFile)
  <2>1. files[TheFile] \in [piece_count : Nat, owners : SUBSET (Nat \X Peers)]
    BY <1>1 DEF Tracker!TypeOK, Tracker!Known, Tracker!FileInfo
  <2> QED
    BY <1>1, <2>1 DEF Tracker!Owners
<1>2. CASE ~Tracker!Known(TheFile)
  BY <1>2 DEF Tracker!Owners
<1> QED
  BY <1>1, <1>2

LEMMA RegisterStep ==
    ASSUME Tracker!TypeOK, NEW p \in Peers, Tracker!register_peer(p, p)
    PROVE  Tracker!TypeOK' /\ Tracker!Owners(TheFile)' = Tracker!Owners(TheFile)
BY DEF Tracker!TypeOK, Tracker!register_peer, Tracker!Owners, Tracker!Known

LEMMA AddFileStep ==
    ASSUME Tracker!TypeOK, NEW p \in Peers, NEW n \in Nat, Tracker!add_file(p, TheFile, n)
    PROVE  /\ Tracker!TypeOK'
           /\ Tracker!Owners(TheFile)' \subseteq Tracker!Owners(TheFile) \cup (Nat \X {p})
<1> DEFINE new == Tracker!Owners(TheFile) \cup ((0 .. n - 1) \X {p})
<1>1. new \subseteq Nat \X Peers
  BY OwnersType
<1>2. files'[TheFile] = [piece_count |-> n, owners |-> new]
  BY DEF Tracker!add_file, Tracker!TypeOK
<1>3. [piece_count |-> n, owners |-> new] \in Tracker!FileInfo
  BY <1>1 DEF Tracker!FileInfo
<1>4. Tracker!TypeOK'
  BY <1>3 DEF Tracker!TypeOK, Tracker!add_file
<1>5. Tracker!Owners(TheFile)' \subseteq new
  BY <1>2 DEF Tracker!Owners
<1> QED
  BY <1>4, <1>5

LEMMA HavePieceStep ==
    ASSUME Tracker!TypeOK, NEW p \in Peers, NEW i \in Nat, Tracker!have_piece(p, TheFile, i)
    PROVE  /\ Tracker!TypeOK'
           /\ Tracker!Owners(TheFile)' \subseteq Tracker!Owners(TheFile) \cup {<<i, p>>}
<1>1. CASE /\ Tracker!HaveAccepted(TheFile, i)
           /\ files' = [files EXCEPT ![TheFile].owners = @ \cup {<<i, p>>}]
           /\ UNCHANGED peers
  <2>1. Tracker!Known(TheFile)
    BY <1>1 DEF Tracker!HaveAccepted
  <2>2. files[TheFile] \in Tracker!FileInfo
    BY <2>1 DEF Tracker!TypeOK, Tracker!Known
  <2>3. [files[TheFile] EXCEPT !.owners = @ \cup {<<i, p>>}] \in Tracker!FileInfo
    BY <2>2 DEF Tracker!FileInfo
  <2>4. files' = [files EXCEPT ![TheFile] =
                    [files[TheFile] EXCEPT !.owners = @ \cup {<<i, p>>}]]
    BY <1>1
  <2>5. Tracker!TypeOK'
    BY <1>1, <2>3, <2>4 DEF Tracker!TypeOK
  <2>6. files'[TheFile].owners = files[TheFile].owners \cup {<<i, p>>}
    BY <1>1, <2>2 DEF Tracker!TypeOK, Tracker!FileInfo
  <2> QED
    BY <2>1, <2>5, <2>6 DEF Tracker!Owners
<1>2. CASE UNCHANGED Tracker!tvars
  BY <1>2 DEF Tracker!TypeOK, Tracker!Owners, Tracker!Known, Tracker!tvars
<1> QED
  BY <1>1, <1>2 DEF Tracker!have_piece
-----------------------------------------------------------------------------
(* What the building blocks of the actions do. *)

(* Nothing that exists on disk goes away. *)
Kept == \A q \in Peers : /\ \A d \in Dirs : disk[q][d] # NoFile => disk'[q][d] # NoFile
                         /\ DOMAIN parts[q] \subseteq DOMAIN parts'[q]

SameThreads(p) == \A q \in Peers : q # p => pc'[q] = pc[q] /\ at'[q] = at[q]
SameJobs(p) == \A q \in Peers : q # p => jobs'[q] = jobs[q]

LEMMA ThreadStep ==
    ASSUME ThreadsOK, NEW p \in Peers, NEW l \in PC, NEW c \in Content,
           NEW n \in Nat, NEW i \in Nat, Thread(p, l, c, n, i)
    PROVE  ThreadsOK' /\ pc'[p] = l /\ at'[p] = i /\ SameThreads(p)
BY DEF ThreadsOK, Thread, SameThreads

LEMMA GotoStep ==
    ASSUME ThreadsOK, NEW p \in Peers, NEW l \in PC, Goto(p, l)
    PROVE  ThreadsOK' /\ pc'[p] = l /\ at'[p] = at[p] /\ SameThreads(p)
BY DEF ThreadsOK, Thread, SameThreads, Goto

LEMMA ReturnStep ==
    ASSUME ThreadsOK, NEW p \in Peers, Return(p)
    PROVE  ThreadsOK' /\ pc'[p] = "idle" /\ SameThreads(p)
BY ThreadStep, EmptyContent DEF Return, PC

LEMMA SameThreadStep ==
    ASSUME ThreadsOK, NEW p \in Peers, UNCHANGED thread
    PROVE  ThreadsOK' /\ pc'[p] = pc[p] /\ at'[p] = at[p] /\ SameThreads(p)
BY DEF ThreadsOK, thread, SameThreads

LEMMA SameStoreStep ==
    ASSUME StoreOK, UNCHANGED disk, UNCHANGED parts
    PROVE  StoreOK' /\ Kept
BY DEF StoreOK, Kept

LEMMA WriteStep ==
    ASSUME StoreOK, NEW p \in Peers, NEW d \in Dirs, NEW c \in Content,
           Write(p, d, c), UNCHANGED parts
    PROVE  StoreOK' /\ Kept /\ disk'[p][d] # NoFile
<1>1. c # NoFile
  BY ContentExists
<1>2. /\ disk'[p] = [disk[p] EXCEPT ![d] = c]
      /\ \A q \in Peers : q # p => disk'[q] = disk[q]
  BY DEF Write, StoreOK
<1>3. /\ disk'[p][d] = c
      /\ \A e \in Dirs : e # d => disk'[p][e] = disk[p][e]
  BY <1>2 DEF StoreOK
<1>4. StoreOK'
  BY DEF StoreOK, Write
<1> QED
  BY <1>1, <1>2, <1>3, <1>4 DEF Kept

LEMMA PartStep ==
    ASSUME StoreOK, NEW p \in Peers, NEW i \in Nat, NEW c \in Content,
           WritePart(p, i, c), UNCHANGED disk
    PROVE  StoreOK' /\ Kept /\ i \in DOMAIN parts'[p]
<1>1. /\ DOMAIN parts' = Peers
      /\ parts'[p] = Put(parts[p], i, c)
      /\ \A q \in Peers : q # p => parts'[q] = parts[q]
  BY DEF WritePart, StoreOK
<1>2. /\ DOMAIN parts'[p] = DOMAIN parts[p] \cup {i}
      /\ \A k \in DOMAIN parts'[p] : parts'[p][k] = IF k = i THEN c ELSE parts[p][k]
  BY <1>1 DEF Put
<1>3. StoreOK'
  BY <1>1, <1>2 DEF StoreOK
<1> QED
  BY <1>1, <1>2, <1>3 DEF Kept

(* Requests of one peer are replaced by well-typed ones. *)
LEMMA JobsStep ==
    ASSUME JobsOK, NEW p \in Peers, NEW new, DOMAIN new \subseteq Requests,
           \A r \in DOMAIN new : new[r] \in Job,
           jobs' = [jobs EXCEPT ![p] = new]
    PROVE  JobsOK' /\ jobs'[p] = new /\ SameJobs(p)
BY DEF JobsOK, SameJobs

LEMMA PutJobStep ==
    ASSUME JobsOK, NEW p \in Peers, NEW r \in Requests, NEW j \in Job,
           jobs' = [jobs EXCEPT ![p] = Put(@, r, j)]
    PROVE  /\ JobsOK' /\ SameJobs(p)
           /\ DOMAIN jobs'[p] = DOMAIN jobs[p] \cup {r}
           /\ jobs'[p][r] = j
           /\ \A x \in DOMAIN jobs[p] : x # r => jobs'[p][x] = jobs[p][x]
<1> DEFINE new == Put(jobs[p], r, j)
<1>1. /\ DOMAIN new = DOMAIN jobs[p] \cup {r}
      /\ \A x \in DOMAIN new : new[x] = IF x = r THEN j ELSE jobs[p][x]
  BY DEF Put
<1>2. DOMAIN new \subseteq Requests /\ \A x \in DOMAIN new : new[x] \in Job
  BY <1>1 DEF JobsOK
<1>3. jobs' = [jobs EXCEPT ![p] = new]
  OBVIOUS
<1> HIDE DEF new
<1>4. JobsOK' /\ jobs'[p] = new /\ SameJobs(p)
  BY <1>2, <1>3, JobsStep
<1> QED
  BY <1>1, <1>4

LEMMA DropJobStep ==
    ASSUME JobsOK, NEW p \in Peers, NEW r,
           jobs' = [jobs EXCEPT ![p] = Drop(@, r)]
    PROVE  /\ JobsOK' /\ SameJobs(p)
           /\ DOMAIN jobs'[p] = DOMAIN jobs[p] \ {r}
           /\ \A x \in DOMAIN jobs'[p] : jobs'[p][x] = jobs[p][x]
<1> DEFINE new == Drop(jobs[p], r)
<1>1. /\ DOMAIN new = DOMAIN jobs[p] \ {r}
      /\ \A x \in DOMAIN new : new[x] = jobs[p][x]
  BY DEF Drop
<1>2. DOMAIN new \subseteq Requests /\ \A x \in DOMAIN new : new[x] \in Job
  BY <1>1 DEF JobsOK
<1>3. jobs' = [jobs EXCEPT ![p] = new]
  OBVIOUS
<1> HIDE DEF new
<1>4. JobsOK' /\ jobs'[p] = new /\ SameJobs(p)
  BY <1>2, <1>3, JobsStep
<1> QED
  BY <1>1, <1>4

LEMMA SameJobsStep ==
    ASSUME JobsOK, NEW p \in Peers, UNCHANGED jobs
    PROVE  JobsOK' /\ jobs'[p] = jobs[p] /\ SameJobs(p)
BY DEF JobsOK, SameJobs

LEMMA NewJobType ==
    ASSUME NEW q \in Peers
    PROVE  NewJob(q) \in Job /\ NewJob(q).phase = "sent"
BY EmptyContent DEF NewJob, Job

(* A read in progress that is not a new one still finds its path. *)
LEMMA ReadsKept ==
    ASSUME SwarmInv, Kept, NEW p \in Peers,
           \A r \in DOMAIN jobs'[p] :
              \/ r \in DOMAIN jobs[p] /\ jobs'[p][r] = jobs[p][r]
              \/ jobs'[p][r].phase # "serving"
    PROVE  ReadsExist(p)'
<1> SUFFICES ASSUME NEW r \in DOMAIN jobs'[p], jobs'[p][r].phase = "serving"
             PROVE  IF jobs'[p][r].path = "part"
                    THEN r \in DOMAIN parts'[jobs'[p][r].src]
                    ELSE disk'[jobs'[p][r].src][jobs'[p][r].path] # NoFile
  BY DEF ReadsExist
<1>1. r \in DOMAIN jobs[p] /\ jobs'[p][r] = jobs[p][r]
  OBVIOUS
<1>2. jobs[p][r] \in Job
  BY <1>1 DEF SwarmInv, TypeOK, JobsOK
<1> DEFINE j == jobs[p][r]
<1>3. j.src \in Peers /\ (j.path # "part" => j.path \in Dirs)
  BY <1>2 DEF Job, Dirs
<1>4. IF j.path = "part" THEN r \in DOMAIN parts[j.src] ELSE disk[j.src][j.path] # NoFile
  BY <1>1 DEF SwarmInv, ReadsExist
<1> QED
  BY <1>1, <1>3, <1>4 DEF Kept

(* A step of peer p, or of an upload to it, keeps the invariant if it keeps
   p's own part of it and every new owner can serve its piece. *)
LEMMA PeerMoves ==
    ASSUME SwarmInv, NEW p \in Peers, TypeOK', Kept, SameThreads(p), SameJobs(p),
           WritesExist(p)', ReadsExist(p)', JobsAwaited(p)', FetchAwaited(p)',
           \A o \in Tracker!Owners(TheFile)' :
              o \in Tracker!Owners(TheFile) \/ CanServe(o[2], o[1])'
    PROVE  SwarmInv'
<1>1. ASSUME NEW q \in Peers, q # p
      PROVE  WritesExist(q)' /\ ReadsExist(q)' /\ JobsAwaited(q)' /\ FetchAwaited(q)'
  <2>1. pc'[q] = pc[q] /\ at'[q] = at[q] /\ jobs'[q] = jobs[q]
    BY <1>1 DEF SameThreads, SameJobs
  <2>2. WritesExist(q)'
    BY <2>1 DEF SwarmInv, WritesExist, Kept, HasLocal, Dirs
  <2>3. ReadsExist(q)'
    BY <2>1, ReadsKept
  <2> QED
    BY <2>1, <2>2, <2>3 DEF SwarmInv, JobsAwaited, FetchAwaited
<1>2. ASSUME NEW o \in Tracker!Owners(TheFile)'
      PROVE  CanServe(o[2], o[1])'
  <2>1. CASE o \in Tracker!Owners(TheFile)
    <3>1. o[2] \in Peers
      BY <2>1, OwnersType DEF SwarmInv, TypeOK, TrackerOK
    <3>2. CanServe(o[2], o[1])
      BY <2>1 DEF SwarmInv, AdvertisedIsOnDisk
    <3> QED
      BY <3>1, <3>2 DEF CanServe, HasLocal, Kept
  <2> QED
    BY <1>2, <2>1
<1> QED
  BY <1>1, <1>2 DEF SwarmInv, AdvertisedIsOnDisk

LEMMA SameTrackerStep ==
    ASSUME TrackerOK, UNCHANGED tracker
    PROVE  TrackerOK' /\ Tracker!Owners(TheFile)' = Tracker!Owners(TheFile)
BY DEF TrackerOK, tracker, Tracker!TypeOK, Tracker!Owners, Tracker!Known

(* The three calls, served or lost. *)
LEMMA RegisterCall ==
    ASSUME TrackerOK, NEW p \in Peers, Call(Tracker!register_peer(p, p))
    PROVE  TrackerOK' /\ Tracker!Owners(TheFile)' = Tracker!Owners(TheFile)
<1>1. CASE Tracker!register_peer(p, p) /\ UNCHANGED trackerUp
  BY <1>1, RegisterStep DEF TrackerOK
<1>2. CASE UNCHANGED <<peers, files>> /\ UNCHANGED trackerUp
  BY <1>2, SameTrackerStep DEF tracker
<1> QED
  BY <1>1, <1>2 DEF Call

LEMMA AddFileCall ==
    ASSUME TrackerOK, NEW p \in Peers, NEW n \in Nat, Call(Tracker!add_file(p, TheFile, n))
    PROVE  /\ TrackerOK'
           /\ Tracker!Owners(TheFile)' \subseteq Tracker!Owners(TheFile) \cup (Nat \X {p})
<1>1. CASE Tracker!add_file(p, TheFile, n) /\ UNCHANGED trackerUp
  BY <1>1, AddFileStep DEF TrackerOK
<1>2. CASE UNCHANGED <<peers, files>> /\ UNCHANGED trackerUp
  BY <1>2, SameTrackerStep DEF tracker
<1> QED
  BY <1>1, <1>2 DEF Call

LEMMA HavePieceCall ==
    ASSUME TrackerOK, NEW p \in Peers, NEW i \in Nat, Call(Tracker!have_piece(p, TheFile, i))
    PROVE  /\ TrackerOK'
           /\ Tracker!Owners(TheFile)' \subseteq Tracker!Owners(TheFile) \cup {<<i, p>>}
<1>1. CASE Tracker!have_piece(p, TheFile, i) /\ UNCHANGED trackerUp
  BY <1>1, HavePieceStep DEF TrackerOK
<1>2. CASE UNCHANGED <<peers, files>> /\ UNCHANGED trackerUp
  BY <1>2, SameTrackerStep DEF tracker
<1> QED
  BY <1>1, <1>2 DEF Call

-----------------------------------------------------------------------------
(* The actions, one lemma each or one for a group of the same shape. *)

LEMMA StartInv ==
    ASSUME SwarmInv, NEW p \in Peers, Start(p)
    PROVE  SwarmInv'
<1>1. TrackerOK' /\ Tracker!Owners(TheFile)' = Tracker!Owners(TheFile)
  BY RegisterCall DEF Start, SwarmInv, TypeOK
<1>2. ThreadsOK' /\ pc'[p] = "idle" /\ SameThreads(p)
  BY GotoStep DEF Start, SwarmInv, TypeOK, PC
<1>3. StoreOK' /\ Kept
  BY SameStoreStep DEF Start, SwarmInv, TypeOK, store
<1>4. JobsOK' /\ jobs'[p] = jobs[p] /\ SameJobs(p)
  BY SameJobsStep DEF Start, SwarmInv, TypeOK
<1>5. TypeOK'
  BY <1>1, <1>2, <1>3, <1>4 DEF Start, SwarmInv, TypeOK, WorldOK, world, bounds
<1>6. WritesExist(p)' /\ FetchAwaited(p)'
  BY <1>2 DEF WritesExist, FetchAwaited
<1>7. JobsAwaited(p)'
  BY <1>2, <1>4 DEF SwarmInv, JobsAwaited, Start
<1>8. ReadsExist(p)'
  BY <1>3, <1>4, ReadsKept
<1> QED
  BY <1>1, <1>2, <1>3, <1>4, <1>5, <1>6, <1>7, <1>8, PeerMoves

LEMMA CommandFrame ==
    ASSUME SwarmInv, NEW p \in Peers, NEW op, Command(p, op)
    PROVE  /\ TrackerOK' /\ Tracker!Owners(TheFile)' = Tracker!Owners(TheFile)
           /\ JobsOK' /\ jobs'[p] = jobs[p] /\ SameJobs(p) /\ DOMAIN jobs'[p] = {}
           /\ WorldOK'
<1>1. TrackerOK' /\ Tracker!Owners(TheFile)' = Tracker!Owners(TheFile)
  BY SameTrackerStep DEF Command, SwarmInv, TypeOK
<1>2. JobsOK' /\ jobs'[p] = jobs[p] /\ SameJobs(p)
  BY SameJobsStep DEF Command, SwarmInv, TypeOK
<1>3. DOMAIN jobs[p] = {}
  BY DEF Command, SwarmInv, JobsAwaited
<1>4. WorldOK'
  BY SwarmAssumption DEF Command, SwarmInv, TypeOK, WorldOK
<1> QED
  BY <1>1, <1>2, <1>3, <1>4

LEMMA AddInv ==
    ASSUME SwarmInv, NEW p \in Peers, NEW v \in Versions, Add(p, v)
    PROVE  SwarmInv'
<1>1. /\ TrackerOK' /\ Tracker!Owners(TheFile)' = Tracker!Owners(TheFile)
      /\ JobsOK' /\ jobs'[p] = jobs[p] /\ SameJobs(p) /\ DOMAIN jobs'[p] = {}
      /\ WorldOK'
  BY CommandFrame DEF Add
<1>2. ThreadsOK' /\ pc'[p] = "copying" /\ SameThreads(p)
  BY ThreadStep, DataType DEF Add, SwarmInv, TypeOK, PC
<1>3. StoreOK' /\ Kept /\ disk'[p]["shared"] # NoFile
  BY WriteStep, EmptyContent DEF Add, Command, SwarmInv, TypeOK, Dirs
<1>4. TypeOK'
  BY <1>1, <1>2, <1>3 DEF TypeOK
<1>5. WritesExist(p)' /\ FetchAwaited(p)' /\ JobsAwaited(p)'
  BY <1>1, <1>2, <1>3 DEF WritesExist, FetchAwaited, JobsAwaited
<1>6. ReadsExist(p)'
  BY <1>1, <1>3, ReadsKept
<1> QED
  BY <1>1, <1>2, <1>3, <1>4, <1>5, <1>6, PeerMoves

(* The commands that begin without touching the disk. *)
LEMMA OtherCommandInv ==
    ASSUME SwarmInv, NEW p \in Peers,
           AddInPlace(p) \/ DownloadFile(p) \/ DownloadPieces(p) \/ Have(p)
    PROVE  SwarmInv'
<1>1. PICK op : Command(p, op)
  BY DEF AddInPlace, DownloadFile, DownloadPieces, Have
<1>2. /\ TrackerOK' /\ Tracker!Owners(TheFile)' = Tracker!Owners(TheFile)
      /\ JobsOK' /\ jobs'[p] = jobs[p] /\ SameJobs(p) /\ DOMAIN jobs'[p] = {}
      /\ WorldOK'
  BY <1>1, CommandFrame
<1>3. UNCHANGED disk /\ UNCHANGED parts
  BY DEF AddInPlace, DownloadFile, DownloadPieces, Have, Command
<1>4. StoreOK' /\ Kept
  BY <1>3, SameStoreStep DEF SwarmInv, TypeOK
<1>5. /\ ThreadsOK' /\ SameThreads(p)
      /\ \/ pc'[p] = "copying" /\ disk[p]["shared"] # NoFile
         \/ pc'[p] \in {"query file", "query pieces"}
         \/ pc'[p] = "claim" /\ HasLocal(p)
  <2>1. CASE AddInPlace(p)
    BY <2>1, ThreadStep, EmptyContent DEF AddInPlace, SwarmInv, TypeOK, PC
  <2>2. CASE DownloadFile(p)
    BY <2>2, GotoStep DEF DownloadFile, SwarmInv, TypeOK, PC
  <2>3. CASE DownloadPieces(p)
    BY <2>3, GotoStep DEF DownloadPieces, SwarmInv, TypeOK, PC
  <2>4. CASE Have(p)
    <3>1. PieceCount(LocalContent(p)) \in Nat
      BY <2>4, LocalContentType, PieceCountType DEF Have, SwarmInv, TypeOK
    <3> QED
      BY <2>4, <3>1, ThreadStep, EmptyContent DEF Have, SwarmInv, TypeOK, PC
  <2> QED
    BY <2>1, <2>2, <2>3, <2>4
<1>6. TypeOK'
  BY <1>2, <1>4, <1>5 DEF TypeOK
<1>7. WritesExist(p)' /\ FetchAwaited(p)' /\ JobsAwaited(p)'
  BY <1>2, <1>3, <1>5 DEF WritesExist, FetchAwaited, JobsAwaited, HasLocal
<1>8. ReadsExist(p)'
  BY <1>2, <1>4, ReadsKept
<1> QED
  BY <1>2, <1>4, <1>5, <1>6, <1>7, <1>8, PeerMoves

(* Steps that change the thread, and neither the disk nor the requests. *)
LEMMA ThreadOnlyInv ==
    ASSUME SwarmInv, NEW p \in Peers, UNCHANGED <<store, jobs, world>>, TrackerOK',
           ThreadsOK', SameThreads(p), WritesExist(p)', JobsAwaited(p)', FetchAwaited(p)',
           \A o \in Tracker!Owners(TheFile)' :
              o \in Tracker!Owners(TheFile) \/ CanServe(o[2], o[1])
    PROVE  SwarmInv'
<1>1. StoreOK' /\ Kept
  BY SameStoreStep DEF SwarmInv, TypeOK, store
<1>2. JobsOK' /\ jobs'[p] = jobs[p] /\ SameJobs(p)
  BY SameJobsStep DEF SwarmInv, TypeOK
<1>3. TypeOK'
  BY <1>1, <1>2 DEF SwarmInv, TypeOK, WorldOK, world, bounds
<1>4. ReadsExist(p)'
  BY <1>1, <1>2, ReadsKept
<1>5. \A o : CanServe(o[2], o[1])' <=> CanServe(o[2], o[1])
  BY DEF CanServe, HasLocal, store
<1> QED
  BY <1>1, <1>2, <1>3, <1>4, <1>5, PeerMoves

LEMMA AnnounceInv ==
    ASSUME SwarmInv, NEW p \in Peers, Announce(p)
    PROVE  SwarmInv'
<1>1. HasLocal(p) /\ DOMAIN jobs[p] = {}
  <2>1. pc[p] \in {"copying", "saving", "assemble"}
    BY DEF Announce, FileWritten
  <2> QED
    BY <2>1 DEF SwarmInv, WritesExist, JobsAwaited, HasLocal, Dirs
<1>2. PieceCount(LocalContent(p)) \in Nat
  BY <1>1, LocalContentType, PieceCountType DEF SwarmInv, TypeOK
<1>3. /\ TrackerOK'
      /\ Tracker!Owners(TheFile)' \subseteq Tracker!Owners(TheFile) \cup (Nat \X {p})
  BY <1>2, AddFileCall DEF Announce, SwarmInv, TypeOK
<1>4. ThreadsOK' /\ pc'[p] = "idle" /\ SameThreads(p)
  BY ReturnStep DEF Announce, SwarmInv, TypeOK
<1>5. WritesExist(p)' /\ JobsAwaited(p)' /\ FetchAwaited(p)'
  BY <1>1, <1>4 DEF WritesExist, JobsAwaited, FetchAwaited, Announce
<1>6. \A o \in Tracker!Owners(TheFile)' :
        o \in Tracker!Owners(TheFile) \/ CanServe(o[2], o[1])
  BY <1>1, <1>3 DEF CanServe
<1> QED
  BY <1>3, <1>4, <1>5, <1>6, ThreadOnlyInv DEF Announce

(* A HAVE names a part that has been written. *)
LEMMA HavePartInv ==
    ASSUME SwarmInv, NEW p \in Peers, HavePart(p)
    PROVE  SwarmInv'
<1>1. at[p] \in DOMAIN parts[p] /\ at[p] \in Nat /\ DOMAIN jobs[p] \subseteq Nat
  BY DEF HavePart, SwarmInv, WritesExist, JobsAwaited, TypeOK, ThreadsOK
<1>2. /\ TrackerOK'
      /\ Tracker!Owners(TheFile)' \subseteq Tracker!Owners(TheFile) \cup {<<at[p], p>>}
  BY <1>1, HavePieceCall DEF HavePart, SwarmInv, TypeOK
<1>3. ThreadsOK' /\ pc'[p] = "collect" /\ SameThreads(p)
  BY GotoStep DEF HavePart, SwarmInv, TypeOK, PC
<1>4. WritesExist(p)' /\ JobsAwaited(p)' /\ FetchAwaited(p)'
  BY <1>1, <1>3 DEF WritesExist, JobsAwaited, FetchAwaited, HavePart
<1>5. \A o \in Tracker!Owners(TheFile)' :
        o \in Tracker!Owners(TheFile) \/ CanServe(o[2], o[1])
  BY <1>1, <1>2 DEF CanServe
<1> QED
  BY <1>2, <1>3, <1>4, <1>5, ThreadOnlyInv DEF HavePart

(* have claims the pieces of a file that is here. *)
LEMMA ClaimInv ==
    ASSUME SwarmInv, NEW p \in Peers, Claim(p)
    PROVE  SwarmInv'
<1>1. HasLocal(p) /\ at[p] \in Nat /\ want[p] \in Nat /\ DOMAIN jobs[p] = {}
  BY DEF Claim, SwarmInv, WritesExist, JobsAwaited, TypeOK, ThreadsOK
<1>2. /\ TrackerOK'
      /\ Tracker!Owners(TheFile)' \subseteq Tracker!Owners(TheFile) \cup {<<at[p], p>>}
  BY <1>1, HavePieceCall DEF Claim, SwarmInv, TypeOK
<1>3. ThreadsOK' /\ pc'[p] \in {"idle", "claim"} /\ SameThreads(p)
  <2>1. CASE at[p] + 1 = want[p]
    BY <2>1, ReturnStep DEF Claim, SwarmInv, TypeOK
  <2>2. CASE at[p] + 1 # want[p]
    <3>1. Thread(p, "claim", <<>>, want[p], at[p] + 1)
      BY <2>2 DEF Claim
    <3>2. at[p] + 1 \in Nat /\ "claim" \in PC
      BY <1>1 DEF PC
    <3>3. ThreadsOK' /\ pc'[p] = "claim" /\ SameThreads(p)
      BY <1>1, <3>1, <3>2, ThreadStep, EmptyContent DEF SwarmInv, TypeOK
    <3> QED
      BY <3>3
  <2> QED
    BY <2>1, <2>2
<1>4. HasLocal(p)'
  BY <1>1 DEF HasLocal, Claim, store
<1>5. WritesExist(p)' /\ JobsAwaited(p)' /\ FetchAwaited(p)'
  BY <1>1, <1>3, <1>4 DEF WritesExist, JobsAwaited, FetchAwaited, Claim
<1>6. \A o \in Tracker!Owners(TheFile)' :
        o \in Tracker!Owners(TheFile) \/ CanServe(o[2], o[1])
  BY <1>1, <1>2 DEF CanServe
<1> QED
  BY <1>2, <1>3, <1>5, <1>6, ThreadOnlyInv DEF Claim

(* A query that fails, and a call that the tracker does not take. *)
LEMMA FailedCallInv ==
    ASSUME SwarmInv, NEW p \in Peers, QueryFails(p) \/ CallRefused(p)
    PROVE  SwarmInv'
<1>1. TrackerOK' /\ Tracker!Owners(TheFile)' = Tracker!Owners(TheFile)
  BY SameTrackerStep DEF QueryFails, CallRefused, SwarmInv, TypeOK
<1>2. \/ Return(p) /\ DOMAIN jobs[p] = {}
      \/ Goto(p, "drain") /\ DOMAIN jobs[p] \subseteq Nat
  BY DEF QueryFails, CallRefused, FileWritten, SwarmInv, JobsAwaited
<1>3. /\ ThreadsOK' /\ SameThreads(p)
      /\ \/ pc'[p] = "idle" /\ DOMAIN jobs[p] = {}
         \/ pc'[p] = "drain" /\ DOMAIN jobs[p] \subseteq Nat
  BY <1>2, ReturnStep, GotoStep DEF SwarmInv, TypeOK, PC
<1>4. UNCHANGED <<store, jobs, world>>
  BY DEF QueryFails, CallRefused
<1>5. WritesExist(p)' /\ JobsAwaited(p)' /\ FetchAwaited(p)'
  BY <1>3, <1>4 DEF WritesExist, JobsAwaited, FetchAwaited
<1> QED
  BY <1>1, <1>3, <1>4, <1>5, ThreadOnlyInv

-----------------------------------------------------------------------------
(* Steps that write a file under shared/ or downloads/. *)
LEMMA FileStepInv ==
    ASSUME SwarmInv, NEW p \in Peers, NEW d \in Dirs, NEW c \in Content, Write(p, d, c),
           UNCHANGED <<tracker, parts, world>>, JobsOK', SameJobs(p),
           \A r \in DOMAIN jobs'[p] : r \in DOMAIN jobs[p] /\ jobs'[p][r] = jobs[p][r],
           DOMAIN jobs'[p] = {},
           ThreadsOK', SameThreads(p),
           \/ pc'[p] = "copying" /\ d = "shared"
           \/ pc'[p] \in {"saving", "assemble"} /\ d = "downloads"
    PROVE  SwarmInv'
<1>1. TrackerOK' /\ Tracker!Owners(TheFile)' = Tracker!Owners(TheFile)
  BY SameTrackerStep DEF SwarmInv, TypeOK
<1>2. StoreOK' /\ Kept /\ disk'[p][d] # NoFile
  BY WriteStep DEF SwarmInv, TypeOK
<1>3. TypeOK'
  BY <1>1, <1>2 DEF SwarmInv, TypeOK, WorldOK, world, bounds
<1>4. WritesExist(p)' /\ JobsAwaited(p)' /\ FetchAwaited(p)'
  BY <1>2 DEF WritesExist, JobsAwaited, FetchAwaited
<1>5. ReadsExist(p)'
  BY <1>2, ReadsKept
<1> QED
  BY <1>1, <1>2, <1>3, <1>4, <1>5, PeerMoves

LEMMA WriteChunkInv ==
    ASSUME SwarmInv, NEW p \in Peers, WriteChunk(p)
    PROVE  SwarmInv'
<1> DEFINE d == IF pc[p] = "copying" THEN "shared" ELSE "downloads"
           c == Append(disk[p][d], Head(todo[p]))
<1>1. d \in Dirs /\ disk[p][d] \in Content /\ todo[p] \in Content /\ todo[p] # <<>>
  BY DEF WriteChunk, SwarmInv, WritesExist, TypeOK, StoreOK, ThreadsOK, Dirs
<1>2. c \in Content /\ Tail(todo[p]) \in Content
  BY <1>1, AppendProperties, HeadTailProperties DEF Content
<1>3. ThreadsOK' /\ pc'[p] = pc[p] /\ SameThreads(p)
  BY <1>2, ThreadStep DEF WriteChunk, SwarmInv, TypeOK, PC
<1>4. JobsOK' /\ jobs'[p] = jobs[p] /\ SameJobs(p) /\ DOMAIN jobs[p] = {}
  BY SameJobsStep DEF WriteChunk, SwarmInv, TypeOK, JobsAwaited
<1>5. pc[p] \in {"copying", "saving"} /\ Write(p, d, c) /\ UNCHANGED <<tracker, parts, world>>
  BY DEF WriteChunk
<1>6. \/ pc'[p] = "copying" /\ d = "shared"
      \/ pc'[p] \in {"saving", "assemble"} /\ d = "downloads"
  BY <1>3, <1>5
<1> HIDE DEF d, c
<1> QED
  BY <1>1, <1>2, <1>3, <1>4, <1>5, <1>6, FileStepInv

(* The file that arrived is saved, or the request failed. *)
LEMMA FetchedInv ==
    ASSUME SwarmInv, NEW p \in Peers, Fetched(p)
    PROVE  SwarmInv'
<1>1. Whole \in DOMAIN jobs[p] /\ jobs[p][Whole] \in Job /\ DOMAIN jobs[p] \subseteq {Whole}
  BY DEF Fetched, SwarmInv, JobsAwaited, FetchAwaited, TypeOK, JobsOK
<1>2. /\ JobsOK' /\ SameJobs(p)
      /\ DOMAIN jobs'[p] = {}
  BY <1>1, DropJobStep DEF Fetched, SwarmInv, TypeOK
<1>3. ASSUME Write(p, "downloads", <<>>), Thread(p, "saving", jobs[p][Whole].data, 0, 0)
      PROVE  SwarmInv'
  <2>1. jobs[p][Whole].data \in Content
    BY <1>1 DEF Job
  <2>2. ThreadsOK' /\ pc'[p] = "saving" /\ SameThreads(p)
    BY <1>3, <2>1, ThreadStep DEF SwarmInv, TypeOK, PC
  <2> QED
    BY <1>2, <1>3, <2>2, FileStepInv, EmptyContent DEF Fetched, Dirs
<1>4. ASSUME Return(p), UNCHANGED disk
      PROVE  SwarmInv'
  <2>1. TrackerOK' /\ Tracker!Owners(TheFile)' = Tracker!Owners(TheFile)
    BY SameTrackerStep DEF Fetched, SwarmInv, TypeOK
  <2>2. StoreOK' /\ Kept
    BY <1>4, SameStoreStep DEF Fetched, SwarmInv, TypeOK
  <2>3. ThreadsOK' /\ pc'[p] = "idle" /\ SameThreads(p)
    BY <1>4, ReturnStep DEF SwarmInv, TypeOK
  <2>4. TypeOK'
    BY <1>2, <2>1, <2>2, <2>3 DEF Fetched, SwarmInv, TypeOK, WorldOK, world, bounds
  <2>5. WritesExist(p)' /\ ReadsExist(p)' /\ JobsAwaited(p)' /\ FetchAwaited(p)'
    BY <1>2, <2>3 DEF WritesExist, ReadsExist, JobsAwaited, FetchAwaited
  <2> QED
    BY <1>2, <2>1, <2>2, <2>3, <2>4, <2>5, PeerMoves
<1> QED
  BY <1>3, <1>4 DEF Fetched

(* The loop over the jobs is over: assemble, or return. *)
LEMMA CollectedInv ==
    ASSUME SwarmInv, NEW p \in Peers, Collected(p)
    PROVE  SwarmInv'
<1>1. want[p] \in Nat /\ DOMAIN jobs[p] = {} /\ UNCHANGED <<tracker, parts, jobs, world>>
  BY DEF Collected, SwarmInv, TypeOK, ThreadsOK
<1>2. JobsOK' /\ jobs'[p] = jobs[p] /\ SameJobs(p)
  BY <1>1, SameJobsStep DEF SwarmInv, TypeOK
<1>3. ASSUME Write(p, "downloads", <<>>), Thread(p, "assemble", <<>>, want[p], 0)
      PROVE  SwarmInv'
  <2>1. ThreadsOK' /\ pc'[p] = "assemble" /\ SameThreads(p)
    BY <1>1, <1>3, ThreadStep, EmptyContent DEF SwarmInv, TypeOK, PC
  <2> QED
    BY <1>1, <1>2, <1>3, <2>1, FileStepInv, EmptyContent DEF Dirs
<1>4. ASSUME Return(p), UNCHANGED disk
      PROVE  SwarmInv'
  <2>1. TrackerOK' /\ Tracker!Owners(TheFile)' = Tracker!Owners(TheFile)
    BY <1>1, SameTrackerStep DEF SwarmInv, TypeOK
  <2>2. ThreadsOK' /\ pc'[p] = "idle" /\ SameThreads(p)
    BY <1>4, ReturnStep DEF SwarmInv, TypeOK
  <2>3. WritesExist(p)' /\ JobsAwaited(p)' /\ FetchAwaited(p)'
    BY <1>1, <1>2, <2>2 DEF WritesExist, JobsAwaited, FetchAwaited
  <2> QED
    BY <1>1, <1>4, <2>1, <2>2, <2>3, ThreadOnlyInv DEF store
<1> QED
  BY <1>3, <1>4 DEF Collected

(* One more part is appended, or it is missing and the command ends. *)
LEMMA AppendPartInv ==
    ASSUME SwarmInv, NEW p \in Peers, AppendPart(p)
    PROVE  SwarmInv'
<1> DEFINE c == disk[p]["downloads"] \o parts[p][at[p]]
<1>1. /\ want[p] \in Nat /\ at[p] \in Nat /\ DOMAIN jobs[p] = {}
      /\ UNCHANGED <<tracker, parts, jobs, world>>
  BY DEF AppendPart, SwarmInv, TypeOK, ThreadsOK, JobsAwaited
<1>2. JobsOK' /\ jobs'[p] = jobs[p] /\ SameJobs(p)
  BY <1>1, SameJobsStep DEF SwarmInv, TypeOK
<1>3. ASSUME at[p] \in DOMAIN parts[p], Write(p, "downloads", c),
             Thread(p, "assemble", <<>>, want[p], at[p] + 1)
      PROVE  SwarmInv'
  <2>1. disk[p]["downloads"] \in Content /\ parts[p][at[p]] \in Content
    BY <1>3 DEF AppendPart, SwarmInv, WritesExist, TypeOK, StoreOK, Dirs
  <2>2. c \in Content
    BY <2>1, ConcatProperties DEF Content
  <2>3. at[p] + 1 \in Nat /\ "assemble" \in PC /\ "downloads" \in Dirs
    BY <1>1 DEF PC, Dirs
  <2>4. ThreadsOK' /\ pc'[p] = "assemble" /\ SameThreads(p)
    BY <1>1, <1>3, <2>3, ThreadStep, EmptyContent DEF SwarmInv, TypeOK
  <2> HIDE DEF c
  <2> QED
    BY <1>1, <1>2, <1>3, <2>2, <2>3, <2>4, FileStepInv
<1>4. ASSUME Return(p), UNCHANGED disk
      PROVE  SwarmInv'
  <2>1. TrackerOK' /\ Tracker!Owners(TheFile)' = Tracker!Owners(TheFile)
    BY <1>1, SameTrackerStep DEF SwarmInv, TypeOK
  <2>2. ThreadsOK' /\ pc'[p] = "idle" /\ SameThreads(p)
    BY <1>4, ReturnStep DEF SwarmInv, TypeOK
  <2>3. WritesExist(p)' /\ JobsAwaited(p)' /\ FetchAwaited(p)'
    BY <1>1, <1>2, <2>2 DEF WritesExist, JobsAwaited, FetchAwaited
  <2> QED
    BY <1>1, <1>4, <2>1, <2>2, <2>3, ThreadOnlyInv DEF store
<1> QED
  BY <1>3, <1>4 DEF AppendPart

-----------------------------------------------------------------------------
(* Steps that change the requests and leave the disk alone. *)
LEMMA RequestsInv ==
    ASSUME SwarmInv, NEW p \in Peers, UNCHANGED <<tracker, store, world>>,
           ThreadsOK', SameThreads(p), JobsOK', SameJobs(p), WritesExist(p)',
           JobsAwaited(p)', FetchAwaited(p)',
           \A r \in DOMAIN jobs'[p] :
              \/ r \in DOMAIN jobs[p] /\ jobs'[p][r] = jobs[p][r]
              \/ jobs'[p][r].phase # "serving"
    PROVE  SwarmInv'
<1>1. TrackerOK' /\ Tracker!Owners(TheFile)' = Tracker!Owners(TheFile)
  BY SameTrackerStep DEF SwarmInv, TypeOK
<1>2. StoreOK' /\ Kept
  BY SameStoreStep DEF SwarmInv, TypeOK, store
<1>3. TypeOK'
  BY <1>1, <1>2 DEF SwarmInv, TypeOK, WorldOK, world, bounds
<1>4. ReadsExist(p)'
  BY <1>2, ReadsKept
<1> QED
  BY <1>1, <1>2, <1>3, <1>4, PeerMoves

(* The sources that a reply names are peers. *)
LEMMA RepliesType ==
    ASSUME NEW heard \in Replies
    PROVE  DOMAIN heard \subseteq Peers
<1> DEFINE all == Tracker!query(TheFile)
           upto(k) == [q \in {x \in DOMAIN all : x < k} |-> all[q]]
<1>1. DOMAIN all \subseteq Peers
  BY DEF Tracker!query, Tracker!Registered
<1>2. \A k : DOMAIN upto(k) \subseteq DOMAIN all
  OBVIOUS
<1>3. heard = all \/ \E k \in Peers : heard = upto(k)
  BY DEF Replies
<1> QED
  BY <1>1, <1>2, <1>3

LEMMA QueryFileInv ==
    ASSUME SwarmInv, NEW p \in Peers, QueryFile(p)
    PROVE  SwarmInv'
<1>1. PICK heard \in Replies :
        IF DOMAIN heard = {}
        THEN Return(p) /\ UNCHANGED jobs
        ELSE /\ jobs' = [jobs EXCEPT ![p] = Put(@, Whole, NewJob(Least(DOMAIN heard)))]
             /\ Goto(p, "fetching")
  BY DEF QueryFile
<1>2. DOMAIN jobs[p] = {} /\ UNCHANGED <<tracker, store, world>>
  BY DEF QueryFile, SwarmInv, JobsAwaited
<1>3. CASE DOMAIN heard = {}
  <2>1. ThreadsOK' /\ pc'[p] = "idle" /\ SameThreads(p)
    BY <1>1, <1>3, ReturnStep DEF SwarmInv, TypeOK
  <2>2. JobsOK' /\ jobs'[p] = jobs[p] /\ SameJobs(p)
    BY <1>1, <1>3, SameJobsStep DEF SwarmInv, TypeOK
  <2>3. WritesExist(p)' /\ JobsAwaited(p)' /\ FetchAwaited(p)'
    BY <1>2, <2>1, <2>2 DEF WritesExist, JobsAwaited, FetchAwaited
  <2> QED
    BY <1>2, <2>1, <2>2, <2>3, RequestsInv
<1>4. CASE DOMAIN heard # {}
  <2>1. Least(DOMAIN heard) \in Peers
    <3>1. DOMAIN heard \subseteq Peers
      BY RepliesType
    <3>2. DOMAIN heard \subseteq Nat
      BY <3>1, SwarmAssumption
    <3> QED
      BY <1>4, <3>1, <3>2, LeastIn
  <2>2. /\ NewJob(Least(DOMAIN heard)) \in Job
        /\ NewJob(Least(DOMAIN heard)).phase = "sent"
    BY <2>1, NewJobType
  <2>3. Whole \in Requests
    BY DEF Requests
  <2>4. /\ JobsOK' /\ SameJobs(p)
        /\ DOMAIN jobs'[p] = {Whole}
        /\ jobs'[p][Whole].phase # "serving"
    BY <1>1, <1>2, <1>4, <2>2, <2>3, PutJobStep DEF SwarmInv, TypeOK
  <2>5. ThreadsOK' /\ pc'[p] = "fetching" /\ SameThreads(p)
    BY <1>1, <1>4, GotoStep DEF SwarmInv, TypeOK, PC
  <2>6. WritesExist(p)' /\ JobsAwaited(p)' /\ FetchAwaited(p)'
    BY <2>4, <2>5 DEF WritesExist, JobsAwaited, FetchAwaited
  <2> QED
    BY <1>2, <2>4, <2>5, <2>6, RequestsInv
<1> QED
  BY <1>3, <1>4

LEMMA SourceType ==
    ASSUME NEW heard, DOMAIN heard \subseteq Peers, NEW p \in Peers, NEW i
    PROVE  source_for_piece(heard, p, i) \in Peers
<1>1. Listing(heard, i) \ {p} \subseteq Peers
  BY DEF Listing
<1>2. Listing(heard, i) \ {p} \subseteq Nat
  BY <1>1, SwarmAssumption
<1>3. CASE Listing(heard, i) \ {p} # {}
  <2>1. Least(Listing(heard, i) \ {p}) \in Listing(heard, i) \ {p}
    BY <1>2, <1>3, LeastIn
  <2> QED
    BY <1>1, <1>3, <2>1 DEF source_for_piece
<1>4. CASE Listing(heard, i) \ {p} = {}
  BY <1>4 DEF source_for_piece
<1> QED
  BY <1>3, <1>4

LEMMA QueryPiecesInv ==
    ASSUME SwarmInv, NEW p \in Peers, QueryPieces(p)
    PROVE  SwarmInv'
<1> DEFINE count == files[TheFile].piece_count
           missing(heard) == {i \in 0 .. count - 1 : /\ i \notin CompletePieceIds(p, count)
                                                    /\ Listing(heard, i) # {}}
           new(heard) == [i \in missing(heard) |-> NewJob(source_for_piece(heard, p, i))]
<1>1. PICK heard \in Replies : /\ jobs' = [jobs EXCEPT ![p] = new(heard)]
                               /\ Thread(p, "collect", <<>>, count, 0)
  BY DEF QueryPieces
<1>2. UNCHANGED <<tracker, store, world>>
  BY DEF QueryPieces
<1>3. count \in Nat
  BY DEF QueryPieces, Tracker!Known, Tracker!TypeOK, Tracker!FileInfo, SwarmInv, TypeOK, TrackerOK
<1>4. missing(heard) \subseteq Nat
  BY <1>3
<1>5. \A i \in missing(heard) : new(heard)[i] \in Job /\ new(heard)[i].phase = "sent"
  BY RepliesType, SourceType, NewJobType
<1>6. DOMAIN new(heard) = missing(heard)
  OBVIOUS
<1>7. /\ JobsOK' /\ SameJobs(p) /\ jobs'[p] = new(heard)
  <2>1. DOMAIN new(heard) \subseteq Requests
    BY <1>4, <1>6 DEF Requests
  <2>2. \A i \in DOMAIN new(heard) : new(heard)[i] \in Job
    BY <1>5, <1>6
  <2> HIDE DEF new
  <2> QED
    BY <1>1, <2>1, <2>2, JobsStep DEF SwarmInv, TypeOK
<1>8. ThreadsOK' /\ pc'[p] = "collect" /\ SameThreads(p)
  BY <1>1, <1>3, ThreadStep, EmptyContent DEF SwarmInv, TypeOK, PC
<1>9. WritesExist(p)' /\ JobsAwaited(p)' /\ FetchAwaited(p)'
  <2>1. DOMAIN jobs'[p] \subseteq Nat
    BY <1>4, <1>6, <1>7
  <2> QED
    BY <1>8, <2>1 DEF WritesExist, JobsAwaited, FetchAwaited
<1>10. \A r \in DOMAIN jobs'[p] : jobs'[p][r].phase # "serving"
  BY <1>5, <1>6, <1>7
<1> QED
  BY <1>2, <1>7, <1>8, <1>9, <1>10, RequestsInv

LEMMA DrainedInv ==
    ASSUME SwarmInv, NEW p \in Peers, Drained(p)
    PROVE  SwarmInv'
<1>1. DOMAIN <<>> = {}
  OBVIOUS
<1>2. JobsOK' /\ SameJobs(p) /\ DOMAIN jobs'[p] = {}
  BY <1>1 DEF Drained, SwarmInv, TypeOK, JobsOK, SameJobs
<1>3. ThreadsOK' /\ pc'[p] = "idle" /\ SameThreads(p)
  BY ReturnStep DEF Drained, SwarmInv, TypeOK
<1>4. WritesExist(p)' /\ JobsAwaited(p)' /\ FetchAwaited(p)'
  BY <1>2, <1>3 DEF WritesExist, JobsAwaited, FetchAwaited
<1> QED
  BY <1>2, <1>3, <1>4, RequestsInv DEF Drained

(* The next job is collected: its part file is truncated, or it failed. *)
LEMMA CollectInv ==
    ASSUME SwarmInv, NEW p \in Peers, Collect(p)
    PROVE  SwarmInv'
<1> DEFINE i == Least(DOMAIN jobs[p])
<1>1. /\ DOMAIN jobs[p] \subseteq Nat /\ DOMAIN jobs[p] # {}
      /\ want[p] \in Nat
  BY DEF Collect, SwarmInv, JobsAwaited, TypeOK, ThreadsOK
<1>2. i \in DOMAIN jobs[p] /\ i \in Nat /\ jobs[p][i] \in Job
  <2>1. i \in DOMAIN jobs[p]
    BY <1>1, LeastIn
  <2> QED
    BY <1>1, <2>1 DEF SwarmInv, TypeOK, JobsOK
<1>3. jobs' = [jobs EXCEPT ![p] = Drop(@, i)] /\ UNCHANGED <<tracker, disk, world>>
  BY DEF Collect
<1>4. \/ WritePart(p, i, <<>>) /\ Thread(p, "writing part", jobs[p][i].data, want[p], i)
      \/ Goto(p, "drain") /\ UNCHANGED parts
  BY DEF Collect
<1> HIDE DEF i
<1>5. /\ JobsOK' /\ SameJobs(p)
      /\ DOMAIN jobs'[p] = DOMAIN jobs[p] \ {i}
      /\ \A x \in DOMAIN jobs'[p] : jobs'[p][x] = jobs[p][x]
  BY <1>3, DropJobStep DEF SwarmInv, TypeOK
<1>6. CASE WritePart(p, i, <<>>) /\ Thread(p, "writing part", jobs[p][i].data, want[p], i)
  <2>1. jobs[p][i].data \in Content
    BY <1>2 DEF Job
  <2>2. ThreadsOK' /\ pc'[p] = "writing part" /\ SameThreads(p)
    BY <1>1, <1>2, <1>6, <2>1, ThreadStep DEF SwarmInv, TypeOK, PC
  <2>3. StoreOK' /\ Kept
    BY <1>2, <1>3, <1>6, PartStep, EmptyContent DEF SwarmInv, TypeOK
  <2>4. TrackerOK' /\ Tracker!Owners(TheFile)' = Tracker!Owners(TheFile)
    BY <1>3, SameTrackerStep DEF SwarmInv, TypeOK
  <2>5. TypeOK'
    BY <1>3, <1>5, <2>2, <2>3, <2>4 DEF SwarmInv, TypeOK, WorldOK, world, bounds
  <2>6. WritesExist(p)' /\ JobsAwaited(p)' /\ FetchAwaited(p)'
    BY <1>1, <1>5, <2>2 DEF WritesExist, JobsAwaited, FetchAwaited
  <2>7. ReadsExist(p)'
    BY <1>5, <2>3, ReadsKept
  <2> QED
    BY <1>5, <2>2, <2>3, <2>4, <2>5, <2>6, <2>7, PeerMoves
<1>7. CASE Goto(p, "drain") /\ UNCHANGED parts
  <2>1. ThreadsOK' /\ pc'[p] = "drain" /\ SameThreads(p)
    BY <1>7, GotoStep DEF SwarmInv, TypeOK, PC
  <2>2. WritesExist(p)' /\ JobsAwaited(p)' /\ FetchAwaited(p)'
    BY <1>1, <1>5, <2>1 DEF WritesExist, JobsAwaited, FetchAwaited
  <2> QED
    BY <1>3, <1>5, <1>7, <2>1, <2>2, RequestsInv DEF store
<1> QED
  BY <1>4, <1>6, <1>7

(* The part is written before HAVE is sent. *)
LEMMA PartWrittenInv ==
    ASSUME SwarmInv, NEW p \in Peers, PartWritten(p)
    PROVE  SwarmInv'
<1>1. /\ at[p] \in Nat /\ want[p] \in Nat /\ todo[p] \in Content
      /\ DOMAIN jobs[p] \subseteq Nat
      /\ UNCHANGED <<tracker, disk, jobs, world>>
  BY DEF PartWritten, SwarmInv, JobsAwaited, TypeOK, ThreadsOK
<1>2. StoreOK' /\ Kept /\ at[p] \in DOMAIN parts'[p]
  BY <1>1, PartStep DEF PartWritten, SwarmInv, TypeOK
<1>3. ThreadsOK' /\ pc'[p] = "have" /\ at'[p] = at[p] /\ SameThreads(p)
  BY <1>1, ThreadStep, EmptyContent DEF PartWritten, SwarmInv, TypeOK, PC
<1>4. TrackerOK' /\ Tracker!Owners(TheFile)' = Tracker!Owners(TheFile)
  BY <1>1, SameTrackerStep DEF SwarmInv, TypeOK
<1>5. JobsOK' /\ jobs'[p] = jobs[p] /\ SameJobs(p)
  BY <1>1, SameJobsStep DEF SwarmInv, TypeOK
<1>6. TypeOK'
  BY <1>1, <1>2, <1>3, <1>4, <1>5 DEF SwarmInv, TypeOK, WorldOK, world, bounds
<1>7. WritesExist(p)' /\ JobsAwaited(p)' /\ FetchAwaited(p)'
  BY <1>1, <1>2, <1>3, <1>5 DEF WritesExist, JobsAwaited, FetchAwaited
<1>8. ReadsExist(p)'
  BY <1>2, <1>5, ReadsKept
<1> QED
  BY <1>2, <1>3, <1>4, <1>5, <1>6, <1>7, <1>8, PeerMoves

(* All the steps of the command thread between two commands. *)
LEMMA PeerStepInv ==
    ASSUME SwarmInv, NEW p \in Peers, PeerStep(p)
    PROVE  SwarmInv'
BY WriteChunkInv, AnnounceInv, FailedCallInv, QueryFileInv, FetchedInv, QueryPiecesInv,
   CollectInv, PartWrittenInv, HavePartInv, DrainedInv, CollectedInv, AppendPartInv, ClaimInv
   DEF PeerStep

-----------------------------------------------------------------------------
(* Upload threads *)

(* A request that is answered in part, in full or not at all. *)
LEMMA SetJobInv ==
    ASSUME SwarmInv, NEW p \in Peers, NEW r \in DOMAIN jobs[p], NEW j \in Job, SetJob(p, r, j),
           j.phase = "serving" => IF j.path = "part" THEN r \in DOMAIN parts[j.src]
                                                     ELSE disk[j.src][j.path] # NoFile
    PROVE  SwarmInv'
<1>1. r \in Requests /\ UNCHANGED <<tracker, thread, store, world>>
  BY DEF SetJob, SwarmInv, TypeOK, JobsOK
<1>2. /\ JobsOK' /\ SameJobs(p)
      /\ DOMAIN jobs'[p] = DOMAIN jobs[p]
      /\ jobs'[p][r] = j
      /\ \A x \in DOMAIN jobs[p] : x # r => jobs'[p][x] = jobs[p][x]
  <2>1. jobs' = [jobs EXCEPT ![p] = Put(@, r, j)] /\ JobsOK
    BY DEF SetJob, SwarmInv, TypeOK
  <2>2. /\ JobsOK' /\ SameJobs(p)
        /\ DOMAIN jobs'[p] = DOMAIN jobs[p] \cup {r}
        /\ jobs'[p][r] = j
        /\ \A x \in DOMAIN jobs[p] : x # r => jobs'[p][x] = jobs[p][x]
    BY <1>1, <2>1, PutJobStep
  <2> QED
    BY <2>2
<1>3. ThreadsOK' /\ pc'[p] = pc[p] /\ at'[p] = at[p] /\ SameThreads(p)
  BY <1>1, SameThreadStep DEF SwarmInv, TypeOK
<1>4. StoreOK' /\ Kept
  BY <1>1, SameStoreStep DEF SwarmInv, TypeOK, store
<1>5. TrackerOK' /\ Tracker!Owners(TheFile)' = Tracker!Owners(TheFile)
  BY <1>1, SameTrackerStep DEF SwarmInv, TypeOK
<1>6. TypeOK'
  BY <1>1, <1>2, <1>3, <1>4, <1>5 DEF SwarmInv, TypeOK, WorldOK, world, bounds
<1>7. WritesExist(p)'
  BY <1>1, <1>3 DEF SwarmInv, WritesExist, HasLocal, store
<1>8. JobsAwaited(p)' /\ FetchAwaited(p)'
  BY <1>2, <1>3 DEF SwarmInv, JobsAwaited, FetchAwaited
<1>9. ReadsExist(p)'
  <2> SUFFICES ASSUME NEW x \in DOMAIN jobs[p], jobs'[p][x].phase = "serving"
               PROVE  IF jobs'[p][x].path = "part"
                      THEN x \in DOMAIN parts[jobs'[p][x].src]
                      ELSE disk[jobs'[p][x].src][jobs'[p][x].path] # NoFile
    BY <1>1, <1>2 DEF ReadsExist, store
  <2>1. CASE x = r
    BY <1>2, <2>1
  <2>2. CASE x # r
    <3>1. jobs'[p][x] = jobs[p][x]
      BY <1>2, <2>2
    <3> QED
      BY <3>1 DEF SwarmInv, ReadsExist
  <2> QED
    BY <2>1, <2>2
<1> QED
  BY <1>2, <1>3, <1>4, <1>5, <1>6, <1>7, <1>8, <1>9, PeerMoves

LEMMA ServeOpenInv ==
    ASSUME SwarmInv, NEW p \in Peers, NEW r \in DOMAIN jobs[p], ServeOpen(p, r)
    PROVE  SwarmInv'
<1> DEFINE j == jobs[p][r]
           q == j.src
           part == [j EXCEPT !.phase = "serving", !.path = "part", !.size = Len(parts[q][r])]
           file == [j EXCEPT !.phase = "serving", !.path = LocalDir(q),
                             !.size = Len(LocalContent(q))]
           none == [j EXCEPT !.phase = "failed"]
<1>1. j \in Job /\ q \in Peers
  <2>1. j \in Job
    BY DEF SwarmInv, TypeOK, JobsOK
  <2> QED
    BY <2>1 DEF Job
<1>2. j.phase = "sent" /\ StoreOK
  BY DEF ServeOpen, SwarmInv, TypeOK
<1>3. CASE r \in DOMAIN parts[q]
  <2>1. parts[q][r] \in Content
    BY <1>1, <1>2, <1>3 DEF StoreOK
  <2>2. Len(parts[q][r]) \in Nat
    BY <2>1 DEF Content
  <2>3. part \in Job /\ part.path = "part" /\ part.src = q
    BY <1>1, <2>2 DEF Job
  <2>4. SetJob(p, r, part)
    BY <1>3 DEF ServeOpen
  <2> QED
    BY <1>3, <2>3, <2>4, SetJobInv
<1>4. CASE r \notin DOMAIN parts[q] /\ HasLocal(q)
  <2>1. LocalDir(q) \in Dirs /\ LocalContent(q) \in Content
    BY <1>1, <1>2, <1>4, LocalContentType
  <2>2. Len(LocalContent(q)) \in Nat /\ LocalContent(q) # NoFile
    BY <2>1, ContentExists DEF Content
  <2>3. file \in Job /\ file.path = LocalDir(q) /\ file.src = q
    BY <1>1, <2>1, <2>2 DEF Job
  <2>4. file.path # "part" /\ disk[q][file.path] # NoFile
    BY <2>1, <2>2, <2>3 DEF Dirs, LocalContent
  <2>5. SetJob(p, r, file)
    BY <1>4 DEF ServeOpen
  <2> QED
    BY <2>3, <2>4, <2>5, SetJobInv
<1>5. CASE r \notin DOMAIN parts[q] /\ ~HasLocal(q)
  <2>1. none \in Job /\ none.phase = "failed"
    BY <1>1 DEF Job
  <2>2. SetJob(p, r, none)
    BY <1>5 DEF ServeOpen
  <2> QED
    BY <2>1, <2>2, SetJobInv
<1> QED
  BY <1>3, <1>4, <1>5

LEMMA ServeReadInv ==
    ASSUME SwarmInv, NEW p \in Peers, NEW r \in DOMAIN jobs[p], ServeRead(p, r)
    PROVE  SwarmInv'
<1> DEFINE j == jobs[p][r]
           c == IF j.path = "part" THEN parts[j.src][r] ELSE disk[j.src][j.path]
           d == IF j.path = "part" \/ r = Whole THEN Fit(c, j.size) ELSE PieceAt(c, r)
           done == [j EXCEPT !.phase = "done", !.data = d]
<1>1. j \in Job /\ r \in Requests
  BY DEF SwarmInv, TypeOK, JobsOK
<1>2. j.src \in Peers /\ j.size \in Nat /\ (j.path # "part" => j.path \in Dirs)
  BY <1>1 DEF Job
<1>3. IF j.path = "part" THEN r \in DOMAIN parts[j.src] ELSE disk[j.src][j.path] # NoFile
  BY DEF ServeRead, SwarmInv, ReadsExist
<1>4. c \in Content
  BY <1>2, <1>3 DEF SwarmInv, TypeOK, StoreOK
<1> HIDE DEF c
<1>5. d \in Content
  BY <1>1, <1>2, <1>4, FitType, PieceAtType
<1>6. SetJob(p, r, done)
  BY DEF ServeRead, c
<1> HIDE DEF d
<1>7. done \in Job /\ done.phase = "done"
  BY <1>1, <1>5 DEF Job
<1> QED
  BY <1>6, <1>7, SetJobInv

LEMMA JobFailsInv ==
    ASSUME SwarmInv, NEW p \in Peers, NEW r \in DOMAIN jobs[p], JobFails(p, r)
    PROVE  SwarmInv'
<1>1. jobs[p][r] \in Job
  BY DEF SwarmInv, TypeOK, JobsOK
<1>2. /\ [jobs[p][r] EXCEPT !.phase = "failed"] \in Job
      /\ [jobs[p][r] EXCEPT !.phase = "failed"].phase = "failed"
  BY <1>1 DEF Job
<1> QED
  BY <1>2, SetJobInv DEF JobFails

-----------------------------------------------------------------------------
(* Stops and restarts *)

(* A process ends at any point: its requests go, those it served fail. *)
LEMMA StopInv ==
    ASSUME SwarmInv, NEW p \in Peers, Stop(p)
    PROVE  SwarmInv'
<1>1. TrackerOK' /\ Tracker!Owners(TheFile)' = Tracker!Owners(TheFile)
  BY SameTrackerStep DEF Stop, SwarmInv, TypeOK
<1>2. ThreadsOK' /\ pc'[p] = "down" /\ SameThreads(p)
  BY ThreadStep, EmptyContent DEF Stop, SwarmInv, TypeOK, PC
<1>3. StoreOK' /\ Kept /\ UNCHANGED <<disk, parts>>
  BY SameStoreStep DEF Stop, SwarmInv, TypeOK, store
<1>4. WorldOK'
  BY SwarmAssumption DEF Stop, SwarmInv, TypeOK, WorldOK
<1>5. DOMAIN jobs' = Peers /\ DOMAIN jobs'[p] = {}
  BY DEF Stop
<1>6. ASSUME NEW q \in Peers, q # p
      PROVE  /\ DOMAIN jobs'[q] = DOMAIN jobs[q]
             /\ \A r \in DOMAIN jobs'[q] :
                  /\ jobs'[q][r] \in Job
                  /\ jobs'[q][r].phase = "serving" => jobs'[q][r] = jobs[q][r]
  <2>1. jobs'[q] = [r \in DOMAIN jobs[q] |->
                      IF jobs[q][r].src = p /\ jobs[q][r].phase = "serving"
                      THEN [jobs[q][r] EXCEPT !.phase = "failed"] ELSE jobs[q][r]]
    BY <1>6 DEF Stop
  <2>2. \A r \in DOMAIN jobs[q] : jobs[q][r] \in Job
    BY <1>6 DEF SwarmInv, TypeOK, JobsOK
  <2>3. \A r \in DOMAIN jobs[q] :
          /\ [jobs[q][r] EXCEPT !.phase = "failed"] \in Job
          /\ [jobs[q][r] EXCEPT !.phase = "failed"].phase = "failed"
    BY <2>2 DEF Job
  <2> QED
    BY <2>1, <2>2, <2>3
<1>7. JobsOK'
  <2> SUFFICES ASSUME NEW q \in Peers
               PROVE  /\ DOMAIN jobs'[q] \subseteq Requests
                      /\ \A r \in DOMAIN jobs'[q] : jobs'[q][r] \in Job
    BY <1>5 DEF JobsOK
  <2>1. CASE q = p
    BY <1>5, <2>1
  <2>2. CASE q # p
    BY <1>6, <2>2 DEF SwarmInv, TypeOK, JobsOK
  <2> QED
    BY <2>1, <2>2
<1>8. TypeOK'
  BY <1>1, <1>2, <1>3, <1>4, <1>7 DEF TypeOK
<1>9. ASSUME NEW q \in Peers
      PROVE  WritesExist(q)' /\ ReadsExist(q)' /\ JobsAwaited(q)' /\ FetchAwaited(q)'
  <2>1. CASE q = p
    BY <1>2, <1>5, <2>1 DEF WritesExist, ReadsExist, JobsAwaited, FetchAwaited
  <2>2. CASE q # p
    <3>1. pc'[q] = pc[q] /\ at'[q] = at[q] /\ DOMAIN jobs'[q] = DOMAIN jobs[q]
      BY <1>2, <1>6, <2>2 DEF SameThreads
    <3>2. WritesExist(q)'
      BY <1>3, <3>1 DEF SwarmInv, WritesExist, HasLocal
    <3>3. JobsAwaited(q)' /\ FetchAwaited(q)'
      BY <3>1 DEF SwarmInv, JobsAwaited, FetchAwaited
    <3>4. ReadsExist(q)'
      <4>1. \A r \in DOMAIN jobs'[q] :
              \/ r \in DOMAIN jobs[q] /\ jobs'[q][r] = jobs[q][r]
              \/ jobs'[q][r].phase # "serving"
        BY <1>6, <2>2
      <4> QED
        BY <1>3, <4>1, ReadsKept
    <3> QED
      BY <3>2, <3>3, <3>4
  <2> QED
    BY <2>1, <2>2
<1>10. AdvertisedIsOnDisk'
  BY <1>1, <1>3 DEF SwarmInv, AdvertisedIsOnDisk, CanServe, HasLocal
<1> QED
  BY <1>8, <1>9, <1>10 DEF SwarmInv

(* The parts of the invariant that speak of one peer see no tracker. *)
LEMMA TrackerOnlyInv ==
    ASSUME SwarmInv, TrackerOK', WorldOK', UNCHANGED <<thread, store, jobs>>,
           Tracker!Owners(TheFile)' \subseteq Tracker!Owners(TheFile)
    PROVE  SwarmInv'
<1>1. TypeOK'
  BY DEF SwarmInv, TypeOK, ThreadsOK, StoreOK, JobsOK, thread, store
<1>2. \A q \in Peers : /\ WritesExist(q)' /\ ReadsExist(q)'
                       /\ JobsAwaited(q)' /\ FetchAwaited(q)'
  BY DEF SwarmInv, WritesExist, ReadsExist, JobsAwaited, FetchAwaited, HasLocal, thread, store
<1>3. AdvertisedIsOnDisk'
  BY DEF SwarmInv, AdvertisedIsOnDisk, CanServe, HasLocal, store
<1> QED
  BY <1>1, <1>2, <1>3 DEF SwarmInv

LEMMA TrackerStopInv ==
    ASSUME SwarmInv, TrackerStop
    PROVE  SwarmInv'
<1>1. TrackerOK' /\ WorldOK'
  <2>1. Tracker!TypeOK' /\ trackerUp' \in BOOLEAN
    BY DEF TrackerStop, Tracker!TypeOK
  <2>2. WorldOK'
    BY SwarmAssumption DEF TrackerStop, SwarmInv, TypeOK, WorldOK
  <2> QED
    BY <2>1, <2>2 DEF TrackerOK
<1>2. ~Tracker!Known(TheFile)'
  BY DEF TrackerStop, Tracker!Known
<1>3. Tracker!Owners(TheFile)' = {}
  BY <1>2 DEF Tracker!Owners
<1> QED
  BY <1>1, <1>3, TrackerOnlyInv DEF TrackerStop

LEMMA TrackerStartInv ==
    ASSUME SwarmInv, TrackerStart
    PROVE  SwarmInv'
<1>1. TrackerOK' /\ WorldOK' /\ Tracker!Owners(TheFile)' = Tracker!Owners(TheFile)
  BY DEF TrackerStart, SwarmInv, TypeOK, TrackerOK, WorldOK, world, bounds,
         Tracker!TypeOK, Tracker!Owners, Tracker!Known
<1> QED
  BY <1>1, TrackerOnlyInv DEF TrackerStart

LEMMA ListenInv ==
    ASSUME SwarmInv, NEW p \in Peers, Listen(p)
    PROVE  SwarmInv'
<1>1. TrackerOK' /\ WorldOK' /\ Tracker!Owners(TheFile)' = Tracker!Owners(TheFile)
  BY DEF Listen, SwarmInv, TypeOK, TrackerOK, WorldOK, tracker, bounds,
         Tracker!TypeOK, Tracker!Owners, Tracker!Known
<1> QED
  BY <1>1, TrackerOnlyInv DEF Listen

LEMMA StutterInv ==
    ASSUME SwarmInv, UNCHANGED vars
    PROVE  SwarmInv'
<1>1. TrackerOK' /\ WorldOK' /\ Tracker!Owners(TheFile)' = Tracker!Owners(TheFile)
  BY DEF vars, tracker, world, bounds, SwarmInv, TypeOK, TrackerOK, WorldOK,
         Tracker!TypeOK, Tracker!Owners, Tracker!Known
<1> QED
  BY <1>1, TrackerOnlyInv DEF vars

-----------------------------------------------------------------------------
LEMMA InitInv == Init => SwarmInv
<1> SUFFICES ASSUME Init PROVE SwarmInv
  OBVIOUS
<1>1. DOMAIN <<>> = {}
  OBVIOUS
<1>2. TrackerOK
  BY DEF Init, TrackerOK, Tracker!Init, Tracker!TypeOK
<1>3. ThreadsOK /\ StoreOK
  BY <1>1, EmptyContent DEF Init, ThreadsOK, StoreOK, PC
<1>4. JobsOK /\ WorldOK
  BY <1>1, SwarmAssumption DEF Init, JobsOK, WorldOK
<1>5. \A p \in Peers : WritesExist(p) /\ ReadsExist(p) /\ JobsAwaited(p) /\ FetchAwaited(p)
  BY <1>1 DEF Init, WritesExist, ReadsExist, JobsAwaited, FetchAwaited
<1>6. Tracker!Owners(TheFile) = {}
  BY DEF Init, Tracker!Init, Tracker!Owners, Tracker!Known
<1> QED
  BY <1>2, <1>3, <1>4, <1>5, <1>6 DEF SwarmInv, TypeOK, AdvertisedIsOnDisk

LEMMA NextInv == SwarmInv /\ [Next]_vars => SwarmInv'
<1> SUFFICES ASSUME SwarmInv, [Next]_vars PROVE SwarmInv'
  OBVIOUS
<1>1. ASSUME NEW p \in Peers, UserStep(p) PROVE SwarmInv'
  BY <1>1, StartInv, AddInv, OtherCommandInv DEF UserStep
<1>2. ASSUME NEW p \in Peers, PeerStep(p) PROVE SwarmInv'
  BY <1>2, PeerStepInv
<1>3. ASSUME NEW p \in Peers, JobStep(p) PROVE SwarmInv'
  BY <1>3, ServeOpenInv, ServeReadInv, JobFailsInv DEF JobStep
<1>4. ASSUME NEW p \in Peers, Quit(p) \/ Crash(p) PROVE SwarmInv'
  BY <1>4, StopInv DEF Quit, Crash
<1>5. CASE TrackerStop \/ TrackerStart
  BY <1>5, TrackerStopInv, TrackerStartInv
<1>6. CASE Quiet \/ UNCHANGED vars
  BY <1>6, StutterInv DEF Quiet
<1>7. ASSUME NEW p \in Peers, Listen(p) PROVE SwarmInv'
  BY <1>7, ListenInv
<1> QED
  BY <1>1, <1>2, <1>3, <1>4, <1>5, <1>6, <1>7 DEF Next

(* SwarmInv is an invariant, whatever the constants and the workload are. *)
THEOREM SwarmInvariant == Spec => []SwarmInv
BY InitInv, NextInv, PTL DEF Spec

(* The state of peers and tracker stays well typed. *)
THEOREM TypeCorrect == Spec => []TypeOK
<1>1. SwarmInv => TypeOK
  BY DEF SwarmInv
<1> QED
  BY <1>1, SwarmInvariant, PTL

(* A peer that the tracker lists for a piece has a file or a part on disk to
   answer for it, through crashes, restarts, lost calls and any commands. *)
THEOREM AdvertisedOnDisk == Spec => []AdvertisedIsOnDisk
<1>1. SwarmInv => AdvertisedIsOnDisk
  BY DEF SwarmInv
<1> QED
  BY <1>1, SwarmInvariant, PTL

-----------------------------------------------------------------------------
(* The tracker inside the swarm *)

(* A call does one request of TrackerState, or nothing. *)
LEMMA CallRequests ==
    ASSUME SwarmInv, NEW p \in Peers, Announce(p) \/ HavePart(p) \/ Claim(p) \/ Start(p)
    PROVE  Tracker!Request \/ UNCHANGED Tracker!tvars
<1>1. CASE UNCHANGED <<peers, files>>
  BY <1>1 DEF Tracker!tvars
<1>2. CASE Start(p) /\ Tracker!register_peer(p, p)
  BY <1>2 DEF Tracker!Request
<1>3. CASE (HavePart(p) \/ Claim(p)) /\ Tracker!have_piece(p, TheFile, at[p])
  <2>1. at[p] \in Nat /\ at[p] \in 0 .. at[p]
    BY DEF SwarmInv, TypeOK, ThreadsOK
  <2> QED
    BY <1>3, <2>1 DEF Tracker!Request
<1>4. CASE Announce(p) /\ Tracker!add_file(p, TheFile, PieceCount(LocalContent(p)))
  <2>1. pc[p] \in {"copying", "saving", "assemble"}
    BY <1>4 DEF Announce, FileWritten
  <2>2. HasLocal(p)
    BY <2>1 DEF SwarmInv, WritesExist, HasLocal, Dirs
  <2>3. PieceCount(LocalContent(p)) \in Nat
    BY <2>2, LocalContentType, PieceCountType DEF SwarmInv, TypeOK
  <2> QED
    BY <1>4, <2>3 DEF Tracker!Request
<1> QED
  BY <1>1, <1>2, <1>3, <1>4 DEF Announce, HavePart, Claim, Start, Call

(* Every step of the swarm is one of the tracker's, or is none of its business. *)
LEMMA TrackerSteps ==
    ASSUME SwarmInv, [Next]_vars
    PROVE  [Tracker!Request \/ TrackerStop]_(Tracker!tvars)
<1>1. ASSUME UNCHANGED tracker
      PROVE  UNCHANGED Tracker!tvars
  BY <1>1 DEF tracker, Tracker!tvars
<1>2. ASSUME NEW p \in Peers, UserStep(p), ~Start(p)
      PROVE  UNCHANGED tracker
  BY <1>2 DEF UserStep, Add, AddInPlace, DownloadFile, DownloadPieces, Have, Command
<1>3. ASSUME NEW p \in Peers, PeerStep(p), ~(Announce(p) \/ HavePart(p) \/ Claim(p))
      PROVE  UNCHANGED tracker
  BY <1>3 DEF PeerStep, WriteChunk, QueryFails, QueryFile, Fetched, QueryPieces, Collect,
              PartWritten, Drained, Collected, AppendPart, CallRefused
<1>4. ASSUME NEW p \in Peers, JobStep(p) \/ Quit(p) \/ Crash(p)
      PROVE  UNCHANGED tracker
  BY <1>4 DEF JobStep, ServeOpen, ServeRead, JobFails, SetJob, Quit, Crash, Stop
<1>5. ASSUME \/ TrackerStart \/ Quiet \/ UNCHANGED vars
             \/ \E p \in Peers : Listen(p)
      PROVE  UNCHANGED Tracker!tvars
  BY <1>5 DEF TrackerStart, Quiet, Listen, vars, tracker, Tracker!tvars
<1> QED
  BY <1>1, <1>2, <1>3, <1>4, <1>5, CallRequests DEF Next, UserStep, PeerStep

(* Whatever peers do, and whatever breaks, the tracker they meet is the one of
   TrackerState: each step of the swarm is one request to it, none, or the end
   of its process, which loses everything. *)
THEOREM TrackerIsTrackerState ==
    Spec => Tracker!Init /\ [][Tracker!Request \/ TrackerStop]_(Tracker!tvars)
<1>1. Init => Tracker!Init
  BY DEF Init
<1>2. SwarmInv /\ [Next]_vars => [Tracker!Request \/ TrackerStop]_(Tracker!tvars)
  BY TrackerSteps
<1> QED
  BY <1>1, <1>2, SwarmInvariant, PTL DEF Spec

(* No request leaves a piece without an owner. *)
LEMMA RequestKeepsOwned ==
    ASSUME Tracker!TypeOK, Tracker!EveryPieceHasOwner, Tracker!Request
    PROVE  Tracker!EveryPieceHasOwner'
<1>1. ASSUME NEW p \in Peers, NEW n \in Nat, Tracker!add_file(p, TheFile, n)
      PROVE  Tracker!EveryPieceHasOwner'
  <2>1. files'[TheFile] = [piece_count |-> n,
                           owners |-> Tracker!Owners(TheFile) \cup ((0 .. n - 1) \X {p})]
    BY <1>1 DEF Tracker!add_file, Tracker!TypeOK
  <2>2. \A i \in 0 .. n - 1 : <<i, p>> \in files'[TheFile].owners
    BY <2>1
  <2> QED
    BY <2>1, <2>2 DEF Tracker!EveryPieceHasOwner
<1>2. ASSUME NEW p \in Peers, NEW i \in Int, Tracker!have_piece(p, TheFile, i)
      PROVE  Tracker!EveryPieceHasOwner'
  <2>1. CASE Tracker!Known(TheFile) /\ files' = [files EXCEPT ![TheFile].owners = @ \cup {<<i, p>>}]
    <3>1. files[TheFile] \in [piece_count : Nat, owners : SUBSET (Nat \X Peers)]
      BY <2>1 DEF Tracker!TypeOK, Tracker!Known, Tracker!FileInfo
    <3>2. /\ files'[TheFile].piece_count = files[TheFile].piece_count
          /\ files[TheFile].owners \subseteq files'[TheFile].owners
      BY <2>1, <3>1 DEF Tracker!TypeOK
    <3> QED
      BY <2>1, <3>2 DEF Tracker!EveryPieceHasOwner
  <2>2. CASE UNCHANGED Tracker!tvars
    BY <2>2 DEF Tracker!tvars, Tracker!EveryPieceHasOwner, Tracker!Known
  <2> QED
    BY <1>2, <2>1, <2>2 DEF Tracker!have_piece, Tracker!HaveAccepted
<1>3. \A n \in Nat : -1 .. n \subseteq Int
  OBVIOUS
<1>4. ASSUME NEW p \in Peers, NEW e \in Peers, Tracker!register_peer(p, e)
      PROVE  Tracker!EveryPieceHasOwner'
  BY <1>4 DEF Tracker!register_peer, Tracker!EveryPieceHasOwner, Tracker!Known
<1> QED
  BY <1>1, <1>2, <1>3, <1>4 DEF Tracker!Request

(* Every piece that the tracker says the file has is recorded for some peer, in
   the system of peers and tracker as for the tracker alone. *)
THEOREM EveryPieceOwned == Spec => []Tracker!EveryPieceHasOwner
<1>1. Tracker!Init => Tracker!EveryPieceHasOwner
  BY DEF Tracker!Init, Tracker!EveryPieceHasOwner, Tracker!Known
<1>2. SwarmInv => Tracker!TypeOK
  BY DEF SwarmInv, TypeOK, TrackerOK
<1>3. ASSUME TrackerStop
      PROVE  Tracker!EveryPieceHasOwner'
  BY <1>3 DEF TrackerStop, Tracker!EveryPieceHasOwner, Tracker!Known
<1>4. /\ Tracker!TypeOK /\ Tracker!EveryPieceHasOwner
      /\ [Tracker!Request \/ TrackerStop]_(Tracker!tvars)
      => Tracker!EveryPieceHasOwner'
  BY <1>3, RequestKeepsOwned DEF Tracker!tvars, Tracker!EveryPieceHasOwner, Tracker!Known
<1> QED
  BY <1>1, <1>2, <1>4, TrackerIsTrackerState, SwarmInvariant, PTL
=============================================================================
