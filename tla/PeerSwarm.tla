------------------------------ MODULE PeerSwarm ------------------------------
(***************************************************************************)
(* Peers and tracker of P2P_Project/cpp_version, sharing one file name.    *)
(*                                                                         *)
(* A peer process has one command thread (peer.cpp main), one detached     *)
(* thread per upload, and one async thread per piece it downloads; all of  *)
(* them use the same directories without a lock.  Content is a sequence of *)
(* piece-sized chunks, and a file being written is seen truncated and      *)
(* chunk by chunk.  A step is what one thread does between two points      *)
(* where another thread, or a stop of the process, can come in.            *)
(***************************************************************************)
EXTENDS Integers, Sequences, FiniteSets

CONSTANTS Peers,         \* peer ids: numbers, in the order of the tracker's map
          Seeds,         \* the peers whose user has the file to share
          Versions,      \* what a user may share under the file name
          Pieces,        \* [Versions -> Nat]: the chunks of each version
          TheFile,       \* the file name
          Zero,          \* a chunk of a zero-initialised buffer
          NoFile,        \* a path that does not exist
          NoEndpoint, NoInfo,
          Workload,      \* which commands and faults happen, see below
          MaxCommands,   \* bound: commands typed by the users
          MaxStops       \* bound: peer and tracker stops

(* Commands: "add" (a name that shared/ does not hold), "replace" (one that
   it holds), "have", "download-file", "download-pieces", "quit".  Faults:
   "crash" (a peer dies), "tracker-restart" (the tracker dies, a new one may
   start) and "lost" (a connection breaks). *)
Whole == -1                                  \* the request GET_FILE
Requests == Nat \cup {Whole}
Chunk == (Versions \X Nat) \cup {Zero}
Content == Seq(Chunk)
Dirs == {"shared", "downloads"}

ASSUME SwarmAssumption == /\ Peers \subseteq Nat
                          /\ Seeds \subseteq Peers
                          /\ Pieces \in [Versions -> Nat]
                          /\ NoFile \notin Content
                          /\ NoEndpoint \notin Peers
                          /\ NoInfo \notin [piece_count : Nat, owners : SUBSET (Nat \X Peers)]
                          /\ MaxCommands \in Nat /\ MaxStops \in Nat

VARIABLES trackerUp,     \* the tracker process runs
          peers, files,  \* its state
          pc,            \* where the command thread of each peer is
          todo,          \* the chunks it still has to write
          want,          \* result.piece_count, or the count that `have` walks
          at,            \* the piece its loop has reached
          disk,          \* the file under shared/ and under downloads/
          parts,         \* downloads/.parts: the piece files that exist
          jobs,          \* the requests of each peer not yet collected
          listening,     \* its upload server accepts connections
          commands, stops   \* bounded counts

tracker == <<trackerUp, peers, files>>
thread == <<pc, todo, want, at>>
store == <<disk, parts>>
bounds == <<commands, stops>>
world == <<listening, bounds>>
vars == <<tracker, thread, store, jobs, world>>

Tracker == INSTANCE TrackerState
             WITH PeerIds <- Peers, Filenames <- {TheFile}, Endpoints <- Peers,
                  PieceCounts <- Nat

PC == {"down", "idle", "copying", "query file", "fetching", "saving",
       "query pieces", "collect", "writing part", "have", "drain", "assemble", "claim"}

Job == [src : Peers, phase : {"sent", "serving", "done", "failed"},
        path : Dirs \cup {"part"}, size : Nat, data : Content]

(* Partial functions: an absent key is a file, or a request, that is not there. *)
Put(f, k, v) == [x \in DOMAIN f \cup {k} |-> IF x = k THEN v ELSE f[x]]
Drop(f, k) == [x \in DOMAIN f \ {k} |-> f[x]]

Data(v) == [k \in 1 .. Pieces[v] |-> <<v, k - 1>>]
Up(p) == pc[p] # "down"

-----------------------------------------------------------------------------
(* FileManager *)

HasLocal(p) == \E d \in Dirs : disk[p][d] # NoFile
LocalDir(p) == IF disk[p]["shared"] # NoFile THEN "shared" ELSE "downloads"
LocalContent(p) == disk[p][LocalDir(p)]

(* local_file: an empty file counts as one piece. *)
PieceCount(c) == IF Len(c) < 1 THEN 1 ELSE Len(c)

(* complete_piece_ids: all the pieces that the local file has, whatever the
   tracker says; without one, the piece files that exist. *)
CompletePieceIds(p, count) ==
    IF HasLocal(p) THEN 0 .. PieceCount(LocalContent(p)) - 1
                   ELSE DOMAIN parts[p] \cap (0 .. count - 1)

(* A read of n chunks into a zeroed buffer, and a read at a piece's offset. *)
Fit(c, n) == [k \in 1 .. n |-> IF k <= Len(c) THEN c[k] ELSE Zero]
PieceAt(c, i) == IF i < Len(c) THEN <<c[i + 1]>> ELSE <<>>

(* What peer p answers to GET_PIECE i when nobody writes meanwhile. *)
CanServe(p, i) == i \in DOMAIN parts[p] \/ HasLocal(p)
Served(p, i) == IF i \in DOMAIN parts[p] THEN parts[p][i]
                ELSE IF HasLocal(p) THEN PieceAt(LocalContent(p), i) ELSE <<>>

Least(S) == CHOOSE x \in S : \A y \in S : x <= y

-----------------------------------------------------------------------------
(* The command thread's variables, all four at once. *)
Thread(p, l, chunks, count, piece) ==
    /\ pc' = [pc EXCEPT ![p] = l]
    /\ todo' = [todo EXCEPT ![p] = chunks]
    /\ want' = [want EXCEPT ![p] = count]
    /\ at' = [at EXCEPT ![p] = piece]

Goto(p, l) == Thread(p, l, todo[p], want[p], at[p])
Return(p) == Thread(p, "idle", <<>>, 0, 0)

Write(p, d, c) == disk' = [disk EXCEPT ![p][d] = c]
WritePart(p, i, c) == parts' = [parts EXCEPT ![p] = Put(@, i, c)]

Init == /\ trackerUp = TRUE
        /\ Tracker!Init
        /\ pc = [p \in Peers |-> "down"]
        /\ todo = [p \in Peers |-> <<>>]
        /\ want = [p \in Peers |-> 0]
        /\ at = [p \in Peers |-> 0]
        /\ disk = [p \in Peers |-> [d \in Dirs |-> NoFile]]
        /\ parts = [p \in Peers |-> <<>>]
        /\ jobs = [p \in Peers |-> <<>>]
        /\ listening = [p \in Peers |-> FALSE]
        /\ commands = 0 /\ stops = 0

-----------------------------------------------------------------------------
(* Calls of the tracker.  tracker_request ignores a request that could not be
   sent and takes a reply that breaks off for the whole reply: a "lost" call
   looks like a served one to the peer. *)
MayLose == "lost" \in Workload

Call(handler) == /\ trackerUp
                 /\ UNCHANGED trackerUp
                 /\ \/ handler
                    \/ MayLose /\ UNCHANGED <<peers, files>>

(* parse_query: the source lines that arrived, all or a first part of them. *)
Replies ==
    LET all == Tracker!query(TheFile)
        upto(k) == [q \in {x \in DOMAIN all : x < k} |-> all[q]]
    IN  {all} \cup (IF MayLose THEN {upto(k) : k \in Peers} ELSE {})

-----------------------------------------------------------------------------
(* Processes *)

(* A new process registers before it reads commands; it dies if it cannot.  Its
   upload server is a detached thread: nobody waits until it listens. *)
Start(p) == /\ pc[p] = "down"
            /\ Call(Tracker!register_peer(p, p))
            /\ Goto(p, "idle")
            /\ UNCHANGED <<store, jobs, world>>

(* The thread binds the port at some time, or never: if the port or the address
   does not do it prints an error and returns, and the process goes on. *)
Listen(p) == /\ Up(p) /\ ~listening[p]
             /\ listening' = [listening EXCEPT ![p] = TRUE]
             /\ UNCHANGED <<tracker, thread, store, jobs, bounds>>

-----------------------------------------------------------------------------
(* Commands typed by the user *)
Command(p, op) == /\ pc[p] = "idle"
                  /\ op \in Workload
                  /\ commands < MaxCommands
                  /\ commands' = commands + 1
                  /\ UNCHANGED <<tracker, parts, jobs, listening, stops>>

(* add: the copy starts by truncating shared/<name>, old or new. *)
Add(p, v) == /\ Command(p, IF disk[p]["shared"] = NoFile THEN "add" ELSE "replace")
             /\ p \in Seeds
             /\ Write(p, "shared", <<>>)
             /\ Thread(p, "copying", Data(v), 0, 0)

(* add of the very file under shared/: import_file copies nothing. *)
AddInPlace(p) == /\ Command(p, "add")
                 /\ disk[p]["shared"] # NoFile
                 /\ Thread(p, "copying", <<>>, 0, 0)
                 /\ UNCHANGED disk

DownloadFile(p) == /\ Command(p, "download-file")
                   /\ Goto(p, "query file")
                   /\ UNCHANGED disk

DownloadPieces(p) == /\ Command(p, "download-pieces")
                     /\ Goto(p, "query pieces")
                     /\ UNCHANGED disk

(* Mutant: the loop over the local pieces starts at -1. *)
Have_from_minus_one(p) == /\ Command(p, "have")
                          /\ HasLocal(p)
                          /\ Thread(p, "claim", <<>>, PieceCount(LocalContent(p)), -1)
                          /\ UNCHANGED disk

(* have: an error, and nothing else, without a local file. *)
Have(p) == /\ Command(p, "have")
           /\ HasLocal(p)
           /\ Thread(p, "claim", <<>>, PieceCount(LocalContent(p)), 0)
           /\ UNCHANGED disk

-----------------------------------------------------------------------------
(* The steps of a command *)

(* One more chunk of the file being copied (add) or saved (download-file). *)
WriteChunk(p) ==
    LET d == IF pc[p] = "copying" THEN "shared" ELSE "downloads"
    IN  /\ pc[p] \in {"copying", "saving"}
        /\ todo[p] # <<>>
        /\ Write(p, d, Append(disk[p][d], Head(todo[p])))
        /\ Thread(p, pc[p], Tail(todo[p]), 0, 0)
        /\ UNCHANGED <<tracker, parts, jobs, world>>

FileWritten(p) == \/ pc[p] \in {"copying", "saving"} /\ todo[p] = <<>>
                  \/ pc[p] = "assemble" /\ at[p] = want[p]

(* ADD_FILE, with the piece count of the file that local_file finds, which is
   the one under shared/ when there are two. *)
Announce(p) == /\ FileWritten(p)
               /\ Call(Tracker!add_file(p, TheFile, PieceCount(LocalContent(p))))
               /\ Return(p)
               /\ UNCHANGED <<store, jobs, world>>

(* QUERY: no such file, or not even the first line arrived. *)
QueryFails(p) == /\ pc[p] \in {"query file", "query pieces"}
                 /\ trackerUp
                 /\ ~Tracker!Known(TheFile) \/ MayLose
                 /\ Return(p)
                 /\ UNCHANGED <<tracker, store, jobs, world>>

NewJob(q) == [src |-> q, phase |-> "sent", path |-> "part", size |-> 0, data |-> <<>>]

(* download-file asks the first peer of the list, whoever it is. *)
QueryFile(p) ==
    /\ pc[p] = "query file"
    /\ trackerUp
    /\ Tracker!Known(TheFile)
    /\ \E heard \in Replies :
          IF DOMAIN heard = {}
          THEN Return(p) /\ UNCHANGED jobs
          ELSE /\ jobs' = [jobs EXCEPT ![p] = Put(@, Whole, NewJob(Least(DOMAIN heard)))]
               /\ Goto(p, "fetching")
    /\ UNCHANGED <<tracker, store, world>>

(* The reply is complete in memory before downloads/<name> is truncated. *)
Fetched(p) ==
    /\ pc[p] = "fetching"
    /\ \/ /\ jobs[p][Whole].phase = "done"
          /\ Write(p, "downloads", <<>>)
          /\ Thread(p, "saving", jobs[p][Whole].data, 0, 0)
       \/ /\ jobs[p][Whole].phase = "failed"
          /\ Return(p)
          /\ UNCHANGED disk
    /\ jobs' = [jobs EXCEPT ![p] = Drop(@, Whole)]
    /\ UNCHANGED <<tracker, parts, world>>

(* Mutant: the first other peer of the list, whether or not it lists the piece. *)
source_for_piece_any(heard, p, i) ==
    IF DOMAIN heard \ {p} # {} THEN Least(DOMAIN heard \ {p}) ELSE p

(* source_for_piece: the first other peer that lists the piece, else itself. *)
Listing(heard, i) == {q \in DOMAIN heard : i \in heard[q]}
source_for_piece(heard, p, i) ==
    IF Listing(heard, i) \ {p} # {} THEN Least(Listing(heard, i) \ {p}) ELSE p

(* Mutant: the loop over the pieces starts at 1. *)
QueryPieces_skips_first(p) ==
    /\ pc[p] = "query pieces"
    /\ trackerUp
    /\ Tracker!Known(TheFile)
    /\ \E heard \in Replies :
          LET count == files[TheFile].piece_count
              missing == {i \in 1 .. count - 1 : /\ i \notin CompletePieceIds(p, count)
                                                 /\ Listing(heard, i) # {}}
          IN  /\ jobs' = [jobs EXCEPT ![p] =
                            [i \in missing |-> NewJob(source_for_piece(heard, p, i))]]
              /\ Thread(p, "collect", <<>>, count, 0)
    /\ UNCHANGED <<tracker, store, world>>

(* download-pieces: one request for each piece not here that has a source. *)
QueryPieces(p) ==
    /\ pc[p] = "query pieces"
    /\ trackerUp
    /\ Tracker!Known(TheFile)
    /\ \E heard \in Replies :
          LET count == files[TheFile].piece_count
              missing == {i \in 0 .. count - 1 : /\ i \notin CompletePieceIds(p, count)
                                                 /\ Listing(heard, i) # {}}
          IN  /\ jobs' = [jobs EXCEPT ![p] =
                            [i \in missing |-> NewJob(source_for_piece(heard, p, i))]]
              /\ Thread(p, "collect", <<>>, count, 0)
    /\ UNCHANGED <<tracker, store, world>>

(* Mutant: HAVE is sent first, and the part is not there. *)
Collect_before_write(p) ==
    /\ pc[p] = "collect"
    /\ DOMAIN jobs[p] # {}
    /\ LET i == Least(DOMAIN jobs[p])
       IN  /\ jobs[p][i].phase \in {"done", "failed"}
           /\ Thread(p, "have", <<>>, want[p], i)
           /\ jobs' = [jobs EXCEPT ![p] = Drop(@, i)]
    /\ UNCHANGED <<tracker, store, world>>

(* The jobs are collected in the order of their pieces, each one written over
   its part file; the first that failed ends the loop with an exception. *)
Collect(p) ==
    /\ pc[p] = "collect"
    /\ DOMAIN jobs[p] # {}
    /\ LET i == Least(DOMAIN jobs[p])
       IN  /\ \/ /\ jobs[p][i].phase = "done"
                /\ WritePart(p, i, <<>>)
                /\ Thread(p, "writing part", jobs[p][i].data, want[p], i)
             \/ /\ jobs[p][i].phase = "failed"
                /\ Goto(p, "drain")
                /\ UNCHANGED parts
           /\ jobs' = [jobs EXCEPT ![p] = Drop(@, i)]
    /\ UNCHANGED <<tracker, disk, world>>

PartWritten(p) == /\ pc[p] = "writing part"
                  /\ WritePart(p, at[p], todo[p])
                  /\ Thread(p, "have", <<>>, want[p], at[p])
                  /\ UNCHANGED <<tracker, disk, jobs, world>>

(* HAVE: the tracker's refusals are printed and change nothing here. *)
HavePart(p) == /\ pc[p] = "have"
               /\ Call(Tracker!have_piece(p, TheFile, at[p]))
               /\ Goto(p, "collect")
               /\ UNCHANGED <<store, jobs, world>>

(* Mutant: waits for the rest of the jobs to succeed. *)
Drained_waits_for_data(p) ==
    /\ pc[p] = "drain"
    /\ \A i \in DOMAIN jobs[p] : jobs[p][i].phase = "done"
    /\ jobs' = [jobs EXCEPT ![p] = <<>>]
    /\ Return(p)
    /\ UNCHANGED <<tracker, store, world>>

(* The futures that an exception leaves behind are joined by their destructors. *)
Drained(p) == /\ pc[p] = "drain"
              /\ \A i \in DOMAIN jobs[p] : jobs[p][i].phase \in {"done", "failed"}
              /\ jobs' = [jobs EXCEPT ![p] = <<>>]
              /\ Return(p)
              /\ UNCHANGED <<tracker, store, world>>

(* All jobs collected: with as many pieces here as the tracker counts, the
   file is assembled, which truncates downloads/<name> before it looks for
   the first part. *)
Collected(p) ==
    /\ pc[p] = "collect"
    /\ DOMAIN jobs[p] = {}
    /\ IF Cardinality(CompletePieceIds(p, want[p])) = want[p]
       THEN /\ Write(p, "downloads", <<>>)
            /\ Thread(p, "assemble", <<>>, want[p], 0)
       ELSE Return(p) /\ UNCHANGED disk
    /\ UNCHANGED <<tracker, parts, jobs, world>>

(* Mutant: the target is opened, and truncated, for each part. *)
AppendPart_reopens(p) ==
    /\ pc[p] = "assemble"
    /\ at[p] < want[p]
    /\ IF at[p] \in DOMAIN parts[p]
       THEN /\ Write(p, "downloads", parts[p][at[p]])
            /\ Thread(p, "assemble", <<>>, want[p], at[p] + 1)
       ELSE Return(p) /\ UNCHANGED disk
    /\ UNCHANGED <<tracker, parts, jobs, world>>

AppendPart(p) ==
    /\ pc[p] = "assemble"
    /\ at[p] < want[p]
    /\ IF at[p] \in DOMAIN parts[p]
       THEN /\ Write(p, "downloads", disk[p]["downloads"] \o parts[p][at[p]])
            /\ Thread(p, "assemble", <<>>, want[p], at[p] + 1)
       ELSE Return(p) /\ UNCHANGED disk
    /\ UNCHANGED <<tracker, parts, jobs, world>>

(* have: one HAVE for each piece of the local file, accepted or not. *)
Claim(p) == /\ pc[p] = "claim"
            /\ Call(Tracker!have_piece(p, TheFile, at[p]))
            /\ IF at[p] + 1 = want[p] THEN Return(p)
                                     ELSE Thread(p, "claim", <<>>, want[p], at[p] + 1)
            /\ UNCHANGED <<store, jobs, world>>

(* "cannot connect to tracker" ends the command; the one thrown inside the
   loop over the jobs still waits for those left. *)
CallRefused(p) ==
    /\ ~trackerUp
    /\ \/ /\ pc[p] \in {"query file", "query pieces", "claim"} \/ FileWritten(p)
          /\ Return(p)
       \/ /\ pc[p] = "have"
          /\ Goto(p, "drain")
    /\ UNCHANGED <<tracker, store, jobs, world>>

PeerStep(p) == \/ WriteChunk(p) \/ Announce(p) \/ QueryFails(p) \/ QueryFile(p)
               \/ Fetched(p) \/ QueryPieces(p) \/ Collect(p) \/ PartWritten(p)
               \/ HavePart(p) \/ Drained(p) \/ Collected(p) \/ AppendPart(p)
               \/ Claim(p) \/ CallRefused(p)

-----------------------------------------------------------------------------
(* Upload threads: handle_upload_client in the process jobs[p][r].src *)

SetJob(p, r, j) == /\ jobs' = [jobs EXCEPT ![p] = Put(@, r, j)]
                   /\ UNCHANGED <<tracker, thread, store, world>>

(* First half of read_piece / read_file: choose the path, take its size. *)
ServeOpen(p, r) ==
    LET j == jobs[p][r]
        q == j.src
    IN  /\ j.phase = "sent"
        /\ listening[q]
        /\ IF r \in DOMAIN parts[q]
           THEN SetJob(p, r, [j EXCEPT !.phase = "serving", !.path = "part",
                                       !.size = Len(parts[q][r])])
           ELSE IF HasLocal(q)
           THEN SetJob(p, r, [j EXCEPT !.phase = "serving", !.path = LocalDir(q),
                                       !.size = Len(LocalContent(q))])
           ELSE SetJob(p, r, [j EXCEPT !.phase = "failed"])

(* Mutant: the read does not seek to the piece. *)
ServeRead_without_seek(p, r) ==
    LET j == jobs[p][r]
        c == IF j.path = "part" THEN parts[j.src][r] ELSE disk[j.src][j.path]
    IN  /\ j.phase = "serving"
        /\ SetJob(p, r, [j EXCEPT !.phase = "done",
                           !.data = IF j.path = "part" \/ r = Whole THEN Fit(c, j.size)
                                                                    ELSE PieceAt(c, 0)])

(* Second half: read what the path holds by now, and send it. *)
ServeRead(p, r) ==
    LET j == jobs[p][r]
        c == IF j.path = "part" THEN parts[j.src][r] ELSE disk[j.src][j.path]
    IN  /\ j.phase = "serving"
        /\ SetJob(p, r, [j EXCEPT !.phase = "done",
                           !.data = IF j.path = "part" \/ r = Whole THEN Fit(c, j.size)
                                                                    ELSE PieceAt(c, r)])

(* No connection to a source that is down or does not listen; a connection
   that breaks. *)
JobFails(p, r) ==
    /\ \/ jobs[p][r].phase = "sent" /\ ~listening[jobs[p][r].src]
       \/ jobs[p][r].phase \in {"sent", "serving"} /\ MayLose
    /\ SetJob(p, r, [jobs[p][r] EXCEPT !.phase = "failed"])

JobStep(p) == \E r \in DOMAIN jobs[p] :
                ServeOpen(p, r) \/ ServeRead(p, r) \/ JobFails(p, r)

-----------------------------------------------------------------------------
(* Stops: the process ends with all its threads, its files stay, and whoever
   it was serving sees the connection end. *)
Stop(p) ==
    /\ stops < MaxStops
    /\ stops' = stops + 1
    /\ Thread(p, "down", <<>>, 0, 0)
    /\ listening' = [listening EXCEPT ![p] = FALSE]
    /\ jobs' = [q \in Peers |->
                  IF q = p THEN <<>>
                  ELSE [r \in DOMAIN jobs[q] |->
                          IF jobs[q][r].src = p /\ jobs[q][r].phase = "serving"
                          THEN [jobs[q][r] EXCEPT !.phase = "failed"] ELSE jobs[q][r]]]
    /\ UNCHANGED <<tracker, store, commands>>

Quit(p) == pc[p] = "idle" /\ "quit" \in Workload /\ Stop(p)
Crash(p) == Up(p) /\ "crash" \in Workload /\ Stop(p)

(* The tracker keeps nothing on disk, and no peer registers again. *)
TrackerStop == /\ trackerUp /\ "tracker-restart" \in Workload /\ stops < MaxStops
               /\ stops' = stops + 1
               /\ trackerUp' = FALSE
               /\ peers' = [p \in Peers |-> NoEndpoint]
               /\ files' = [f \in {TheFile} |-> NoInfo]
               /\ UNCHANGED <<thread, store, jobs, listening, commands>>

TrackerStart == /\ ~trackerUp
                /\ trackerUp' = TRUE
                /\ UNCHANGED <<peers, files, thread, store, jobs, world>>

(* Every user is gone or has typed the last command: the system may stay so. *)
Quiet == /\ \A p \in Peers : pc[p] \in {"down", "idle"}
         /\ UNCHANGED vars

UserStep(p) == \/ Start(p) \/ \E v \in Versions : Add(p, v)
               \/ AddInPlace(p) \/ DownloadFile(p) \/ DownloadPieces(p) \/ Have(p)

Next == \/ \E p \in Peers : \/ UserStep(p) \/ PeerStep(p) \/ JobStep(p)
                            \/ Listen(p) \/ Quit(p) \/ Crash(p)
        \/ TrackerStop \/ TrackerStart
        \/ Quiet

Spec == Init /\ [][Next]_vars

(* A thread that can run is run; users and faults are free. *)
FairSpec == /\ Spec
            /\ \A p \in Peers : WF_vars(PeerStep(p)) /\ WF_vars(JobStep(p))

-----------------------------------------------------------------------------
TrackerOK == trackerUp \in BOOLEAN /\ Tracker!TypeOK
ThreadsOK == /\ pc \in [Peers -> PC]
             /\ todo \in [Peers -> Content]
             /\ want \in [Peers -> Nat]
             /\ at \in [Peers -> Nat]
StoreOK == /\ disk \in [Peers -> [Dirs -> Content \cup {NoFile}]]
           /\ DOMAIN parts = Peers
           /\ \A p \in Peers : /\ DOMAIN parts[p] \subseteq Nat
                               /\ \A i \in DOMAIN parts[p] : parts[p][i] \in Content
JobsOK == /\ DOMAIN jobs = Peers
          /\ \A p \in Peers : /\ DOMAIN jobs[p] \subseteq Requests
                              /\ \A r \in DOMAIN jobs[p] : jobs[p][r] \in Job
WorldOK == /\ listening \in [Peers -> BOOLEAN]
           /\ commands \in 0 .. MaxCommands /\ stops \in 0 .. MaxStops

TypeOK == TrackerOK /\ ThreadsOK /\ StoreOK /\ JobsOK /\ WorldOK

(* Whatever stops, restarts or is lost, a peer that the tracker lists for a
   piece has something on disk to answer GET_PIECE with: every announcement
   comes after the file or the part exists, and none is ever deleted. *)
AdvertisedIsOnDisk ==
    \A o \in Tracker!Owners(TheFile) : CanServe(o[2], o[1])

(* Why it holds.  A command that is about to announce a file or a part has
   it on disk, a request is outstanding only where the code waits for it, and
   an upload thread that has looked at a path still finds it. *)
WritesExist(p) ==
    /\ pc[p] = "copying" => disk[p]["shared"] # NoFile
    /\ pc[p] \in {"saving", "assemble"} => disk[p]["downloads"] # NoFile
    /\ pc[p] = "claim" => HasLocal(p)
    /\ pc[p] = "have" => at[p] \in DOMAIN parts[p]
JobsAwaited(p) ==
    DOMAIN jobs[p] \subseteq
        CASE pc[p] = "fetching" -> {Whole}
          [] pc[p] \in {"collect", "writing part", "have", "drain"} -> Nat
          [] OTHER -> {}
FetchAwaited(p) == pc[p] = "fetching" => Whole \in DOMAIN jobs[p]
ReadsExist(p) ==
    \A r \in DOMAIN jobs[p] :
        LET j == jobs[p][r]
        IN  j.phase = "serving" => IF j.path = "part" THEN r \in DOMAIN parts[j.src]
                                                      ELSE disk[j.src][j.path] # NoFile
SwarmInv == /\ TypeOK
            /\ \A p \in Peers : /\ WritesExist(p) /\ ReadsExist(p)
                                /\ JobsAwaited(p) /\ FetchAwaited(p)
            /\ AdvertisedIsOnDisk

(* Every peer that the tracker lists for a piece answers with that piece of
   something a user shared: not with an empty, zero-filled or foreign chunk.
   It holds as long as one version is shared and nobody crashes, overwrites a
   shared file or uses download-file. *)
Genuine(c, i) == \E v \in Versions : c = PieceAt(Data(v), i)
OwnerServes ==
    \A o \in Tracker!Owners(TheFile) : Genuine(Served(o[2], o[1]), o[1])

(* A peer that the tracker records as the owner of a piece ("piece ownership",
   cpp_version/README.md:53) owns it whenever its command thread rests.  It
   does not hold once download-file has left a file without part files: a
   download-pieces of it then truncates the file and fails with "missing
   piece 0" (file_manager.cpp:164), and the tracker still lists the peer. *)
OwnerServesAtRest ==
    \A o \in Tracker!Owners(TheFile) :
        pc[o[2]] = "idle" => Genuine(Served(o[2], o[1]), o[1])

(* What ADD_FILE describes is a whole version that some user shared, never a
   file that is half copied, half assembled or put together from two. *)
AnnouncesWhole ==
    \A p \in Peers : FileWritten(p) => \E v \in Versions : LocalContent(p) = Data(v)

(* "assembled ..." (P2P_Project/cpp_version/peer.cpp:399) is printed of a copy of
   what users share, when that is whole itself.  It does not hold: a crash
   leaves an empty part, which counts as complete ever after. *)
SharesWhole == \A p \in Peers : disk[p]["shared"] \in {Data(v) : v \in Versions} \cup {NoFile}
AssembledIsWhole ==
    SharesWhole => \A p \in Peers : pc[p] = "assemble" /\ FileWritten(p) =>
                        disk[p]["downloads"] \in {Data(v) : v \in Versions}

(* A file that the tracker knows can be had in full: each of its pieces has an
   owner on whose disk it is, whoever came, left or came back, and whatever is
   being written. *)
PiecesAvailable ==
    Tracker!Known(TheFile) =>
        \A i \in 0 .. files[TheFile].piece_count - 1 :
            \E p \in Peers : /\ <<i, p>> \in Tracker!Owners(TheFile)
                             /\ Genuine(Served(p, i), i)

(* Why OwnerServes, AnnouncesWhole and PiecesAvailable hold.  One version is
   shared, nobody overwrites a shared file or uses download-file, and no process
   dies in the middle of a command; connections may break. *)
Orderly == /\ \E v \in Versions : Versions = {v}
           /\ Workload \cap {"replace", "crash", "download-file"} = {}

Original == Data(CHOOSE v \in Versions : TRUE)
Count == PieceCount(Original)
Piece(i) == PieceAt(Original, i)

(* What p answers to GET_PIECE i is, and stays, the piece: a part is not
   written again, and a file under shared/ is finished. *)
Serves(p, i) == IF i \in DOMAIN parts[p] THEN parts[p][i] = Piece(i)
                                         ELSE disk[p]["shared"] = Original

(* While a file is copied to shared/, what is there and what is to come is the
   original; downloads/, where it is the local file, has been assembled in
   order from parts that are all still there. *)
SharedAt(p) ==
    LET c == disk[p]["shared"]
    IN  c # NoFile => IF pc[p] = "copying" THEN c \o todo[p] = Original ELSE c = Original
Assembled(p) ==
    LET c == disk[p]["downloads"]
        n == IF pc[p] = "assemble" /\ at[p] < Len(Original) THEN at[p] ELSE Len(Original)
    IN  Len(c) = n /\ \A k \in 1 .. n : c[k] = Original[k]
DownloadsAt(p) ==
    disk[p]["downloads"] # NoFile /\ disk[p]["shared"] = NoFile =>
        Assembled(p) /\ 0 .. Count - 1 \subseteq DOMAIN parts[p]

(* Only the part under way is not the piece yet; someone else has it. *)
Writing(p, i) == pc[p] = "writing part" /\ at[p] = i
PartsAt(p) ==
    /\ \A i \in DOMAIN parts[p] : i < Count /\ (Writing(p, i) \/ parts[p][i] = Piece(i))
    /\ pc[p] = "writing part" => /\ at[p] \in DOMAIN parts[p]
                                 /\ todo[p] = Piece(at[p])
                                 /\ \E q \in Peers : Serves(q, at[p])
LoopAt(p) ==
    /\ pc[p] \notin {"query file", "fetching", "saving"}
    /\ pc[p] \in {"collect", "writing part", "have", "assemble", "claim"} => want[p] = Count
    /\ pc[p] = "assemble" => at[p] <= Count
    /\ pc[p] = "claim" => at[p] < Count

(* Pieces are asked for by a peer that has neither them nor a file, of a peer
   that serves them, and what arrives is the piece. *)
JobsAt(p) ==
    \A i \in DOMAIN jobs[p] :
        LET j == jobs[p][i]
        IN  /\ i < Count /\ i \notin DOMAIN parts[p] /\ ~HasLocal(p)
            /\ Serves(j.src, i)
            /\ j.phase = "serving" => IF j.path = "part" THEN j.size = Len(Piece(i))
                                      ELSE j.path = "shared" /\ disk[j.src]["shared"] = Original
            /\ j.phase = "done" => j.data = Piece(i)

(* What the tracker knows is the original's count and peers that serve it. *)
ListedServe ==
    /\ Tracker!Known(TheFile) => files[TheFile].piece_count = Count
    /\ \A o \in Tracker!Owners(TheFile) : o[1] < Count /\ Serves(o[2], o[1])

(* The inductive invariant of orderly workloads: what a peer is listed for, or is
   asked for, is a piece of the original that it has and keeps, at every moment
   of a copy, a download or an assembly. *)
OrderlyInv == /\ \A p \in Peers : /\ SharedAt(p) /\ DownloadsAt(p) /\ PartsAt(p)
                                  /\ LoopAt(p) /\ JobsAt(p)
              /\ ListedServe

(* The peers hold a piece only if it came, over any number of downloads, from
   a seed, and the tracker lists only holders. *)
VersionPieces == UNION {0 .. Pieces[v] - 1 : v \in Versions}
Directory == INSTANCE PieceDirectory
    WITH PieceIds <- VersionPieces,
         held <- {o \in VersionPieces \X Peers : /\ Served(o[2], o[1]) # <<>>
                                                /\ Genuine(Served(o[2], o[1]), o[1])},
         listed <- Tracker!Owners(TheFile)
ImplementsDirectory == Directory!Spec

(* No command blocks its peer for ever: whatever the tracker and the sources
   do, the prompt comes back or the process ends. *)
CommandReturns == \A p \in Peers : (pc[p] \notin {"idle", "down"}) ~> (pc[p] \in {"idle", "down"})

(* A download-pieces of a file that the tracker knows ends with the file
   here, as it was shared, unless something stops meanwhile or another peer is
   listed whose upload server does not listen. *)
Deaf(p) == \E o \in Tracker!Owners(TheFile) : o[2] # p /\ ~listening[o[2]]
DownloadCompletes ==
    \A p \in Peers :
        (pc[p] = "query pieces" /\ trackerUp /\ Tracker!Known(TheFile))
            ~> \/ stops > 0 \/ Deaf(p)
               \/ /\ pc[p] = "idle"
                  /\ \E v \in Versions : LocalContent(p) = Data(v)
=============================================================================
