--------------------------- MODULE WholeFileSwarm ---------------------------
(***************************************************************************)
(* The tracker and the peers of P2P_Project/python_version, sharing one    *)
(* file that is downloaded whole.                                          *)
(*                                                                         *)
(* The tracker has a thread per request and a lock around each operation   *)
(* of its state.  A peer process has a main thread, which runs the user's  *)
(* commands one at a time and waits for the tracker and for other peers    *)
(* with timeouts, and an upload thread per request that is served.         *)
(* Copies are copies of one file, and are written from the start: a copy   *)
(* is its length.  The commands query, files and help change nothing and   *)
(* are left out.  Names hold no space: the tracker does not quote its      *)
(* reply to QUERY, and the peer reads it as if it did.                     *)
(***************************************************************************)
EXTENDS Integers, FiniteSets

CONSTANTS Peers, Seeds,    \* the peers, and those whose users can add the file
          Size,            \* its length, in the pieces that a write is done in
          NoFile, NoPeer,
          MaxCommands,     \* bound: commands typed by all users
          MaxFaults        \* bound: stops of peers and tracker, failed writes

ASSUME WholeFileAssumption == /\ Peers \subseteq Nat /\ Seeds \subseteq Peers
                              /\ Size \in Nat /\ NoFile \notin Nat
                              /\ NoPeer \notin Peers
                              /\ MaxCommands \in Nat /\ MaxFaults \in Nat

VARIABLES trackerUp,
          peers, owners,      \* the tracker's tables: registered, owners of the file
          late,               \* requests whose sender no longer waits, not yet handled
          pc,                 \* the main thread of each peer
          call, answer,       \* its request to the tracker, and what it brought
          shared, downloads,  \* its copies in the two directories
          data,               \* the length of what it has downloaded
          source,             \* the peer that it downloads from
          upload, reads, sent,    \* the thread that serves it, at the source
          spoiled,            \* history: a copy was overwritten, or a partial one left
          restarted,          \* history: the tracker has lost its tables
          commands, faults    \* bounded counts

tracker == <<trackerUp, peers, owners, late, restarted>>
calls == <<call, answer>>
disk == <<shared, downloads, spoiled>>
transfer == <<data, source, upload, reads, sent>>
bounds == <<commands, faults>>
vars == <<tracker, pc, calls, disk, transfer, bounds>>

Copy == 0 .. Size
Least(S) == CHOOSE x \in S : \A y \in S : x <= y
Nothing == [owners |-> {}, peers |-> {}]

(* local_file: the shared directory comes first. *)
HasLocal(p) == shared[p] # NoFile \/ downloads[p] # NoFile
Dir(p) == IF shared[p] # NoFile THEN "shared" ELSE "downloads"
Length(p, d) == IF d = "shared" THEN shared[p] ELSE downloads[p]
Local(p) == Length(p, Dir(p))

Init == /\ trackerUp = TRUE
        /\ peers = {} /\ owners = {} /\ late = {}
        /\ pc = [p \in Peers |-> "down"]
        /\ call = [p \in Peers |-> "none"] /\ answer = [p \in Peers |-> Nothing]
        /\ shared = [p \in Peers |-> NoFile] /\ downloads = shared
        /\ data = [p \in Peers |-> 0] /\ sent = data
        /\ source = [p \in Peers |-> NoPeer]
        /\ upload = [p \in Peers |-> "none"] /\ reads = [p \in Peers |-> "shared"]
        /\ spoiled = FALSE /\ restarted = FALSE
        /\ commands = 0 /\ faults = 0

Goto(p, l) == pc' = [pc EXCEPT ![p] = l]

-----------------------------------------------------------------------------
(* Tracker *)

(* register_peer, add_file and have_file, which refuses an unknown file; a file
   is known as soon as it has an owner. *)
Apply(p, command) ==
    /\ peers' = IF command = "register" THEN peers \cup {p} ELSE peers
    /\ owners' = IF command = "add" \/ (command = "have" /\ owners # {})
                 THEN owners \cup {p} ELSE owners

(* REGISTER, ADD_FILE, HAVE *)
Handle(p) == /\ trackerUp /\ call[p] = "sent" /\ pc[p] \in {"register", "add", "have"}
             /\ Apply(p, pc[p])
             /\ call' = [call EXCEPT ![p] = "done"]
             /\ UNCHANGED <<trackerUp, late, restarted, pc, answer, disk, transfer, bounds>>

(* The tracker does not see that the sender of a request no longer waits. *)
HandleLate(p, command) ==
    /\ trackerUp /\ <<p, command>> \in late
    /\ Apply(p, command)
    /\ late' = late \ {<<p, command>>}
    /\ UNCHANGED <<trackerUp, restarted, pc, calls, disk, transfer, bounds>>

(* QUERY: the owners that are registered. *)
HandleQuery(p) ==
    /\ trackerUp /\ call[p] = "sent" /\ pc[p] = "query"
    /\ answer' = [answer EXCEPT ![p] = [owners |-> owners, peers |-> owners \cap peers]]
    /\ call' = [call EXCEPT ![p] = "done"]
    /\ UNCHANGED <<tracker, pc, disk, transfer, bounds>>

(* LIST takes the lock twice: for the files, and then for the peers. *)
ListFiles(p) ==
    /\ trackerUp /\ call[p] = "sent" /\ pc[p] = "list"
    /\ answer' = [answer EXCEPT ![p].owners = owners]
    /\ call' = [call EXCEPT ![p] = "listing"]
    /\ UNCHANGED <<tracker, pc, disk, transfer, bounds>>

ListPeers(p) ==
    /\ trackerUp /\ call[p] = "listing"
    /\ answer' = [answer EXCEPT ![p].peers = peers]
    /\ call' = [call EXCEPT ![p] = "done"]
    /\ UNCHANGED <<tracker, pc, disk, transfer, bounds>>

TrackerStep(p) == \/ Handle(p) \/ HandleQuery(p) \/ ListFiles(p) \/ ListPeers(p)
                  \/ HandleLate(p, "register") \/ HandleLate(p, "add") \/ HandleLate(p, "have")

TrackerStop == /\ trackerUp /\ faults < MaxFaults
               /\ faults' = faults + 1
               /\ trackerUp' = FALSE
               /\ peers' = {} /\ owners' = {} /\ late' = {}
               /\ restarted' = TRUE
               /\ call' = [p \in Peers |-> IF call[p] \in {"sent", "listing"} THEN "cut" ELSE call[p]]
               /\ UNCHANGED <<pc, answer, disk, transfer, commands>>

TrackerStart == /\ ~trackerUp
                /\ trackerUp' = TRUE
                /\ UNCHANGED <<peers, owners, late, restarted, pc, calls, disk, transfer, bounds>>

-----------------------------------------------------------------------------
(* The main thread and the tracker *)

(* request_lines connects; a refused connection is an error that is printed. *)
Ask(p, command) ==
    IF trackerUp THEN Goto(p, command) /\ call' = [call EXCEPT ![p] = "sent"]
                 ELSE Goto(p, "prompt") /\ UNCHANGED call

Abandon(p) == /\ call' = [call EXCEPT ![p] = "none"]
              /\ answer' = [answer EXCEPT ![p] = Nothing]
              /\ late' = IF call[p] = "sent" /\ pc[p] \in {"register", "add", "have"}
                         THEN late \cup {<<p, pc[p]>>} ELSE late

(* The upload server runs before the peer is registered. *)
Start(p) == /\ pc[p] = "down" /\ trackerUp
            /\ Ask(p, "register")
            /\ UNCHANGED <<tracker, answer, disk, transfer, bounds>>

(* Mutant: there is no timeout. *)
CallFails_cut_only(p) == /\ call[p] = "cut"
                         /\ Abandon(p)
                         /\ Goto(p, IF pc[p] = "register" THEN "failing" ELSE "prompt")
                         /\ UNCHANGED <<trackerUp, peers, owners, restarted, disk, transfer, bounds>>

(* Mutant: a peer that could not register goes on. *)
CallFails_goes_on(p) == /\ call[p] # "none"
                        /\ Abandon(p) /\ Goto(p, "prompt")
                        /\ UNCHANGED <<trackerUp, peers, owners, restarted, disk, transfer, bounds>>

(* The answer does not come in ten seconds, or breaks off.  At the prompt the
   exception is printed, and at the start it ends the process. *)
CallFails(p) == /\ call[p] # "none"
                /\ Abandon(p)
                /\ Goto(p, IF pc[p] = "register" THEN "failing" ELSE "prompt")
                /\ UNCHANGED <<trackerUp, peers, owners, restarted, disk, transfer, bounds>>

(* choose_source: the first of the others, or itself. *)
Source(p) == LET others == answer[p].peers \ {p}
             IN  IF others # {} THEN Least(others) ELSE p

Return(p) == /\ call[p] = "done"
             /\ call' = [call EXCEPT ![p] = "none"]
             /\ answer' = [answer EXCEPT ![p] = Nothing]
             /\ IF answer[p].peers # {} /\ pc[p] = "query"
                THEN Goto(p, "connect") /\ source' = [source EXCEPT ![p] = Source(p)]
                ELSE Goto(p, "prompt") /\ UNCHANGED source
             /\ UNCHANGED <<tracker, disk, data, upload, reads, sent, bounds>>

-----------------------------------------------------------------------------
(* The user's commands *)

Typed(p) == /\ pc[p] = "prompt" /\ commands < MaxCommands
            /\ commands' = commands + 1
            /\ UNCHANGED <<tracker, answer, transfer, faults>>

(* import_file copies the file into the shared directory, truncating what is
   there, unless it is there already. *)
Add(p) == /\ p \in Seeds /\ Typed(p)     \* (others have only copies of it to add)
          /\ \/ /\ Goto(p, "import") /\ UNCHANGED <<call, downloads>>
                /\ shared' = [shared EXCEPT ![p] = 0]
                /\ spoiled' = (spoiled \/ HasLocal(p))
             \/ /\ shared[p] # NoFile
                /\ Ask(p, "add") /\ UNCHANGED disk

(* Mutant: the peer does not look whether it has the file. *)
Have_unchecked(p) == Typed(p) /\ Ask(p, "have") /\ UNCHANGED disk

Have(p) == Typed(p) /\ HasLocal(p) /\ Ask(p, "have") /\ UNCHANGED disk
List(p) == Typed(p) /\ Ask(p, "list") /\ UNCHANGED disk
Download(p) == Typed(p) /\ upload[p] = "none" /\ Ask(p, "query") /\ UNCHANGED disk
Quit(p) == Typed(p) /\ Goto(p, "closing") /\ UNCHANGED <<call, disk>>

-----------------------------------------------------------------------------
(* Files *)

Import(p) == /\ pc[p] = "import"
             /\ \/ /\ shared[p] < Size
                   /\ shared' = [shared EXCEPT ![p] = @ + 1]
                   /\ UNCHANGED <<pc, call>>
                \/ /\ shared[p] = Size
                   /\ Ask(p, "add") /\ UNCHANGED shared
             /\ UNCHANGED <<tracker, answer, downloads, spoiled, transfer, bounds>>

(* Mutant: the file is announced as soon as it is received. *)
Write_announces_first(p) ==
    /\ pc[p] = "write"
    /\ Ask(p, "have")
    /\ data' = [data EXCEPT ![p] = 0]
    /\ UNCHANGED <<tracker, answer, disk, source, upload, reads, sent, bounds>>

(* Mutant: one piece too many is written. *)
Write_one_more(p) ==
    /\ pc[p] = "write"
    /\ \/ /\ downloads[p] <= data[p]
          /\ downloads' = [downloads EXCEPT ![p] = @ + 1]
          /\ UNCHANGED <<pc, call, data>>
       \/ /\ downloads[p] > data[p]
          /\ Ask(p, "have") /\ UNCHANGED downloads
          /\ data' = [data EXCEPT ![p] = 0]
    /\ UNCHANGED <<tracker, answer, shared, spoiled, source, upload, reads, sent, bounds>>

(* write_bytes, and the announcement after it *)
Write(p) == /\ pc[p] = "write"
            /\ \/ /\ downloads[p] < data[p]
                  /\ downloads' = [downloads EXCEPT ![p] = @ + 1]
                  /\ UNCHANGED <<pc, call, data>>
               \/ /\ downloads[p] = data[p]
                  /\ Ask(p, "have") /\ UNCHANGED downloads
                  /\ data' = [data EXCEPT ![p] = 0]
            /\ UNCHANGED <<tracker, answer, shared, spoiled, source, upload, reads, sent, bounds>>

WriteFails(p) == /\ pc[p] \in {"import", "write"} /\ faults < MaxFaults
                 /\ faults' = faults + 1
                 /\ spoiled' = TRUE
                 /\ Goto(p, "prompt")
                 /\ data' = [data EXCEPT ![p] = 0]
                 /\ UNCHANGED <<tracker, calls, shared, downloads, source, upload, reads, sent, commands>>

-----------------------------------------------------------------------------
(* download_file, and the upload thread that serves it *)

Serving(p) == pc[p] \notin {"down", "closing"}
NoUpload(p) == /\ upload' = [upload EXCEPT ![p] = "none"]
               /\ source' = [source EXCEPT ![p] = NoPeer]
               /\ reads' = [reads EXCEPT ![p] = "shared"]
               /\ sent' = [sent EXCEPT ![p] = 0]

Connect(p) == /\ pc[p] = "connect"
              /\ IF Serving(source[p])
                 THEN /\ upload' = [upload EXCEPT ![p] = "asked"]
                      /\ Goto(p, "download") /\ UNCHANGED source
                 ELSE /\ source' = [source EXCEPT ![p] = NoPeer]
                      /\ Goto(p, "prompt") /\ UNCHANGED upload
              /\ UNCHANGED <<tracker, calls, disk, data, reads, sent, bounds>>

(* read_file opens the copy that is there ... *)
Open(p) == /\ upload[p] = "asked"
           /\ upload' = [upload EXCEPT ![p] = IF HasLocal(source[p]) THEN "reading" ELSE "error"]
           /\ reads' = [reads EXCEPT ![p] = Dir(source[p])]
           /\ UNCHANGED <<tracker, pc, calls, disk, data, source, sent, bounds>>

(* ... reads what there is of it ... *)
Read(p) == /\ upload[p] = "reading" /\ sent[p] < Length(source[p], reads[p])
           /\ sent' = [sent EXCEPT ![p] = Length(source[p], reads[p])]
           /\ UNCHANGED <<tracker, pc, calls, disk, data, source, upload, reads, bounds>>

(* ... until nothing more comes, and sends the length and the data. *)
ReadEnd(p) == /\ upload[p] = "reading" /\ sent[p] >= Length(source[p], reads[p])
              /\ upload' = [upload EXCEPT ![p] = "sending"]
              /\ UNCHANGED <<tracker, pc, calls, disk, data, source, reads, sent, bounds>>

(* Mutant: the thread waits until all is taken. *)
UploadEnds_waits(p) == /\ upload[p] = "error" /\ pc[p] # "download"
                       /\ NoUpload(p)
                       /\ UNCHANGED <<tracker, pc, calls, disk, data, bounds>>

(* The downloader has gone: what is sent is lost, or sending fails. *)
UploadEnds(p) == /\ upload[p] # "none" /\ pc[p] # "download"
                 /\ NoUpload(p)
                 /\ UNCHANGED <<tracker, pc, calls, disk, data, bounds>>

UploadStep(p) == Open(p) \/ Read(p) \/ ReadEnd(p) \/ UploadEnds(p)

(* All of it is there: the target is opened, and emptied. *)
Receive(p) == /\ pc[p] = "download" /\ upload[p] = "sending"
              /\ data' = [data EXCEPT ![p] = sent[p]]
              /\ downloads' = [downloads EXCEPT ![p] = 0]
              /\ spoiled' = (spoiled \/ downloads[p] # NoFile)
              /\ NoUpload(p)
              /\ Goto(p, "write")
              /\ UNCHANGED <<tracker, calls, shared, bounds>>

(* An error is answered, the connection breaks, or twenty seconds pass with
   nothing received: the upload thread goes on by itself. *)
DownloadFails(p) == /\ pc[p] = "download"
                    /\ Goto(p, "prompt")
                    /\ IF upload[p] \in {"error", "cut"}
                       THEN NoUpload(p)
                       ELSE UNCHANGED <<source, upload, reads, sent>>
                    /\ UNCHANGED <<tracker, calls, disk, data, bounds>>

-----------------------------------------------------------------------------
(* The process ends when its upload threads have: server_close joins them, and
   so does the interpreter. *)
End(p) == /\ pc[p] \in {"closing", "failing"}
          /\ \A q \in Peers : source[q] = p => upload[q] = "none"
          /\ Goto(p, "down")
          /\ UNCHANGED <<tracker, calls, disk, transfer, bounds>>

(* A process is killed, with its threads. *)
Stop(p) == /\ pc[p] # "down" /\ faults < MaxFaults
           /\ faults' = faults + 1
           /\ Goto(p, "down")
           /\ Abandon(p)
           /\ data' = [data EXCEPT ![p] = 0]
           /\ upload' = [q \in Peers |-> IF source[q] = p /\ upload[q] # "none" THEN "cut"
                                         ELSE upload[q]]
           /\ source' = IF pc[p] = "connect" THEN [source EXCEPT ![p] = NoPeer] ELSE source
           /\ spoiled' = (spoiled \/ pc[p] \in {"import", "write"})
           /\ UNCHANGED <<trackerUp, peers, owners, restarted, shared, downloads, reads, sent, commands>>

PeerStep(p) == \/ CallFails(p) \/ Return(p) \/ Import(p) \/ Write(p) \/ Connect(p)
               \/ Receive(p) \/ DownloadFails(p) \/ End(p)

Quiet == (\A p \in Peers : pc[p] \in {"down", "prompt"}) /\ UNCHANGED vars

Next == \/ \E p \in Peers : \/ Start(p) \/ Add(p) \/ Have(p) \/ List(p) \/ Download(p) \/ Quit(p)
                            \/ TrackerStep(p) \/ PeerStep(p) \/ UploadStep(p)
                            \/ WriteFails(p) \/ Stop(p)
        \/ TrackerStop \/ TrackerStart \/ Quiet

Spec == Init /\ [][Next]_vars

(* The threads of the peers run; the tracker may be as slow as it likes. *)
FairSpec == /\ Spec
            /\ \A p \in Peers : WF_vars(PeerStep(p)) /\ WF_vars(UploadStep(p))

-----------------------------------------------------------------------------
Requests == {"register", "add", "have", "query", "list"}
Announcements == {"register", "add", "have"}
Stages == Requests \cup {"down", "prompt", "import", "connect", "download", "write", "closing",
                         "failing"}
Calls == {"none", "sent", "listing", "done", "cut"}
Uploads == {"none", "asked", "reading", "sending", "error", "cut"}

TypeOK ==
    /\ trackerUp \in BOOLEAN /\ restarted \in BOOLEAN /\ spoiled \in BOOLEAN
    /\ peers \subseteq Peers /\ owners \subseteq Peers
    /\ late \subseteq Peers \X Announcements
    /\ pc \in [Peers -> Stages]
    /\ call \in [Peers -> Calls]
    /\ answer \in [Peers -> [owners : SUBSET Peers, peers : SUBSET Peers]]
    /\ shared \in [Peers -> Copy \cup {NoFile}] /\ downloads \in [Peers -> Copy \cup {NoFile}]
    /\ data \in [Peers -> Copy] /\ sent \in [Peers -> Copy]
    /\ source \in [Peers -> Peers \cup {NoPeer}]
    /\ upload \in [Peers -> Uploads]
    /\ reads \in [Peers -> {"shared", "downloads"}]
    /\ commands \in 0 .. MaxCommands /\ faults \in 0 .. MaxFaults

(* Whoever the tracker names as an owner, or will when it gets to a request,
   has a copy, so that GET_FILE is not answered "ERROR": also if the peer has
   given up the request, died, or come back since. *)
Announcing(p) == \/ pc[p] \in {"add", "have"}
                 \/ <<p, "add">> \in late \/ <<p, "have">> \in late
ListedHasFile == \A p \in Peers :
    p \in owners \/ Announcing(p) \/ (\E q \in Peers : source[q] = p) => HasLocal(p)

(* The copy of an owner is the whole file, and so is all that is sent: unless
   a copy was overwritten, or a write broken off, somewhere. *)
WholeUnlessSpoiled == ~spoiled =>
    \A p \in Peers : /\ p \in owners \/ Announcing(p) => Local(p) = Size
                     /\ upload[p] = "sending" => sent[p] = Size
                     /\ pc[p] = "write" => data[p] = Size

(* The answer to QUERY names every owner, and the peers that LIST counts are
   at least the owners of the files that it lists, although it reads them at
   two moments: unless the tracker was restarted, and has forgotten peers that
   announce their files again but not themselves. *)
AnswersComplete == ~restarted =>
    \A p \in Peers : call[p] = "done" => answer[p].owners \subseteq answer[p].peers

(* A command brings the prompt back, or the process ends, whatever the tracker
   and the other peers do or do not. *)
CommandReturns == \A p \in Peers : pc[p] \notin {"down", "prompt"} ~> pc[p] \in {"down", "prompt"}

(* quit ends the process: no upload thread keeps it for ever. *)
QuitEnds == \A p \in Peers : pc[p] = "closing" ~> pc[p] = "down"

(* Copies spread from peers that have one, starting with an added file, and the
   tracker's owners are among those that have one. *)
Directory == INSTANCE PieceDirectory
             WITH PieceIds <- {0},
                  held <- {0} \X {p \in Peers : HasLocal(p)},
                  listed <- {0} \X owners
ImplementsDirectory == Directory!Spec
=============================================================================
