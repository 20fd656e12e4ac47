---------------------------- MODULE SimpleTorrent ----------------------------
(***************************************************************************)
(* The tracker and the peers of Simple_BitTorroent, sharing one file.      *)
(*                                                                         *)
(* All copies are copies of one file, and a file is written from its start *)
(* and read in order, so that what a peer holds is a first part of it: its *)
(* length says what it is.  A peer process has one command thread, one     *)
(* accepting thread and one thread per upload; an upload thread reads the  *)
(* file while the command thread of its own process may be writing it.     *)
(***************************************************************************)
EXTENDS Integers, Sequences, SequencesExt

CONSTANTS Peers, Seeds,    \* the peers, and those that start with the file
          Size,            \* its length, in the units that a recv returns
          NoFile, NoPeer,
          MaxCommands,     \* bound: names typed by the users
          MaxStops         \* bound: stops of peers and of the tracker

ASSUME TorrentAssumption == /\ Seeds \subseteq Peers
                            /\ Size \in Nat /\ NoFile \notin Nat
                            /\ NoPeer \notin Peers
                            /\ MaxCommands \in Nat /\ MaxStops \in Nat

VARIABLES trackerUp,
          file_data,       \* the tracker's list for the file, in order of arrival
          pc,              \* the command thread of each peer
          listening,       \* its accepting thread has bound the port
          share,           \* the length of its copy
          source, filesize, received,   \* the download under way
          upload, sent,    \* the upload thread that serves it, at the source
          spoiled,         \* history: a listed copy was overwritten, or a partial one kept
          commands, stops  \* bounded counts

tracker == <<trackerUp, file_data>>
download == <<source, filesize, received, upload, sent>>
bounds == <<commands, stops>>
vars == <<tracker, pc, listening, share, download, spoiled, bounds>>

Copy == 0 .. Size
Has(p) == share[p] # NoFile
Listed == {file_data[k] : k \in 1 .. Len(file_data)}

Init == /\ trackerUp = TRUE
        /\ file_data = <<>>
        /\ pc = [p \in Peers |-> "down"]
        /\ listening = [p \in Peers |-> FALSE]
        /\ share = [p \in Peers |-> IF p \in Seeds THEN Size ELSE NoFile]
        /\ source = [p \in Peers |-> NoPeer]
        /\ filesize = [p \in Peers |-> 0]
        /\ received = [p \in Peers |-> 0]
        /\ upload = [p \in Peers |-> "none"]
        /\ sent = [p \in Peers |-> 0]
        /\ spoiled = FALSE
        /\ commands = 0 /\ stops = 0

-----------------------------------------------------------------------------
(* Mutant: the peer joins the list each time. *)
Join_again(p) == file_data' = Append(file_data, p)

(* register and update: the peer joins the list, once.  The names of a request
   are split at spaces; the file has a name without one. *)
Join(p) == file_data' = IF p \in Listed THEN file_data ELSE Append(file_data, p)

Goto(p, l) == pc' = [pc EXCEPT ![p] = l]

(* The socket of a download is closed: its upload thread ends too. *)
Hangup(p) == /\ source' = [source EXCEPT ![p] = NoPeer]
             /\ filesize' = [filesize EXCEPT ![p] = 0]
             /\ received' = [received EXCEPT ![p] = 0]
             /\ upload' = [upload EXCEPT ![p] = "none"]
             /\ sent' = [sent EXCEPT ![p] = 0]

(* The process p ends with its threads: downloads from it see their stream end,
   and its file stays as it is, half-written or not. *)
Die(p) ==
    /\ Goto(p, "down")
    /\ listening' = [listening EXCEPT ![p] = FALSE]
    /\ source' = [source EXCEPT ![p] = NoPeer]
    /\ filesize' = [filesize EXCEPT ![p] = 0]
    /\ received' = [received EXCEPT ![p] = 0]
    /\ upload' = [q \in Peers |-> IF q = p THEN "none"
                                  ELSE IF source[q] # p THEN upload[q]
                                  ELSE CASE upload[q] = "asked" -> "cut"
                                         [] upload[q] = "open" -> "closed"
                                         [] OTHER -> upload[q]]
    /\ sent' = [sent EXCEPT ![p] = 0]
    /\ spoiled' = (spoiled \/ pc[p] = "receiving")

-----------------------------------------------------------------------------
(* Command thread *)

(* A peer registers the file, if it has one, before it can serve it; without
   a tracker the connection is refused and the process ends. *)
Start(p) == /\ pc[p] = "down"
            /\ IF Has(p) THEN trackerUp /\ Join(p) ELSE UNCHANGED file_data
            /\ Goto(p, "idle")
            /\ UNCHANGED <<trackerUp, listening, share, download, spoiled, bounds>>

Listen(p) == /\ pc[p] # "down" /\ ~listening[p]
             /\ listening' = [listening EXCEPT ![p] = TRUE]
             /\ UNCHANGED <<tracker, pc, share, download, spoiled, bounds>>

(* The name is typed, or a line that is no single word (empty, or a name with a
   space): the query connects to the tracker, or ends the process. *)
Type(p) == /\ pc[p] = "idle"
           /\ commands < MaxCommands
           /\ commands' = commands + 1
           /\ IF trackerUp
              THEN /\ \E l \in {"query", "malformed"} : Goto(p, l)
                   /\ UNCHANGED <<listening, download, spoiled>>
              ELSE Die(p)
           /\ UNCHANGED <<tracker, share, stops>>

(* The first of the list is the source, whoever it is. *)
Answer(p) == /\ pc[p] = "query"
             /\ IF file_data = <<>>
                THEN Goto(p, "idle") /\ UNCHANGED source
                ELSE /\ Goto(p, "connect")
                     /\ source' = [source EXCEPT ![p] = Head(file_data)]
             /\ UNCHANGED <<tracker, listening, share, filesize, received, upload, sent,
                            spoiled, bounds>>

(* ERROR bad QUERY format, and the connection is closed: the peer knows only
   NOT_FOUND and END, and reads empty lines for ever. *)
Refused(p) == /\ pc[p] = "malformed"
              /\ Goto(p, "spinning")
              /\ UNCHANGED <<tracker, listening, share, download, spoiled, bounds>>

(* Nobody catches a refused connection: the peer that asked ends. *)
Connect(p) == /\ pc[p] = "connect"
              /\ IF listening[source[p]]
                 THEN /\ Goto(p, "header")
                      /\ upload' = [upload EXCEPT ![p] = "asked"]
                      /\ UNCHANGED <<listening, source, filesize, received, sent, spoiled>>
                 ELSE Die(p)
              /\ UNCHANGED <<tracker, share, bounds>>

(* Mutant: a download without a header counts as a success. *)
NoHeader_succeeds(p) == /\ pc[p] = "header" /\ upload[p] = "cut"
                        /\ Hangup(p)
                        /\ Goto(p, "update")
                        /\ UNCHANGED <<tracker, listening, share, spoiled, bounds>>

(* Without a header the download has failed and the copy is untouched. *)
NoHeader(p) == /\ pc[p] = "header" /\ upload[p] = "cut"
               /\ Hangup(p)
               /\ Goto(p, "idle")
               /\ UNCHANGED <<tracker, listening, share, spoiled, bounds>>

(* With it, the target is truncated, even if it is the file being served. *)
Header(p) == /\ pc[p] = "header" /\ upload[p] \in {"open", "closed"}
             /\ Goto(p, "receiving")
             /\ share' = [share EXCEPT ![p] = 0]
             /\ spoiled' = (spoiled \/ Has(p))
             /\ UNCHANGED <<tracker, listening, download, bounds>>

(* Mutant: data is counted, and the data before it written. *)
Receive_writes_late(p) == /\ pc[p] = "receiving" /\ received[p] < filesize[p]
                          /\ \E n \in 1 .. sent[p] - received[p] :
                                /\ received' = [received EXCEPT ![p] = @ + n]
                                /\ share' = [share EXCEPT ![p] = received[p]]
                          /\ UNCHANGED <<tracker, pc, listening, source, filesize, upload,
                                         sent, spoiled, bounds>>

(* A recv returns any part of what has arrived, also past the length. *)
Receive(p) == /\ pc[p] = "receiving" /\ received[p] < filesize[p]
              /\ \E n \in 1 .. sent[p] - received[p] :
                    /\ received' = [received EXCEPT ![p] = @ + n]
                    /\ share' = [share EXCEPT ![p] = received[p] + n]
              /\ UNCHANGED <<tracker, pc, listening, source, filesize, upload, sent,
                             spoiled, bounds>>

(* Mutant: the loop does not end with the stream. *)
Received_all_only(p) == /\ pc[p] = "receiving"
                        /\ received[p] >= filesize[p]
                        /\ Goto(p, IF received[p] = filesize[p] THEN "update" ELSE "idle")
                        /\ Hangup(p)
                        /\ spoiled' = (spoiled \/ received[p] # filesize[p])
                        /\ UNCHANGED <<tracker, listening, share, bounds>>

(* The loop ends at the length, past it, or with the stream. *)
Received(p) == /\ pc[p] = "receiving"
               /\ \/ received[p] >= filesize[p]
                  \/ upload[p] = "closed" /\ received[p] = sent[p]
               /\ Goto(p, IF received[p] = filesize[p] THEN "update" ELSE "idle")
               /\ Hangup(p)
               /\ spoiled' = (spoiled \/ received[p] # filesize[p])
               /\ UNCHANGED <<tracker, listening, share, bounds>>

Update(p) == /\ pc[p] = "update"
             /\ IF trackerUp
                THEN /\ Join(p)
                     /\ Goto(p, "idle")
                     /\ UNCHANGED <<listening, download, spoiled>>
                ELSE Die(p) /\ UNCHANGED file_data
             /\ UNCHANGED <<trackerUp, share, bounds>>

CommandStep(p) == \/ Answer(p) \/ Refused(p) \/ Connect(p) \/ NoHeader(p) \/ Header(p)
                  \/ Receive(p) \/ Received(p) \/ Update(p)

-----------------------------------------------------------------------------
(* sendfile, for the download of peer p: the length is taken first, and the
   file is opened and read to its end afterwards. *)
SendHeader(p) == /\ upload[p] = "asked"
                 /\ upload' = [upload EXCEPT ![p] = "open"]
                 /\ filesize' = [filesize EXCEPT ![p] = share[source[p]]]
                 /\ UNCHANGED <<tracker, pc, listening, share, source, received, sent,
                                spoiled, bounds>>

SendData(p) == /\ upload[p] = "open" /\ sent[p] < share[source[p]]
               /\ sent' = [sent EXCEPT ![p] = @ + 1]
               /\ UNCHANGED <<tracker, pc, listening, share, source, filesize, received,
                              upload, spoiled, bounds>>

EndOfFile(p) == /\ upload[p] = "open" /\ sent[p] >= share[source[p]]
                /\ upload' = [upload EXCEPT ![p] = "closed"]
                /\ UNCHANGED <<tracker, pc, listening, share, source, filesize, received,
                               sent, spoiled, bounds>>

UploadStep(p) == SendHeader(p) \/ SendData(p) \/ EndOfFile(p)

-----------------------------------------------------------------------------
(* quit at the prompt, or a stop at any point. *)
Stop(p) == /\ pc[p] # "down"
           /\ stops < MaxStops
           /\ stops' = stops + 1
           /\ Die(p)
           /\ UNCHANGED <<tracker, share, commands>>

(* A reply that ends without END or NOT_FOUND is read for ever: recv_all
   returns an empty line each time.  (A connection that is reset instead ends
   the process, which Stop does too.) *)
TrackerStop == /\ trackerUp
               /\ stops < MaxStops
               /\ stops' = stops + 1
               /\ trackerUp' = FALSE
               /\ file_data' = <<>>
               /\ pc' = [p \in Peers |-> IF pc[p] \in {"query", "malformed"}
                                         THEN "spinning" ELSE pc[p]]
               /\ UNCHANGED <<listening, share, download, spoiled, commands>>

TrackerStart == /\ ~trackerUp
                /\ trackerUp' = TRUE
                /\ UNCHANGED <<file_data, pc, listening, share, download, spoiled, bounds>>

Quiet == (\A p \in Peers : pc[p] \in {"down", "idle", "spinning"}) /\ UNCHANGED vars

Next == \/ \E p \in Peers : \/ Start(p) \/ Listen(p) \/ Type(p) \/ Stop(p)
                            \/ CommandStep(p) \/ UploadStep(p)
        \/ TrackerStop \/ TrackerStart \/ Quiet

Spec == Init /\ [][Next]_vars

(* A thread that can run is run; users and stops are free. *)
FairSpec == /\ Spec
            /\ \A p \in Peers : WF_vars(CommandStep(p)) /\ WF_vars(UploadStep(p))

-----------------------------------------------------------------------------
(* TypeOK: the list has no peer twice, and copies have lengths of parts. *)
TypeOK ==
    /\ trackerUp \in BOOLEAN
    /\ file_data \in Seq(Peers) /\ IsInjective(file_data)
    /\ pc \in [Peers -> {"down", "idle", "query", "malformed", "connect", "header",
                         "receiving", "update", "spinning"}]
    /\ listening \in [Peers -> BOOLEAN]
    /\ share \in [Peers -> Copy \cup {NoFile}]
    /\ source \in [Peers -> Peers \cup {NoPeer}]
    /\ filesize \in [Peers -> Copy] /\ received \in [Peers -> Copy] /\ sent \in [Peers -> Copy]
    /\ upload \in [Peers -> {"none", "asked", "open", "closed", "cut"}]
    /\ spoiled \in BOOLEAN
    /\ commands \in 0 .. MaxCommands /\ stops \in 0 .. MaxStops

(* sendfile never has to answer "File not found": whoever is listed, or about
   to be asked, has a file of that name, whole or not. *)
ListedHasFile ==
    /\ \A p \in Listed : Has(p)
    /\ \A p \in Peers : source[p] # NoPeer => Has(source[p])

(* "Query the tracker for peers that have hello.txt" (README.md:64): a listed
   peer that is not downloading has the whole file.  It does not hold: a peer
   that types the name of a file it has truncates it, also when it is itself
   the source, and stays listed. *)
ListedHasWhole ==
    \A p \in Listed : pc[p] \in {"idle", "down"} => share[p] = Size

(* What protects it: as long as no peer has downloaded over its own copy and no
   download was cut short, every file announced or about to be is whole, and
   every download under way asks for all of it. *)
WholeUnlessSpoiled ==
    ~spoiled => /\ \A p \in Listed : share[p] = Size
                /\ \A p \in Peers : /\ pc[p] = "update" => share[p] = Size
                                    /\ pc[p] = "receiving" => filesize[p] = Size

(* A name of one word brings the prompt back or ends the process, unless the
   tracker stops while it answers.  Any other line is answered with "ERROR bad
   QUERY format" (tracker.py:50-51), and the thread waits for END for ever,
   although the tracker is up. *)
PromptReturns ==
    \A p \in Peers : pc[p] = "query" ~> pc[p] \in {"idle", "down", "spinning"}
=============================================================================
