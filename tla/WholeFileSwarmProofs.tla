------------------------ MODULE WholeFileSwarmProofs ------------------------
(* Proofs about WholeFileSwarm for every number of peers, commands and faults
   and every length of the file: what the tracker says is true, and the whole
   is one of the systems that PieceDirectory describes. *)
EXTENDS WholeFileSwarm, WellFoundedInduction, TLAPS

-----------------------------------------------------------------------------
(* The inductive invariant *)

(* A request is open only where the command waits for it, and its answer is
   empty until the tracker has handled it. *)
CallAt(p) ==
    /\ call[p] # "none" => pc[p] \in Requests
    /\ call[p] \in {"none", "sent"} => answer[p] = Nothing
    /\ call[p] = "listing" => pc[p] = "list"

(* A file that is being written exists; unless a copy was spoiled, one that is
   not being written is whole. *)
FileAt(p) ==
    /\ pc[p] = "import" => shared[p] # NoFile
    /\ pc[p] = "write" => downloads[p] # NoFile
    /\ ~spoiled => /\ shared[p] \in {NoFile, Size} \/ pc[p] = "import"
                   /\ downloads[p] \in {NoFile, Size} \/ pc[p] = "write"
                   /\ pc[p] = "write" => data[p] = Size

(* An upload has a source, and the copy that it reads exists and is whole. *)
UploadAt(p) ==
    /\ upload[p] # "none" \/ pc[p] = "connect" => source[p] \in Peers
    /\ pc[p] \in {"query", "connect"} => upload[p] = "none"
    /\ upload[p] = "reading" => /\ Length(source[p], reads[p]) # NoFile
                                /\ ~spoiled => Length(source[p], reads[p]) = Size
    /\ upload[p] = "sending" /\ ~spoiled => sent[p] = Size

(* A peer that takes commands has been registered. *)
RegisteredAt(p) == ~restarted =>
    /\ pc[p] \notin {"down", "register", "failing"} => p \in peers
    /\ pc[p] = "register" /\ call[p] = "done" => p \in peers
    /\ <<p, "add">> \in late \/ <<p, "have">> \in late => p \in peers
    /\ call[p] = "listing" => answer[p].owners \subseteq peers
    /\ call[p] = "done" => answer[p].owners \subseteq answer[p].peers

OwnersOK == ~restarted => owners \subseteq peers

(* Whoever is named as a source anywhere has a copy, which is whole unless one
   was spoiled. *)
Good(q) == HasLocal(q) /\ (~spoiled => Local(q) = Size)
Named(q) == \/ q \in owners \/ Announcing(q)
            \/ \E p \in Peers : source[p] = q
            \/ \E p \in Peers : pc[p] = "query" /\ q \in answer[p].peers
NamedOK == \A q \in Peers : Named(q) => Good(q)

IInv == /\ TypeOK /\ OwnersOK /\ NamedOK
        /\ \A p \in Peers : CallAt(p) /\ FileAt(p) /\ UploadAt(p) /\ RegisteredAt(p)

-----------------------------------------------------------------------------
(* What a step of one peer leaves alone *)

Others(p) ==
    \A q \in Peers \ {p} :
        /\ pc'[q] = pc[q] /\ call'[q] = call[q] /\ answer'[q] = answer[q]
        /\ shared'[q] = shared[q] /\ downloads'[q] = downloads[q] /\ data'[q] = data[q]
        /\ source'[q] = source[q] /\ reads'[q] = reads[q] /\ sent'[q] = sent[q]
        /\ upload'[q] = upload[q] \/ (upload'[q] = "cut" /\ upload[q] # "none")
        /\ \A r \in Announcements : <<q, r>> \in late' => <<q, r>> \in late

(* Files stay, and whole copies stay whole, unless they are spoiled. *)
Keeps ==
    /\ spoiled => spoiled'
    /\ \A q \in Peers :
        /\ shared[q] # NoFile => shared'[q] # NoFile
        /\ downloads[q] # NoFile => downloads'[q] # NoFile
        /\ ~spoiled' => /\ shared[q] = Size => shared'[q] = Size
                        /\ downloads[q] = Size => downloads'[q] = Size
                        /\ HasLocal(q) => (shared'[q] = NoFile <=> shared[q] = NoFile)

(* The tracker knows more, unless it was restarted. *)
Grows == (restarted => restarted') /\ (restarted' \/ peers \subseteq peers')

(* Who is named anew. *)
NewNames(p) ==
    /\ \A q \in owners' : q \in owners \/ Announcing(q)
    /\ Announcing(p)' => Named(p) \/ Good(p)'
    /\ \A q \in Peers : source'[p] = q => Named(q)
    /\ pc'[p] = "query" => \A q \in answer'[p].peers : Named(q)

LEMMA GoodStays ==
    ASSUME Keeps, NEW q \in Peers, Good(q)
    PROVE  Good(q)'
<1>1. HasLocal(q)'
  BY DEF Keeps, Good, HasLocal
<1>2. ASSUME ~spoiled'
      PROVE  Local(q)' = Size
  <2>1. HasLocal(q) /\ Local(q) = Size
    BY <1>2 DEF Keeps, Good
  <2>2. CASE shared[q] # NoFile
    BY <1>2, <2>1, <2>2 DEF Keeps, Local, Length, Dir
  <2>3. CASE shared[q] = NoFile
    BY <1>2, <2>1, <2>3 DEF Keeps, Local, Length, Dir
  <2> QED
    BY <2>2, <2>3
<1> QED
  BY <1>1, <1>2 DEF Good

LEMMA CopyStays ==
    ASSUME Keeps, NEW q \in Peers, NEW d \in {"shared", "downloads"}, Length(q, d) # NoFile
    PROVE  /\ Length(q, d)' # NoFile
           /\ ~spoiled' /\ Length(q, d) = Size => Length(q, d)' = Size
BY DEF Keeps, Length

LEMMA NamesStay ==
    ASSUME IInv, NEW p \in Peers, Others(p), Keeps, NewNames(p)
    PROVE  NamedOK'
<1> SUFFICES ASSUME NEW q \in Peers, Named(q)'
             PROVE  Good(q)'
  BY DEF NamedOK
<1>1. Named(q) => Good(q)'
  BY GoodStays DEF IInv, NamedOK
<1>2. CASE q \in owners'
  BY <1>1, <1>2 DEF NewNames, Named
<1>3. CASE Announcing(q)'
  <2>1. CASE q = p
    BY <1>1, <1>3, <2>1 DEF NewNames
  <2>2. CASE q # p
    BY <1>1, <1>3, <2>2 DEF Others, Announcing, Announcements, Named
  <2> QED
    BY <2>1, <2>2
<1>4. ASSUME NEW r \in Peers, source'[r] = q
      PROVE  Good(q)'
  BY <1>1, <1>4 DEF NewNames, Others, Named
<1>5. ASSUME NEW r \in Peers, pc'[r] = "query", q \in answer'[r].peers
      PROVE  Good(q)'
  BY <1>1, <1>5 DEF NewNames, Others, Named
<1> QED
  BY <1>2, <1>3, <1>4, <1>5 DEF Named

(* An upload goes on reading a good copy. *)
LEMMA UploadStays ==
    ASSUME IInv, Keeps, NEW q \in Peers,
           \/ upload'[q] = upload[q] /\ source'[q] = source[q]
           \/ upload'[q] = "cut" /\ source'[q] \in Peers,
           reads'[q] = reads[q], sent'[q] = sent[q],
           pc'[q] \in {"query", "connect"} => pc[q] = pc'[q] /\ upload'[q] = upload[q]
    PROVE  UploadAt(q)'
<1>1. UploadAt(q) /\ reads[q] \in {"shared", "downloads"}
  BY DEF IInv, TypeOK
<1>2. spoiled => spoiled'
  BY DEF Keeps
<1>3. CASE upload'[q] = "cut" /\ source'[q] \in Peers
  BY <1>1, <1>3 DEF UploadAt
<1>4. CASE upload'[q] = upload[q] /\ source'[q] = source[q]
  <2>1. upload[q] = "reading" => source[q] \in Peers
    BY <1>1 DEF UploadAt
  <2>2. upload[q] = "reading" =>
            /\ Length(source[q], reads[q])' # NoFile
            /\ ~spoiled' => Length(source[q], reads[q])' = Size
    BY <1>1, <1>2, <1>4, <2>1, CopyStays DEF UploadAt, Length
  <2> QED
    BY <1>1, <1>2, <1>4, <2>2 DEF UploadAt
<1> QED
  BY <1>3, <1>4

LEMMA OthersStay ==
    ASSUME IInv, NEW p \in Peers, Others(p), Keeps, Grows, NEW q \in Peers, q # p
    PROVE  CallAt(q)' /\ FileAt(q)' /\ UploadAt(q)' /\ RegisteredAt(q)'
<1>1. CallAt(q) /\ FileAt(q) /\ RegisteredAt(q) /\ UploadAt(q)
  BY DEF IInv
<1>2. CallAt(q)'
  BY <1>1 DEF CallAt, Others
<1>3. FileAt(q)'
  BY <1>1 DEF FileAt, Others, Keeps
<1>4. UploadAt(q)'
  BY <1>1, UploadStays DEF Others, UploadAt
<1>5. RegisteredAt(q)'
  BY <1>1 DEF RegisteredAt, Others, Grows, Announcements
<1> QED
  BY <1>2, <1>3, <1>4, <1>5

(* A step of one peer keeps the invariant if it does so for that peer. *)
LEMMA StepKeeps ==
    ASSUME IInv, NEW p \in Peers, Others(p), Keeps, Grows, NewNames(p), TypeOK', OwnersOK',
           CallAt(p)', FileAt(p)', UploadAt(p)', RegisteredAt(p)'
    PROVE  IInv'
BY NamesStay, OthersStay DEF IInv

(* Most steps change no file. *)
LEMMA DiskKept ==
    ASSUME UNCHANGED disk
    PROVE  Keeps
BY DEF disk, Keeps, HasLocal

-----------------------------------------------------------------------------
(* Types of what the steps assign *)

LEMMA Names ==
    /\ "down" \in Stages /\ "prompt" \in Stages /\ "import" \in Stages /\ "connect" \in Stages
    /\ "download" \in Stages /\ "write" \in Stages /\ "closing" \in Stages
    /\ "failing" \in Stages /\ Requests \subseteq Stages
    /\ "none" \in Calls /\ "sent" \in Calls /\ "listing" \in Calls /\ "done" \in Calls
    /\ "cut" \in Calls
    /\ "none" \in Uploads /\ "asked" \in Uploads /\ "reading" \in Uploads
    /\ "sending" \in Uploads /\ "error" \in Uploads /\ "cut" \in Uploads
BY DEF Stages, Calls, Uploads

LEMMA NotRequests ==
    ASSUME NEW s \in {"down", "prompt", "import", "connect", "download", "write", "closing",
                      "failing"}
    PROVE  s \notin Requests
BY DEF Requests

LEMMA NothingTyped == Nothing \in [owners : SUBSET Peers, peers : SUBSET Peers]
                      /\ Nothing.owners = {} /\ Nothing.peers = {}
BY DEF Nothing

LEMMA GotoType ==
    ASSUME TypeOK, NEW p \in Peers, NEW l \in Stages, Goto(p, l)
    PROVE  /\ pc' \in [Peers -> Stages] /\ pc'[p] = l
           /\ \A q \in Peers \ {p} : pc'[q] = pc[q]
BY DEF TypeOK, Goto

LEMMA LeastIn ==
    ASSUME NEW T, T \subseteq Nat, T # {}
    PROVE  Least(T) \in T
<1>1. PICK x \in T : \A y \in T : ~(<<y, x>> \in OpToRel(<, Nat))
  BY NatLessThanWellFounded, WFMin
<1>2. \A y \in T : ~(y < x)
  BY <1>1 DEF OpToRel
<1>3. \A y \in T : x <= y
  BY <1>2
<1> QED
  BY <1>3 DEF Least

LEMMA AskType ==
    ASSUME TypeOK, NEW p \in Peers, NEW r \in Requests, Ask(p, r)
    PROVE  /\ pc' \in [Peers -> Stages] /\ call' \in [Peers -> Calls]
           /\ \/ pc'[p] = r /\ call'[p] = "sent"
              \/ pc'[p] = "prompt" /\ call'[p] = call[p]
           /\ \A q \in Peers \ {p} : pc'[q] = pc[q] /\ call'[q] = call[q]
<1>1. CASE Goto(p, r) /\ call' = [call EXCEPT ![p] = "sent"]
  <2>1. pc' \in [Peers -> Stages] /\ pc'[p] = r /\ \A q \in Peers \ {p} : pc'[q] = pc[q]
    BY <1>1, Names, GotoType
  <2> QED
    BY <1>1, <2>1, Names DEF TypeOK
<1>2. CASE Goto(p, "prompt") /\ UNCHANGED call
  BY <1>2, Names, GotoType DEF TypeOK
<1> QED
  BY <1>1, <1>2 DEF Ask

LEMMA AbandonType ==
    ASSUME TypeOK, NEW p \in Peers, Abandon(p)
    PROVE  /\ call' \in [Peers -> Calls] /\ call'[p] = "none"
           /\ answer' \in [Peers -> [owners : SUBSET Peers, peers : SUBSET Peers]]
           /\ answer'[p] = Nothing
           /\ late' \subseteq Peers \X Announcements
           /\ \A q \in Peers \ {p} : call'[q] = call[q] /\ answer'[q] = answer[q]
           /\ \A q \in Peers : q # p =>
                 \A r \in Announcements : <<q, r>> \in late' => <<q, r>> \in late
           /\ \A r \in Announcements : <<p, r>> \in late' =>
                 <<p, r>> \in late \/ (pc[p] = r /\ call[p] = "sent")
<1>1. call' = [call EXCEPT ![p] = "none"] /\ answer' = [answer EXCEPT ![p] = Nothing]
  BY DEF Abandon
<1>2. late' \subseteq late \cup {<<p, r>> : r \in {s \in Announcements : pc[p] = s /\ call[p] = "sent"}}
  BY DEF Abandon, Announcements
<1> HIDE DEF Nothing
<1>3. /\ call' \in [Peers -> Calls] /\ call'[p] = "none"
      /\ answer' \in [Peers -> [owners : SUBSET Peers, peers : SUBSET Peers]]
      /\ answer'[p] = Nothing
      /\ \A q \in Peers \ {p} : call'[q] = call[q] /\ answer'[q] = answer[q]
  BY <1>1, Names, NothingTyped DEF TypeOK
<1>4. late' \subseteq Peers \X Announcements
  BY <1>2 DEF TypeOK
<1> QED
  BY <1>2, <1>3, <1>4

LEMMA CopyType ==
    ASSUME TypeOK, NEW q \in Peers, NEW d
    PROVE  /\ Length(q, d) \in Copy \cup {NoFile} /\ Dir(q) \in {"shared", "downloads"}
           /\ NoFile \notin Copy /\ Copy \subseteq Nat /\ Size \in Copy /\ 0 \in Copy
BY WholeFileAssumption DEF TypeOK, Length, Dir, Copy

LEMMA SourceNamed ==
    ASSUME NEW p \in Peers, answer[p].peers \subseteq Peers, answer[p].peers # {}
    PROVE  Source(p) \in answer[p].peers
<1> DEFINE others == answer[p].peers \ {p}
<1>1. CASE others = {}
  BY <1>1 DEF Source
<1>2. CASE others # {}
  <2>1. others \subseteq Nat
    BY WholeFileAssumption
  <2>2. Least(others) \in others
    BY <1>2, <2>1, LeastIn
  <2> QED
    BY <1>2, <2>2 DEF Source
<1> QED
  BY <1>1, <1>2

LEMMA NoUploadType ==
    ASSUME TypeOK, NEW p \in Peers, NoUpload(p)
    PROVE  /\ upload' \in [Peers -> Uploads] /\ upload'[p] = "none"
           /\ source' \in [Peers -> Peers \cup {NoPeer}] /\ source'[p] = NoPeer
           /\ reads' \in [Peers -> {"shared", "downloads"}] /\ sent' \in [Peers -> Copy]
           /\ \A q \in Peers \ {p} : /\ upload'[q] = upload[q] /\ source'[q] = source[q]
                                     /\ reads'[q] = reads[q] /\ sent'[q] = sent[q]
<1>1. 0 \in Copy
  BY CopyType
<1> QED
  BY <1>1, Names DEF TypeOK, NoUpload

-----------------------------------------------------------------------------
(* The steps *)

LEMMA HandleStep ==
    ASSUME IInv, NEW p \in Peers, Handle(p)
    PROVE  IInv'
<1>1. TypeOK /\ CallAt(p) /\ FileAt(p) /\ UploadAt(p) /\ RegisteredAt(p) /\ OwnersOK
  BY DEF IInv
<1>2. /\ call[p] = "sent" /\ pc[p] \in Announcements /\ pc'[p] = pc[p]
      /\ call' \in [Peers -> Calls] /\ call'[p] = "done"
      /\ \A q \in Peers \ {p} : call'[q] = call[q]
      /\ peers \subseteq peers' /\ peers' \subseteq Peers /\ owners' \subseteq Peers
      /\ pc[p] = "register" => p \in peers' /\ owners' = owners
      /\ owners' \subseteq owners \cup {p}
  BY <1>1, Names DEF TypeOK, Handle, Apply, Announcements
<1>3. TypeOK'
  BY <1>1, <1>2 DEF TypeOK, Handle, Apply, disk, transfer, bounds
<1>4. Others(p)
  BY <1>1, <1>2 DEF TypeOK, Others, Handle, Apply, disk, transfer, bounds
<1>5. Keeps
  BY DiskKept DEF Handle, Apply, disk, transfer, bounds
<1>6. Grows
  BY <1>2 DEF Grows, Handle, Apply, disk, transfer, bounds
<1>7. CallAt(p)' /\ RegisteredAt(p)' /\ OwnersOK'
  BY <1>1, <1>2, NothingTyped
  DEF CallAt, RegisteredAt, OwnersOK, Handle, Announcements, Requests, tracker, calls
<1>8. FileAt(p)'
  BY <1>1, <1>2 DEF FileAt, Handle, Apply, disk, transfer, bounds
<1>9. UploadAt(p)'
  BY <1>1, <1>2, <1>5, UploadStays DEF Handle, Apply, disk, transfer, bounds
<1>10. NewNames(p)
  BY <1>1, <1>2 DEF NewNames, Named, Announcing, Announcements, Handle, transfer
<1> QED
  BY <1>3, <1>4, <1>5, <1>6, <1>7, <1>8, <1>9, <1>10, StepKeeps

LEMMA HandleLateStep ==
    ASSUME IInv, NEW p \in Peers, NEW r, HandleLate(p, r)
    PROVE  IInv'
<1>1. TypeOK /\ CallAt(p) /\ FileAt(p) /\ UploadAt(p) /\ RegisteredAt(p) /\ OwnersOK
  BY DEF IInv
<1>2. /\ <<p, r>> \in late /\ pc'[p] = pc[p] /\ r \in Announcements
      /\ peers \subseteq peers' /\ peers' \subseteq Peers /\ owners' \subseteq Peers
      /\ r = "register" => owners' = owners
      /\ owners' \subseteq owners \cup {p} /\ late' \subseteq late
  BY <1>1 DEF TypeOK, HandleLate, Apply, Announcements
<1>3. TypeOK'
  BY <1>1, <1>2 DEF TypeOK, HandleLate, Apply, calls, disk, transfer, bounds
<1>4. Others(p)
  BY <1>1, <1>2 DEF TypeOK, Others, HandleLate, Apply, calls, disk, transfer, bounds
<1>5. Keeps
  BY DiskKept DEF HandleLate, Apply, calls, disk, transfer, bounds
<1>6. Grows
  BY <1>2 DEF Grows, HandleLate, Apply, calls, disk, transfer, bounds
<1>7. CallAt(p)' /\ RegisteredAt(p)' /\ OwnersOK'
  BY <1>1, <1>2 DEF CallAt, RegisteredAt, OwnersOK, HandleLate, Announcements, tracker, calls
<1>8. FileAt(p)'
  BY <1>1, <1>2 DEF FileAt, HandleLate, Apply, calls, disk, transfer, bounds
<1>9. UploadAt(p)'
  BY <1>1, <1>2, <1>5, UploadStays DEF HandleLate, Apply, calls, disk, transfer, bounds
<1>10. NewNames(p)
  BY <1>1, <1>2 DEF NewNames, Named, Announcing, Announcements, HandleLate, calls, transfer
<1> QED
  BY <1>3, <1>4, <1>5, <1>6, <1>7, <1>8, <1>9, <1>10, StepKeeps

LEMMA HandleQueryStep ==
    ASSUME IInv, NEW p \in Peers, HandleQuery(p)
    PROVE  IInv'
<1>1. TypeOK /\ CallAt(p) /\ FileAt(p) /\ UploadAt(p) /\ RegisteredAt(p) /\ OwnersOK
  BY DEF IInv
<1>2. /\ call[p] = "sent" /\ pc[p] = "query" /\ pc'[p] = "query"
      /\ call' \in [Peers -> Calls] /\ call'[p] = "done"
      /\ answer' \in [Peers -> [owners : SUBSET Peers, peers : SUBSET Peers]]
      /\ answer'[p].owners = owners /\ answer'[p].peers = owners \cap peers
      /\ \A q \in Peers \ {p} : call'[q] = call[q] /\ answer'[q] = answer[q]
  BY <1>1, Names DEF TypeOK, HandleQuery
<1>3. TypeOK'
  BY <1>1, <1>2 DEF TypeOK, HandleQuery, tracker, disk, transfer, bounds
<1>4. Others(p)
  BY <1>1, <1>2 DEF TypeOK, Others, HandleQuery, tracker, disk, transfer, bounds
<1>5. Keeps
  BY DiskKept DEF HandleQuery, tracker, disk, transfer, bounds
<1>6. Grows
  BY <1>2 DEF Grows, HandleQuery, tracker, disk, transfer, bounds
<1>7. CallAt(p)' /\ RegisteredAt(p)' /\ OwnersOK'
  BY <1>1, <1>2 DEF CallAt, RegisteredAt, OwnersOK, HandleQuery, Requests, tracker
<1>8. FileAt(p)'
  BY <1>1, <1>2 DEF FileAt, HandleQuery, tracker, disk, transfer, bounds
<1>9. UploadAt(p)'
  BY <1>1, <1>2, <1>5, UploadStays DEF HandleQuery, tracker, disk, transfer, bounds
<1>10. NewNames(p)
  BY <1>1, <1>2
  DEF NewNames, Named, Announcing, Requests, HandleQuery, tracker, disk, transfer, bounds
<1> QED
  BY <1>3, <1>4, <1>5, <1>6, <1>7, <1>8, <1>9, <1>10, StepKeeps

LEMMA ListFilesStep ==
    ASSUME IInv, NEW p \in Peers, ListFiles(p)
    PROVE  IInv'
<1>1. TypeOK /\ CallAt(p) /\ FileAt(p) /\ UploadAt(p) /\ RegisteredAt(p) /\ OwnersOK
  BY DEF IInv
<1>2. /\ call[p] = "sent" /\ pc[p] = "list" /\ pc'[p] = "list"
      /\ call' \in [Peers -> Calls] /\ call'[p] = "listing"
      /\ answer' \in [Peers -> [owners : SUBSET Peers, peers : SUBSET Peers]]
      /\ answer'[p].owners = owners
      /\ \A q \in Peers \ {p} : call'[q] = call[q] /\ answer'[q] = answer[q]
  <2>1. /\ call[p] = "sent" /\ pc[p] = "list" /\ pc' = pc
        /\ call' = [call EXCEPT ![p] = "listing"]
        /\ answer' = [answer EXCEPT ![p].owners = owners]
    BY DEF ListFiles
  <2>2. /\ call' \in [Peers -> Calls] /\ call'[p] = "listing"
        /\ \A q \in Peers \ {p} : call'[q] = call[q]
    BY <1>1, <2>1, Names DEF TypeOK
  <2>3. /\ answer \in [Peers -> [owners : SUBSET Peers, peers : SUBSET Peers]]
        /\ owners \in SUBSET Peers
    BY <1>1 DEF TypeOK
  <2>4. /\ answer' \in [Peers -> [owners : SUBSET Peers, peers : SUBSET Peers]]
        /\ answer'[p].owners = owners
        /\ \A q \in Peers \ {p} : answer'[q] = answer[q]
    BY <2>1, <2>3
  <2> QED
    BY <2>1, <2>2, <2>4
<1>3. TypeOK'
  BY <1>1, <1>2 DEF TypeOK, ListFiles, tracker, disk, transfer, bounds
<1>4. Others(p)
  BY <1>1, <1>2 DEF TypeOK, Others, ListFiles, tracker, disk, transfer, bounds
<1>5. Keeps
  BY DiskKept DEF ListFiles, tracker, disk, transfer, bounds
<1>6. Grows
  BY <1>2 DEF Grows, ListFiles, tracker, disk, transfer, bounds
<1>7. CallAt(p)' /\ RegisteredAt(p)' /\ OwnersOK'
  BY <1>1, <1>2 DEF CallAt, RegisteredAt, OwnersOK, ListFiles, Requests, tracker
<1>8. FileAt(p)'
  BY <1>1, <1>2 DEF FileAt, ListFiles, tracker, disk, transfer, bounds
<1>9. UploadAt(p)'
  BY <1>1, <1>2, <1>5, UploadStays DEF ListFiles, tracker, disk, transfer, bounds
<1>10. NewNames(p)
  BY <1>1, <1>2
  DEF NewNames, Named, Announcing, Requests, ListFiles, tracker, disk, transfer, bounds
<1> QED
  BY <1>3, <1>4, <1>5, <1>6, <1>7, <1>8, <1>9, <1>10, StepKeeps

LEMMA ListPeersStep ==
    ASSUME IInv, NEW p \in Peers, ListPeers(p)
    PROVE  IInv'
<1>1. TypeOK /\ CallAt(p) /\ FileAt(p) /\ UploadAt(p) /\ RegisteredAt(p) /\ OwnersOK
  BY DEF IInv
<1>2. /\ call[p] = "listing" /\ pc[p] = "list" /\ pc'[p] = "list"
      /\ call' \in [Peers -> Calls] /\ call'[p] = "done"
      /\ answer' \in [Peers -> [owners : SUBSET Peers, peers : SUBSET Peers]]
      /\ answer'[p].owners = answer[p].owners /\ answer'[p].peers = peers
      /\ \A q \in Peers \ {p} : call'[q] = call[q] /\ answer'[q] = answer[q]
  BY <1>1, Names DEF TypeOK, ListPeers, CallAt
<1>3. TypeOK'
  BY <1>1, <1>2 DEF TypeOK, ListPeers, tracker, disk, transfer, bounds
<1>4. Others(p)
  BY <1>1, <1>2 DEF TypeOK, Others, ListPeers, tracker, disk, transfer, bounds
<1>5. Keeps
  BY DiskKept DEF ListPeers, tracker, disk, transfer, bounds
<1>6. Grows
  BY <1>2 DEF Grows, ListPeers, tracker, disk, transfer, bounds
<1>7. CallAt(p)' /\ RegisteredAt(p)' /\ OwnersOK'
  BY <1>1, <1>2 DEF CallAt, RegisteredAt, OwnersOK, ListPeers, Requests, tracker
<1>8. FileAt(p)'
  BY <1>1, <1>2 DEF FileAt, ListPeers, tracker, disk, transfer, bounds
<1>9. UploadAt(p)'
  BY <1>1, <1>2, <1>5, UploadStays DEF ListPeers, tracker, disk, transfer, bounds
<1>10. NewNames(p)
  BY <1>1, <1>2
  DEF NewNames, Named, Announcing, Requests, ListPeers, tracker, disk, transfer, bounds
<1> QED
  BY <1>3, <1>4, <1>5, <1>6, <1>7, <1>8, <1>9, <1>10, StepKeeps

LEMMA StartStep ==
    ASSUME IInv, NEW p \in Peers, Start(p)
    PROVE  IInv'
<1>1. TypeOK /\ CallAt(p) /\ FileAt(p) /\ UploadAt(p) /\ RegisteredAt(p) /\ OwnersOK
  BY DEF IInv
<1>2. /\ pc[p] = "down" /\ call[p] = "none" /\ pc'[p] = "register" /\ call'[p] = "sent"
      /\ pc' \in [Peers -> Stages] /\ call' \in [Peers -> Calls]
      /\ \A q \in Peers \ {p} : pc'[q] = pc[q] /\ call'[q] = call[q]
  <2>1. Ask(p, "register") /\ pc[p] = "down" /\ trackerUp
    BY DEF Start
  <2>2. call[p] = "none"
    BY <1>1, <2>1, NotRequests DEF CallAt
  <2>3. pc'[p] = "register" /\ call'[p] = "sent"
    BY <1>1, <2>1, Names DEF Ask, Goto, TypeOK, Requests
  <2> QED
    BY <1>1, <2>1, <2>2, <2>3, AskType DEF Requests
<1>3. TypeOK'
  BY <1>1, <1>2 DEF TypeOK, Start, tracker, disk, transfer, bounds
<1>4. Others(p)
  BY <1>1, <1>2 DEF TypeOK, Others, Start, tracker, disk, transfer, bounds
<1>5. Keeps
  BY DiskKept DEF Start, tracker, disk, transfer, bounds
<1>6. Grows
  BY <1>2 DEF Grows, Start, tracker, disk, transfer, bounds
<1>7. CallAt(p)' /\ RegisteredAt(p)' /\ OwnersOK'
  BY <1>1, <1>2 DEF CallAt, RegisteredAt, OwnersOK, Start, Requests, tracker
<1>8. FileAt(p)'
  BY <1>1, <1>2 DEF FileAt, Start, tracker, disk, transfer, bounds
<1>9. UploadAt(p)'
  BY <1>1, <1>2, <1>5, UploadStays DEF Start, tracker, disk, transfer, bounds
<1>10. NewNames(p)
  BY <1>1, <1>2 DEF NewNames, Named, Announcing, Requests, Start, tracker, disk, transfer, bounds
<1> QED
  BY <1>3, <1>4, <1>5, <1>6, <1>7, <1>8, <1>9, <1>10, StepKeeps

LEMMA HaveStep ==
    ASSUME IInv, NEW p \in Peers, Have(p)
    PROVE  IInv'
<1>1. TypeOK /\ CallAt(p) /\ FileAt(p) /\ UploadAt(p) /\ RegisteredAt(p) /\ OwnersOK
  BY DEF IInv
<1>2. /\ pc[p] = "prompt" /\ call[p] = "none" /\ HasLocal(p)
      /\ commands' \in 0 .. MaxCommands
      /\ pc' \in [Peers -> Stages] /\ call' \in [Peers -> Calls]
      /\ \/ pc'[p] = "have" /\ call'[p] = "sent"
         \/ pc'[p] = "prompt" /\ call'[p] = call[p]
      /\ \A q \in Peers \ {p} : pc'[q] = pc[q] /\ call'[q] = call[q]
  <2>1. Ask(p, "have") /\ Typed(p) /\ pc[p] = "prompt"
    BY DEF Have, Typed
  <2>2. call[p] = "none"
    BY <1>1, <2>1, NotRequests DEF CallAt
  <2>3. commands' \in 0 .. MaxCommands
    BY <1>1, <2>1, WholeFileAssumption DEF TypeOK, Typed
  <2> QED
    BY <1>1, <2>1, <2>2, <2>3, AskType DEF Requests, Have
<1>3. TypeOK'
  BY <1>1, <1>2 DEF TypeOK, Have, Typed, tracker, disk, transfer
<1>4. Others(p)
  BY <1>1, <1>2 DEF TypeOK, Others, Have, Typed, tracker, disk, transfer
<1>5. Keeps
  BY DiskKept DEF Have, Typed, tracker, disk, transfer
<1>6. Grows
  BY <1>2 DEF Grows, Have, Typed, tracker, disk, transfer
<1>7. CallAt(p)' /\ RegisteredAt(p)' /\ OwnersOK'
  BY <1>1, <1>2, NotRequests DEF CallAt, RegisteredAt, OwnersOK, Have, Typed, Requests, tracker
<1>8. FileAt(p)'
  BY <1>1, <1>2 DEF FileAt, Have, Typed, tracker, disk, transfer
<1>9. UploadAt(p)'
  BY <1>1, <1>2, <1>5, UploadStays DEF Have, Typed, tracker, disk, transfer
<1>10. NewNames(p)
  <2>1. Good(p)'
    BY <1>1, <1>2, <1>5, GoodStays, CopyType DEF Good, FileAt, HasLocal, Local, Length, Dir
  <2> QED
    BY <1>1, <1>2, <2>1 DEF NewNames, Named, Announcing, Have, Typed, tracker, transfer
<1> QED
  BY <1>3, <1>4, <1>5, <1>6, <1>7, <1>8, <1>9, <1>10, StepKeeps

LEMMA ListStep ==
    ASSUME IInv, NEW p \in Peers, List(p)
    PROVE  IInv'
<1>1. TypeOK /\ CallAt(p) /\ FileAt(p) /\ UploadAt(p) /\ RegisteredAt(p) /\ OwnersOK
  BY DEF IInv
<1>2. /\ pc[p] = "prompt" /\ call[p] = "none"
      /\ commands' \in 0 .. MaxCommands
      /\ pc' \in [Peers -> Stages] /\ call' \in [Peers -> Calls]
      /\ \/ pc'[p] = "list" /\ call'[p] = "sent"
         \/ pc'[p] = "prompt" /\ call'[p] = call[p]
      /\ \A q \in Peers \ {p} : pc'[q] = pc[q] /\ call'[q] = call[q]
  <2>1. Ask(p, "list") /\ Typed(p) /\ pc[p] = "prompt"
    BY DEF List, Typed
  <2>2. call[p] = "none"
    BY <1>1, <2>1, NotRequests DEF CallAt
  <2>3. commands' \in 0 .. MaxCommands
    BY <1>1, <2>1, WholeFileAssumption DEF TypeOK, Typed
  <2> QED
    BY <1>1, <2>1, <2>2, <2>3, AskType DEF Requests
<1>3. TypeOK'
  BY <1>1, <1>2 DEF TypeOK, List, Typed, tracker, disk, transfer
<1>4. Others(p)
  BY <1>1, <1>2 DEF TypeOK, Others, List, Typed, tracker, disk, transfer
<1>5. Keeps
  BY DiskKept DEF List, Typed, tracker, disk, transfer
<1>6. Grows
  BY <1>2 DEF Grows, List, Typed, tracker, disk, transfer
<1>7. CallAt(p)' /\ RegisteredAt(p)' /\ OwnersOK'
  BY <1>1, <1>2, NotRequests DEF CallAt, RegisteredAt, OwnersOK, List, Typed, Requests, tracker
<1>8. FileAt(p)'
  BY <1>1, <1>2 DEF FileAt, List, Typed, tracker, disk, transfer
<1>9. UploadAt(p)'
  BY <1>1, <1>2, <1>5, UploadStays DEF List, Typed, tracker, disk, transfer
<1>10. NewNames(p)
  BY <1>1, <1>2 DEF NewNames, Named, Announcing, Requests, List, Typed, tracker, disk, transfer
<1> QED
  BY <1>3, <1>4, <1>5, <1>6, <1>7, <1>8, <1>9, <1>10, StepKeeps

LEMMA DownloadStep ==
    ASSUME IInv, NEW p \in Peers, Download(p)
    PROVE  IInv'
<1>1. TypeOK /\ CallAt(p) /\ FileAt(p) /\ UploadAt(p) /\ RegisteredAt(p) /\ OwnersOK
  BY DEF IInv
<1>2. /\ pc[p] = "prompt" /\ call[p] = "none" /\ upload[p] = "none"
      /\ commands' \in 0 .. MaxCommands
      /\ pc' \in [Peers -> Stages] /\ call' \in [Peers -> Calls]
      /\ \/ pc'[p] = "query" /\ call'[p] = "sent"
         \/ pc'[p] = "prompt" /\ call'[p] = call[p]
      /\ \A q \in Peers \ {p} : pc'[q] = pc[q] /\ call'[q] = call[q]
  <2>1. Ask(p, "query") /\ Typed(p) /\ pc[p] = "prompt"
    BY DEF Download, Typed
  <2>2. call[p] = "none"
    BY <1>1, <2>1, NotRequests DEF CallAt
  <2>3. commands' \in 0 .. MaxCommands
    BY <1>1, <2>1, WholeFileAssumption DEF TypeOK, Typed
  <2> QED
    BY <1>1, <2>1, <2>2, <2>3, AskType DEF Requests, Download
<1>3. TypeOK'
  BY <1>1, <1>2 DEF TypeOK, Download, Typed, tracker, disk, transfer
<1>4. Others(p)
  BY <1>1, <1>2 DEF TypeOK, Others, Download, Typed, tracker, disk, transfer
<1>5. Keeps
  BY DiskKept DEF Download, Typed, tracker, disk, transfer
<1>6. Grows
  BY <1>2 DEF Grows, Download, Typed, tracker, disk, transfer
<1>7. CallAt(p)' /\ RegisteredAt(p)' /\ OwnersOK'
  BY <1>1, <1>2, NotRequests
  DEF CallAt, RegisteredAt, OwnersOK, Download, Typed, Requests, tracker
<1>8. FileAt(p)'
  BY <1>1, <1>2 DEF FileAt, Download, Typed, tracker, disk, transfer
<1>9. UploadAt(p)'
  BY <1>1, <1>2 DEF UploadAt, Download, Typed, disk, transfer, Length
<1>10. NewNames(p)
  BY <1>1, <1>2, NothingTyped
  DEF NewNames, Named, Announcing, CallAt, Download, Typed, tracker, transfer
<1> QED
  BY <1>3, <1>4, <1>5, <1>6, <1>7, <1>8, <1>9, <1>10, StepKeeps

LEMMA QuitStep ==
    ASSUME IInv, NEW p \in Peers, Quit(p)
    PROVE  IInv'
<1>1. TypeOK /\ CallAt(p) /\ FileAt(p) /\ UploadAt(p) /\ RegisteredAt(p) /\ OwnersOK
  BY DEF IInv
<1>2. /\ pc[p] = "prompt" /\ pc'[p] = "closing" /\ pc' \in [Peers -> Stages]
      /\ commands' \in 0 .. MaxCommands
      /\ \A q \in Peers \ {p} : pc'[q] = pc[q]
  BY <1>1, GotoType, Names, WholeFileAssumption DEF TypeOK, Quit, Typed
<1>3. TypeOK'
  BY <1>1, <1>2 DEF TypeOK, Quit, Typed, tracker, disk, transfer
<1>4. Others(p)
  BY <1>1, <1>2 DEF TypeOK, Others, Quit, Typed, tracker, disk, transfer
<1>5. Keeps
  BY DiskKept DEF Quit, Typed, tracker, disk, transfer
<1>6. Grows
  BY <1>2 DEF Grows, Quit, Typed, tracker, disk, transfer
<1>7. CallAt(p)' /\ RegisteredAt(p)' /\ OwnersOK'
  BY <1>1, <1>2, NotRequests, NothingTyped
  DEF CallAt, RegisteredAt, OwnersOK, Quit, Typed, tracker, disk, transfer
<1>8. FileAt(p)'
  BY <1>1, <1>2 DEF FileAt, Quit, Typed, tracker, disk, transfer
<1>9. UploadAt(p)'
  BY <1>1, <1>2, <1>5, UploadStays DEF Quit, Typed, tracker, disk, transfer
<1>10. NewNames(p)
  BY <1>1, <1>2 DEF NewNames, Named, Announcing, Requests, Quit, Typed, tracker, disk, transfer
<1> QED
  BY <1>3, <1>4, <1>5, <1>6, <1>7, <1>8, <1>9, <1>10, StepKeeps

LEMMA AddStep ==
    ASSUME IInv, NEW p \in Peers, Add(p)
    PROVE  IInv'
<1>1. TypeOK /\ CallAt(p) /\ FileAt(p) /\ UploadAt(p) /\ RegisteredAt(p) /\ OwnersOK
  BY DEF IInv
<1>2. /\ pc[p] = "prompt" /\ call[p] = "none" /\ p \in Seeds
      /\ shared' \in [Peers -> Copy \cup {NoFile}] /\ downloads' = downloads
      /\ pc' \in [Peers -> Stages] /\ call' \in [Peers -> Calls] /\ commands' \in 0 .. MaxCommands
      /\ \/ /\ pc'[p] = "import" /\ call'[p] = call[p] /\ shared'[p] = 0
            /\ spoiled \/ HasLocal(p) => spoiled'
         \/ /\ shared'[p] = shared[p] /\ shared[p] # NoFile /\ spoiled' = spoiled
            /\ \/ pc'[p] = "add" /\ call'[p] = "sent"
               \/ pc'[p] = "prompt" /\ call'[p] = call[p]
      /\ spoiled' \in BOOLEAN /\ (spoiled => spoiled')
      /\ \A q \in Peers \ {p} : pc'[q] = pc[q] /\ call'[q] = call[q] /\ shared'[q] = shared[q]
  <2>1. Typed(p) /\ pc[p] = "prompt" /\ p \in Seeds
    BY DEF Add, Typed
  <2>2. call[p] = "none" /\ 0 \in Copy
    BY <1>1, <2>1, CopyType, NotRequests DEF CallAt
  <2>3. commands' \in 0 .. MaxCommands
    BY <1>1, <2>1, WholeFileAssumption DEF TypeOK, Typed
  <2>4. CASE /\ Goto(p, "import") /\ UNCHANGED <<call, downloads>>
             /\ shared' = [shared EXCEPT ![p] = 0]
             /\ spoiled' = (spoiled \/ HasLocal(p))
    BY <1>1, <2>1, <2>2, <2>3, <2>4, GotoType, Names DEF TypeOK, HasLocal
  <2>5. CASE shared[p] # NoFile /\ Ask(p, "add") /\ UNCHANGED disk
    BY <1>1, <2>1, <2>2, <2>3, <2>5, AskType DEF TypeOK, disk, Requests
  <2> QED
    BY <2>4, <2>5 DEF Add
<1>3. TypeOK'
  BY <1>1, <1>2 DEF TypeOK, Add, Typed, tracker, transfer
<1>4. Others(p)
  BY <1>1, <1>2 DEF TypeOK, Others, Add, Typed, tracker, transfer
<1>5. Keeps
  <2>1. shared'[p] = 0 => shared'[p] # NoFile
    BY CopyType, <1>1, WholeFileAssumption
  <2>2. CASE shared'[p] = 0 /\ (spoiled \/ HasLocal(p) => spoiled')
    BY <1>2, <2>1, <2>2, WholeFileAssumption DEF Keeps, HasLocal
  <2>3. CASE shared'[p] = shared[p] /\ spoiled' = spoiled
    BY <1>2, <2>3 DEF Keeps, HasLocal
  <2> QED
    BY <1>2, <2>2, <2>3
<1>6. Grows
  BY DEF Grows, Add, Typed, tracker
<1>7. CallAt(p)' /\ RegisteredAt(p)' /\ OwnersOK'
  BY <1>1, <1>2, NotRequests DEF CallAt, RegisteredAt, OwnersOK, Add, Typed, Requests, tracker
<1>8. FileAt(p)'
  <2>1. CASE pc'[p] = "import"
    <3>1. shared'[p] = 0 /\ 0 # NoFile /\ (spoiled => spoiled')
      BY <1>2, <2>1, WholeFileAssumption
    <3>2. ~spoiled' => downloads'[p] = NoFile
      BY <1>2, <2>1 DEF HasLocal
    <3> QED
      BY <2>1, <3>1, <3>2 DEF FileAt
  <2>2. CASE pc'[p] # "import"
    <3>1. shared'[p] = shared[p] /\ spoiled' = spoiled /\ pc'[p] \in {"add", "prompt"}
      BY <1>2, <2>2
    <3> QED
      BY <1>1, <1>2, <3>1 DEF FileAt
  <2> QED
    BY <2>1, <2>2
<1>9. UploadAt(p)'
  BY <1>1, <1>2, <1>5, UploadStays DEF Add, Typed, transfer
<1>10. NewNames(p)
  <2>1. CASE pc'[p] = "import"
    BY <1>1, <1>2, <2>1 DEF NewNames, Named, Announcing, Add, Typed, tracker, transfer
  <2>2. CASE pc'[p] # "import"
    <3>1. Good(p)'
      BY <1>1, <1>2, <1>8, <2>2 DEF Good, FileAt, HasLocal, Local, Length, Dir
    <3> QED
      BY <1>1, <1>2, <3>1 DEF NewNames, Named, Announcing, Add, Typed, tracker, transfer
  <2> QED
    BY <2>1, <2>2
<1> QED
  BY <1>3, <1>4, <1>5, <1>6, <1>7, <1>8, <1>9, <1>10, StepKeeps

LEMMA ImportStep ==
    ASSUME IInv, NEW p \in Peers, Import(p)
    PROVE  IInv'
<1>1. TypeOK /\ CallAt(p) /\ FileAt(p) /\ UploadAt(p) /\ RegisteredAt(p) /\ OwnersOK
  BY DEF IInv
<1>2. /\ pc[p] = "import" /\ call[p] = "none"
      /\ shared' \in [Peers -> Copy \cup {NoFile}] /\ spoiled' = spoiled /\ downloads' = downloads
      /\ pc' \in [Peers -> Stages] /\ call' \in [Peers -> Calls]
      /\ \/ /\ pc'[p] = "import" /\ call'[p] = call[p]
            /\ shared[p] < Size /\ shared[p] \in Nat /\ shared'[p] = shared[p] + 1
         \/ /\ shared'[p] = shared[p] /\ shared[p] = Size
            /\ \/ pc'[p] = "add" /\ call'[p] = "sent"
               \/ pc'[p] = "prompt" /\ call'[p] = call[p]
      /\ \A q \in Peers \ {p} : pc'[q] = pc[q] /\ call'[q] = call[q] /\ shared'[q] = shared[q]
  <2>1. pc[p] = "import" /\ shared[p] \in Copy /\ UNCHANGED <<downloads, spoiled>>
    BY <1>1 DEF Import, FileAt, TypeOK
  <2>2. call[p] = "none"
    BY <1>1, <2>1, NotRequests DEF CallAt
  <2>3. CASE /\ shared[p] < Size /\ shared' = [shared EXCEPT ![p] = @ + 1]
             /\ UNCHANGED <<pc, call>>
    <3>1. shared[p] + 1 \in Copy /\ shared[p] \in Nat
      BY <2>1, <2>3, WholeFileAssumption DEF Copy
    <3> QED
      BY <1>1, <2>1, <2>2, <2>3, <3>1 DEF TypeOK
  <2>4. CASE shared[p] = Size /\ Ask(p, "add") /\ UNCHANGED shared
    BY <1>1, <2>1, <2>2, <2>4, AskType DEF TypeOK, Requests
  <2> QED
    BY <2>3, <2>4 DEF Import
<1>3. TypeOK'
  BY <1>1, <1>2 DEF TypeOK, Import, tracker, transfer, bounds
<1>4. Others(p)
  BY <1>1, <1>2 DEF TypeOK, Others, Import, tracker, transfer
<1>5. Keeps
  BY <1>1, <1>2, WholeFileAssumption DEF Keeps, HasLocal
<1>6. Grows
  BY DEF Grows, Import, tracker
<1>7. CallAt(p)' /\ RegisteredAt(p)' /\ OwnersOK'
  BY <1>1, <1>2, NotRequests DEF CallAt, RegisteredAt, OwnersOK, Import, Requests, tracker
<1>8. FileAt(p)'
  BY <1>1, <1>2, WholeFileAssumption DEF FileAt, Import, transfer
<1>9. UploadAt(p)'
  BY <1>1, <1>2, <1>5, UploadStays DEF Import, transfer
<1>10. NewNames(p)
  <2>1. pc'[p] = "add" => Good(p)'
    BY <1>1, <1>2, WholeFileAssumption DEF Good, HasLocal, Local, Length, Dir
  <2> QED
    BY <1>1, <1>2, <2>1 DEF NewNames, Named, Announcing, Import, tracker, transfer
<1> QED
  BY <1>3, <1>4, <1>5, <1>6, <1>7, <1>8, <1>9, <1>10, StepKeeps

LEMMA WriteStep ==
    ASSUME IInv, NEW p \in Peers, Write(p)
    PROVE  IInv'
<1>1. TypeOK /\ CallAt(p) /\ FileAt(p) /\ UploadAt(p) /\ RegisteredAt(p) /\ OwnersOK
  BY DEF IInv
<1>2. /\ pc[p] = "write" /\ call[p] = "none" /\ data[p] \in Nat /\ data[p] <= Size
      /\ downloads' \in [Peers -> Copy \cup {NoFile}] /\ spoiled' = spoiled /\ shared' = shared
      /\ pc' \in [Peers -> Stages] /\ call' \in [Peers -> Calls] /\ data' \in [Peers -> Copy]
      /\ \/ /\ pc'[p] = "write" /\ call'[p] = call[p] /\ data'[p] = data[p]
            /\ downloads[p] < data[p] /\ downloads[p] \in Nat /\ downloads'[p] = downloads[p] + 1
         \/ /\ downloads'[p] = downloads[p] /\ downloads[p] = data[p]
            /\ \/ pc'[p] = "have" /\ call'[p] = "sent"
               \/ pc'[p] = "prompt" /\ call'[p] = call[p]
      /\ \A q \in Peers \ {p} : /\ pc'[q] = pc[q] /\ call'[q] = call[q]
                                /\ downloads'[q] = downloads[q] /\ data'[q] = data[q]
  <2>1. /\ pc[p] = "write" /\ downloads[p] \in Copy /\ UNCHANGED <<shared, spoiled>>
        /\ data[p] \in Copy /\ data[p] \in Nat /\ data[p] <= Size /\ 0 \in Copy
    BY <1>1, WholeFileAssumption DEF Write, FileAt, TypeOK, Copy
  <2>2. call[p] = "none"
    BY <1>1, <2>1, NotRequests DEF CallAt
  <2>3. CASE /\ downloads[p] < data[p] /\ downloads' = [downloads EXCEPT ![p] = @ + 1]
             /\ UNCHANGED <<pc, call, data>>
    <3>1. downloads[p] + 1 \in Copy /\ downloads[p] \in Nat
      BY <2>1, <2>3, WholeFileAssumption DEF Copy
    <3> QED
      BY <1>1, <2>1, <2>2, <2>3, <3>1 DEF TypeOK
  <2>4. CASE /\ downloads[p] = data[p] /\ Ask(p, "have") /\ UNCHANGED downloads
             /\ data' = [data EXCEPT ![p] = 0]
    BY <1>1, <2>1, <2>2, <2>4, AskType DEF TypeOK, Requests
  <2> QED
    BY <2>3, <2>4 DEF Write
<1>3. TypeOK'
  BY <1>1, <1>2 DEF TypeOK, Write, tracker, bounds
<1>4. Others(p)
  BY <1>1, <1>2 DEF TypeOK, Others, Write, tracker
<1>5. Keeps
  BY <1>1, <1>2, WholeFileAssumption DEF Keeps, HasLocal
<1>6. Grows
  BY DEF Grows, Write, tracker
<1>7. CallAt(p)' /\ RegisteredAt(p)' /\ OwnersOK'
  BY <1>1, <1>2, NotRequests DEF CallAt, RegisteredAt, OwnersOK, Write, Requests, tracker
<1>8. FileAt(p)'
  BY <1>1, <1>2, WholeFileAssumption DEF FileAt, Write
<1>9. UploadAt(p)'
  BY <1>1, <1>2, <1>5, UploadStays DEF Write
<1>10. NewNames(p)
  <2>1. pc'[p] = "have" => Good(p)'
    BY <1>1, <1>2, <1>8, WholeFileAssumption DEF Good, FileAt, HasLocal, Local, Length, Dir
  <2> QED
    BY <1>1, <1>2, <2>1 DEF NewNames, Named, Announcing, Write, tracker
<1> QED
  BY <1>3, <1>4, <1>5, <1>6, <1>7, <1>8, <1>9, <1>10, StepKeeps

LEMMA WriteFailsStep ==
    ASSUME IInv, NEW p \in Peers, WriteFails(p)
    PROVE  IInv'
<1>1. TypeOK /\ CallAt(p) /\ FileAt(p) /\ UploadAt(p) /\ RegisteredAt(p) /\ OwnersOK
  BY DEF IInv
<1>2. /\ pc[p] \in {"import", "write"} /\ pc'[p] = "prompt" /\ call[p] = "none"
      /\ pc' \in [Peers -> Stages] /\ data' \in [Peers -> Copy] /\ faults' \in 0 .. MaxFaults
      /\ spoiled' = TRUE /\ \A q \in Peers \ {p} : pc'[q] = pc[q] /\ data'[q] = data[q]
  <2>1. 0 \in Copy /\ call[p] = "none"
    BY <1>1, CopyType, NotRequests DEF CallAt, WriteFails
  <2> QED
    BY <1>1, <2>1, GotoType, Names, WholeFileAssumption DEF TypeOK, WriteFails
<1>3. TypeOK'
  BY <1>1, <1>2 DEF TypeOK, WriteFails, tracker, calls
<1>4. Others(p)
  BY <1>1, <1>2 DEF TypeOK, Others, WriteFails, tracker, calls
<1>5. Keeps
  BY <1>2 DEF Keeps, WriteFails
<1>6. Grows
  BY <1>2 DEF Grows, WriteFails, tracker, calls
<1>7. CallAt(p)' /\ RegisteredAt(p)' /\ OwnersOK'
  BY <1>1, <1>2, NotRequests, NothingTyped
  DEF CallAt, RegisteredAt, OwnersOK, WriteFails, tracker, calls
<1>8. FileAt(p)'
  BY <1>1, <1>2 DEF FileAt, WriteFails, tracker, calls
<1>9. UploadAt(p)'
  BY <1>1, <1>2, <1>5, UploadStays DEF WriteFails
<1>10. NewNames(p)
  BY <1>1, <1>2 DEF NewNames, Named, Announcing, Requests, WriteFails, tracker, calls
<1> QED
  BY <1>3, <1>4, <1>5, <1>6, <1>7, <1>8, <1>9, <1>10, StepKeeps

LEMMA ReturnStep ==
    ASSUME IInv, NEW p \in Peers, Return(p)
    PROVE  IInv'
<1>1. TypeOK /\ CallAt(p) /\ FileAt(p) /\ UploadAt(p) /\ RegisteredAt(p) /\ OwnersOK
  BY DEF IInv
<1>2. /\ call[p] = "done" /\ pc[p] \in Requests
      /\ pc' \in [Peers -> Stages] /\ call' \in [Peers -> Calls] /\ call'[p] = "none"
      /\ answer' \in [Peers -> [owners : SUBSET Peers, peers : SUBSET Peers]] /\ answer'[p] = Nothing
      /\ source' \in [Peers -> Peers \cup {NoPeer}]
      /\ \/ pc[p] = "query" /\ pc'[p] = "connect" /\ source'[p] \in answer[p].peers
         \/ pc'[p] = "prompt" /\ source'[p] = source[p]
      /\ \A q \in Peers \ {p} : /\ pc'[q] = pc[q] /\ call'[q] = call[q]
                                /\ answer'[q] = answer[q] /\ source'[q] = source[q]
  <2>1. call[p] = "done" /\ pc[p] \in Requests /\ answer[p].peers \subseteq Peers
    BY <1>1 DEF Return, CallAt, TypeOK
  <2>2. /\ call' = [call EXCEPT ![p] = "none"] /\ answer' = [answer EXCEPT ![p] = Nothing]
    BY DEF Return
  <2> HIDE DEF Nothing
  <2>3. /\ call' \in [Peers -> Calls] /\ call'[p] = "none"
        /\ answer' \in [Peers -> [owners : SUBSET Peers, peers : SUBSET Peers]]
        /\ answer'[p] = Nothing
        /\ \A q \in Peers \ {p} : call'[q] = call[q] /\ answer'[q] = answer[q]
    BY <1>1, <2>2, Names, NothingTyped DEF TypeOK
  <2>4. CASE /\ answer[p].peers # {} /\ pc[p] = "query"
             /\ Goto(p, "connect") /\ source' = [source EXCEPT ![p] = Source(p)]
    <3>1. Source(p) \in answer[p].peers
      BY <2>1, <2>4, SourceNamed
    <3> QED
      BY <1>1, <2>1, <2>3, <2>4, <3>1, GotoType, Names DEF TypeOK
  <2>5. CASE Goto(p, "prompt") /\ UNCHANGED source
    BY <1>1, <2>1, <2>3, <2>5, GotoType, Names DEF TypeOK
  <2> QED
    BY <2>4, <2>5 DEF Return
<1>3. TypeOK'
  BY <1>1, <1>2 DEF TypeOK, Return, tracker, disk, bounds
<1>4. Others(p)
  BY <1>1, <1>2 DEF TypeOK, Others, Return, tracker, disk
<1>5. Keeps
  BY DiskKept DEF Return, tracker, disk, bounds
<1>6. Grows
  BY <1>2 DEF Grows, Return, tracker, disk, bounds
<1>7. CallAt(p)' /\ RegisteredAt(p)' /\ OwnersOK'
  BY <1>1, <1>2, NothingTyped DEF CallAt, RegisteredAt, OwnersOK, Return, Requests, tracker
<1>8. FileAt(p)'
  BY <1>1, <1>2 DEF FileAt, Return, disk, Requests
<1>9. UploadAt(p)'
  <2>1. CASE pc'[p] = "connect"
    <3>1. source'[p] \in Peers /\ upload'[p] = "none"
      BY <1>1, <1>2, <2>1 DEF TypeOK, UploadAt, Return
    <3> QED
      BY <2>1, <3>1 DEF UploadAt
  <2>2. CASE pc'[p] = "prompt" /\ source'[p] = source[p]
    BY <1>1, <1>2, <1>5, <2>2, UploadStays DEF Return
  <2> QED
    BY <1>2, <2>1, <2>2
<1>10. NewNames(p)
  BY <1>1, <1>2 DEF NewNames, Named, Announcing, Return, tracker
<1> QED
  BY <1>3, <1>4, <1>5, <1>6, <1>7, <1>8, <1>9, <1>10, StepKeeps

LEMMA CallFailsStep ==
    ASSUME IInv, NEW p \in Peers, CallFails(p)
    PROVE  IInv'
<1>1. TypeOK /\ CallAt(p) /\ FileAt(p) /\ UploadAt(p) /\ RegisteredAt(p) /\ OwnersOK
  BY DEF IInv
<1>2. /\ call[p] # "none" /\ pc[p] \in Requests
      /\ pc' \in [Peers -> Stages] /\ call' \in [Peers -> Calls] /\ call'[p] = "none"
      /\ answer' \in [Peers -> [owners : SUBSET Peers, peers : SUBSET Peers]] /\ answer'[p] = Nothing
      /\ late' \subseteq Peers \X Announcements
      /\ pc'[p] \in {"failing", "prompt"} /\ (pc'[p] = "prompt" => pc[p] # "register")
      /\ \A q \in Peers \ {p} : pc'[q] = pc[q] /\ call'[q] = call[q] /\ answer'[q] = answer[q]
      /\ \A q \in Peers \ {p} :
            \A r \in Announcements : <<q, r>> \in late' => <<q, r>> \in late
      /\ \A r \in Announcements : <<p, r>> \in late' => <<p, r>> \in late \/ pc[p] = r
  <2>1. call[p] # "none" /\ pc[p] \in Requests /\ Abandon(p)
    BY <1>1 DEF CallFails, CallAt
  <2>2. CASE pc[p] = "register"
    BY <1>1, <2>1, <2>2, AbandonType, GotoType, Names DEF CallFails
  <2>3. CASE pc[p] # "register"
    BY <1>1, <2>1, <2>3, AbandonType, GotoType, Names DEF CallFails
  <2> QED
    BY <2>2, <2>3
<1>3. TypeOK'
  BY <1>1, <1>2 DEF TypeOK, CallFails, disk, transfer, bounds
<1>4. Others(p)
  BY <1>1, <1>2 DEF TypeOK, Others, CallFails, disk, transfer
<1>5. Keeps
  BY DiskKept DEF CallFails
<1>6. Grows
  BY DEF Grows, CallFails
<1>7. CallAt(p)' /\ RegisteredAt(p)' /\ OwnersOK'
  BY <1>1, <1>2, NotRequests, NothingTyped
  DEF CallAt, RegisteredAt, OwnersOK, CallFails, Requests, Announcements
<1>8. FileAt(p)'
  BY <1>1, <1>2 DEF FileAt, CallFails, disk, transfer, Requests
<1>9. UploadAt(p)'
  BY <1>1, <1>2, <1>5, UploadStays DEF CallFails, transfer
<1>10. NewNames(p)
  BY <1>1, <1>2 DEF NewNames, Named, Announcing, Announcements, CallFails, transfer
<1> QED
  BY <1>3, <1>4, <1>5, <1>6, <1>7, <1>8, <1>9, <1>10, StepKeeps

LEMMA ConnectStep ==
    ASSUME IInv, NEW p \in Peers, Connect(p)
    PROVE  IInv'
<1>1. TypeOK /\ CallAt(p) /\ FileAt(p) /\ UploadAt(p) /\ RegisteredAt(p) /\ OwnersOK
  BY DEF IInv
<1>2. /\ pc[p] = "connect" /\ call[p] = "none" /\ source[p] \in Peers
      /\ pc' \in [Peers -> Stages] /\ source' \in [Peers -> Peers \cup {NoPeer}]
      /\ upload' \in [Peers -> Uploads]
      /\ \/ pc'[p] = "download" /\ source'[p] = source[p] /\ upload'[p] = "asked"
         \/ pc'[p] = "prompt" /\ source'[p] = NoPeer /\ upload'[p] = "none"
      /\ \A q \in Peers \ {p} : pc'[q] = pc[q] /\ source'[q] = source[q] /\ upload'[q] = upload[q]
  <2>1. /\ pc[p] = "connect" /\ call[p] = "none" /\ source[p] \in Peers /\ upload[p] = "none"
    BY <1>1, NotRequests DEF Connect, CallAt, UploadAt
  <2>2. CASE /\ upload' = [upload EXCEPT ![p] = "asked"]
             /\ Goto(p, "download") /\ UNCHANGED source
    BY <1>1, <2>1, <2>2, GotoType, Names DEF TypeOK
  <2>3. CASE /\ source' = [source EXCEPT ![p] = NoPeer]
             /\ Goto(p, "prompt") /\ UNCHANGED upload
    BY <1>1, <2>1, <2>3, GotoType, Names DEF TypeOK
  <2> QED
    BY <2>2, <2>3 DEF Connect
<1>3. TypeOK'
  BY <1>1, <1>2 DEF TypeOK, Connect, tracker, calls, disk, bounds
<1>4. Others(p)
  BY <1>1, <1>2 DEF TypeOK, Others, Connect, tracker, calls, disk
<1>5. Keeps
  BY DiskKept DEF Connect
<1>6. Grows
  BY <1>2 DEF Grows, Connect, tracker, calls, disk, bounds
<1>7. CallAt(p)' /\ RegisteredAt(p)' /\ OwnersOK'
  BY <1>1, <1>2, NotRequests, NothingTyped
  DEF CallAt, RegisteredAt, OwnersOK, Connect, tracker, calls, disk, bounds
<1>8. FileAt(p)'
  BY <1>1, <1>2 DEF FileAt, Connect, tracker, calls, disk, bounds
<1>9. UploadAt(p)'
  BY <1>2 DEF UploadAt
<1>10. NewNames(p)
  BY <1>1, <1>2, WholeFileAssumption DEF NewNames, Named, Announcing, Connect, tracker, calls
<1> QED
  BY <1>3, <1>4, <1>5, <1>6, <1>7, <1>8, <1>9, <1>10, StepKeeps

LEMMA OpenStep ==
    ASSUME IInv, NEW p \in Peers, Open(p)
    PROVE  IInv'
<1>1. TypeOK /\ CallAt(p) /\ FileAt(p) /\ UploadAt(p) /\ RegisteredAt(p) /\ OwnersOK
  BY DEF IInv
<1>2. /\ upload[p] = "asked" /\ source[p] \in Peers
      /\ reads' \in [Peers -> {"shared", "downloads"}] /\ reads'[p] = Dir(source[p])
      /\ \/ upload'[p] = "reading" /\ HasLocal(source[p])
         \/ upload'[p] = "error"
      /\ pc[p] \notin {"query", "connect"}
      /\ upload' \in [Peers -> Uploads]
      /\ \A q \in Peers \ {p} : upload'[q] = upload[q] /\ reads'[q] = reads[q]
  <2>1. upload[p] = "asked" /\ source[p] \in Peers /\ pc[p] \notin {"query", "connect"}
    BY <1>1 DEF Open, UploadAt
  <2>2. Dir(source[p]) \in {"shared", "downloads"}
    BY DEF Dir
  <2>3. CASE HasLocal(source[p])
    BY <1>1, <2>1, <2>2, <2>3, Names DEF TypeOK, Open
  <2>4. CASE ~HasLocal(source[p])
    BY <1>1, <2>1, <2>2, <2>4, Names DEF TypeOK, Open
  <2> QED
    BY <2>3, <2>4
<1>3. TypeOK'
  BY <1>1, <1>2 DEF TypeOK, Open, tracker, calls, disk, bounds
<1>4. Others(p)
  BY <1>1, <1>2 DEF TypeOK, Others, Open, tracker, calls, disk, bounds
<1>5. Keeps
  BY DiskKept DEF Open, tracker, calls, disk, bounds
<1>6. Grows
  BY <1>2 DEF Grows, Open, tracker, calls, disk, bounds
<1>7. CallAt(p)' /\ RegisteredAt(p)' /\ OwnersOK'
  BY <1>1, <1>2, NotRequests, NothingTyped
  DEF CallAt, RegisteredAt, OwnersOK, Open, tracker, calls, disk, bounds
<1>8. FileAt(p)'
  BY <1>1, <1>2 DEF FileAt, Open, tracker, calls, disk, bounds
<1>9. UploadAt(p)'
  <2>1. UNCHANGED <<source, shared, downloads, spoiled, pc>>
    BY DEF Open, disk
  <2>2. CASE upload'[p] = "reading" /\ HasLocal(source[p])
    <3>1. Good(source[p])
      BY <1>2 DEF IInv, NamedOK, Named
    <3>2. Length(source[p], Dir(source[p])) # NoFile
      BY <2>2 DEF HasLocal, Length, Dir
    <3>3. /\ Length(source[p], reads[p])' # NoFile
          /\ ~spoiled' => Length(source[p], reads[p])' = Size
      BY <1>2, <2>1, <3>1, <3>2 DEF Good, Local, Length
    <3> QED
      BY <1>2, <2>1, <2>2, <3>3 DEF UploadAt
  <2>3. CASE upload'[p] = "error"
    BY <1>2, <2>1, <2>3 DEF UploadAt
  <2> QED
    BY <1>2, <2>2, <2>3
<1>10. NewNames(p)
  BY <1>1, <1>2 DEF NewNames, Named, Announcing, Requests, Open, tracker, calls, disk, bounds
<1> QED
  BY <1>3, <1>4, <1>5, <1>6, <1>7, <1>8, <1>9, <1>10, StepKeeps

LEMMA ReadEndStep ==
    ASSUME IInv, NEW p \in Peers, ReadEnd(p)
    PROVE  IInv'
<1>1. TypeOK /\ CallAt(p) /\ FileAt(p) /\ UploadAt(p) /\ RegisteredAt(p) /\ OwnersOK
  BY DEF IInv
<1>2. /\ upload[p] = "reading" /\ source[p] \in Peers /\ upload'[p] = "sending"
      /\ ~spoiled => sent[p] = Size
      /\ pc[p] \notin {"query", "connect"}
      /\ upload' \in [Peers -> Uploads]
      /\ \A q \in Peers \ {p} : upload'[q] = upload[q]
  <2>1. /\ upload[p] = "reading" /\ source[p] \in Peers
        /\ sent[p] >= Length(source[p], reads[p]) /\ pc[p] \notin {"query", "connect"}
    BY <1>1 DEF ReadEnd, UploadAt
  <2>2. sent[p] \in 0 .. Size
    BY <1>1 DEF TypeOK, Copy
  <2>3. ~spoiled => sent[p] = Size
    BY <1>1, <2>1, <2>2, WholeFileAssumption DEF UploadAt
  <2> QED
    BY <1>1, <2>1, <2>3, Names DEF TypeOK, ReadEnd
<1>3. TypeOK'
  BY <1>1, <1>2 DEF TypeOK, ReadEnd, tracker, calls, disk, bounds
<1>4. Others(p)
  BY <1>1, <1>2 DEF TypeOK, Others, ReadEnd, tracker, calls, disk, bounds
<1>5. Keeps
  BY DiskKept DEF ReadEnd, tracker, calls, disk, bounds
<1>6. Grows
  BY <1>2 DEF Grows, ReadEnd, tracker, calls, disk, bounds
<1>7. CallAt(p)' /\ RegisteredAt(p)' /\ OwnersOK'
  BY <1>1, <1>2, NotRequests, NothingTyped
  DEF CallAt, RegisteredAt, OwnersOK, ReadEnd, tracker, calls, disk, bounds
<1>8. FileAt(p)'
  BY <1>1, <1>2 DEF FileAt, ReadEnd, tracker, calls, disk, bounds
<1>9. UploadAt(p)'
  BY <1>1, <1>2 DEF UploadAt, ReadEnd, disk
<1>10. NewNames(p)
  BY <1>1, <1>2 DEF NewNames, Named, Announcing, Requests, ReadEnd, tracker, calls, disk, bounds
<1> QED
  BY <1>3, <1>4, <1>5, <1>6, <1>7, <1>8, <1>9, <1>10, StepKeeps

LEMMA ReadStep ==
    ASSUME IInv, NEW p \in Peers, Read(p)
    PROVE  IInv'
<1>1. TypeOK /\ CallAt(p) /\ FileAt(p) /\ UploadAt(p) /\ RegisteredAt(p) /\ OwnersOK
  BY DEF IInv
<1>2. /\ sent' \in [Peers -> Copy] /\ \A q \in Peers \ {p} : sent'[q] = sent[q]
      /\ upload[p] = "reading"
  <2>1. upload[p] = "reading" /\ source[p] \in Peers /\ Length(source[p], reads[p]) # NoFile
    BY <1>1 DEF Read, UploadAt
  <2>2. Length(source[p], reads[p]) \in Copy
    BY <1>1, <2>1, CopyType
  <2> QED
    BY <1>1, <2>1, <2>2 DEF TypeOK, Read
<1>3. TypeOK'
  BY <1>1, <1>2 DEF TypeOK, Read, tracker, calls, disk, bounds
<1>4. Others(p)
  BY <1>1, <1>2 DEF TypeOK, Others, Read, tracker, calls, disk, bounds
<1>5. Keeps
  BY DiskKept DEF Read, tracker, calls, disk, bounds
<1>6. Grows
  BY <1>2 DEF Grows, Read, tracker, calls, disk, bounds
<1>7. CallAt(p)' /\ RegisteredAt(p)' /\ OwnersOK'
  BY <1>1, <1>2, NotRequests, NothingTyped
  DEF CallAt, RegisteredAt, OwnersOK, Read, tracker, calls, disk, bounds
<1>8. FileAt(p)'
  BY <1>1, <1>2 DEF FileAt, Read, tracker, calls, disk, bounds
<1>9. UploadAt(p)'
  BY <1>1, <1>2 DEF UploadAt, Read, Length, disk
<1>10. NewNames(p)
  BY <1>1, <1>2 DEF NewNames, Named, Announcing, Requests, Read, tracker, calls, disk, bounds
<1> QED
  BY <1>3, <1>4, <1>5, <1>6, <1>7, <1>8, <1>9, <1>10, StepKeeps

LEMMA UploadEndsStep ==
    ASSUME IInv, NEW p \in Peers, UploadEnds(p)
    PROVE  IInv'
<1>1. TypeOK /\ CallAt(p) /\ FileAt(p) /\ UploadAt(p) /\ RegisteredAt(p) /\ OwnersOK
  BY DEF IInv
<1>2. /\ pc[p] # "connect"
      /\ upload' \in [Peers -> Uploads] /\ upload'[p] = "none"
      /\ source' \in [Peers -> Peers \cup {NoPeer}] /\ source'[p] = NoPeer
      /\ reads' \in [Peers -> {"shared", "downloads"}] /\ sent' \in [Peers -> Copy]
      /\ \A q \in Peers \ {p} : /\ upload'[q] = upload[q] /\ source'[q] = source[q]
                                /\ reads'[q] = reads[q] /\ sent'[q] = sent[q]
  <2>1. upload[p] # "none" /\ NoUpload(p)
    BY DEF UploadEnds
  <2>2. pc[p] # "connect"
    BY <1>1, <2>1 DEF UploadAt
  <2> QED
    BY <1>1, <2>1, <2>2, NoUploadType
<1>3. TypeOK'
  BY <1>1, <1>2 DEF TypeOK, UploadEnds, tracker, calls, disk, bounds
<1>4. Others(p)
  BY <1>1, <1>2 DEF TypeOK, Others, UploadEnds, tracker, calls, disk, bounds
<1>5. Keeps
  BY DiskKept DEF UploadEnds, tracker, calls, disk, bounds
<1>6. Grows
  BY <1>2 DEF Grows, UploadEnds, tracker, calls, disk, bounds
<1>7. CallAt(p)' /\ RegisteredAt(p)' /\ OwnersOK'
  BY <1>1, <1>2, NotRequests, NothingTyped
  DEF CallAt, RegisteredAt, OwnersOK, UploadEnds, tracker, calls, disk, bounds
<1>8. FileAt(p)'
  BY <1>1, <1>2 DEF FileAt, UploadEnds, tracker, calls, disk, bounds
<1>9. UploadAt(p)'
  BY <1>2 DEF UploadAt, UploadEnds
<1>10. NewNames(p)
  BY <1>1, <1>2, WholeFileAssumption DEF NewNames, Named, Announcing, UploadEnds, tracker, calls
<1> QED
  BY <1>3, <1>4, <1>5, <1>6, <1>7, <1>8, <1>9, <1>10, StepKeeps

LEMMA ReceiveStep ==
    ASSUME IInv, NEW p \in Peers, Receive(p)
    PROVE  IInv'
<1>1. TypeOK /\ CallAt(p) /\ FileAt(p) /\ UploadAt(p) /\ RegisteredAt(p) /\ OwnersOK
  BY DEF IInv
<1>2. /\ pc[p] = "download" /\ pc'[p] = "write" /\ call[p] = "none"
      /\ source[p] \in Peers /\ data'[p] = sent[p] /\ (~spoiled => sent[p] = Size)
      /\ downloads'[p] = 0 /\ 0 # NoFile /\ shared' = shared
      /\ spoiled' \in BOOLEAN /\ (spoiled \/ downloads[p] # NoFile => spoiled')
      /\ pc' \in [Peers -> Stages] /\ data' \in [Peers -> Copy]
      /\ downloads' \in [Peers -> Copy \cup {NoFile}]
      /\ upload' \in [Peers -> Uploads] /\ upload'[p] = "none"
      /\ source' \in [Peers -> Peers \cup {NoPeer}] /\ source'[p] = NoPeer
      /\ reads' \in [Peers -> {"shared", "downloads"}] /\ sent' \in [Peers -> Copy]
      /\ \A q \in Peers \ {p} : /\ upload'[q] = upload[q] /\ source'[q] = source[q]
                                /\ reads'[q] = reads[q] /\ sent'[q] = sent[q]
      /\ \A q \in Peers \ {p} : /\ pc'[q] = pc[q] /\ data'[q] = data[q]
                                /\ downloads'[q] = downloads[q]
  <2>1. /\ pc[p] = "download" /\ upload[p] = "sending" /\ call[p] = "none"
        /\ NoUpload(p) /\ Goto(p, "write") /\ 0 \in Copy /\ 0 # NoFile /\ sent[p] \in Copy
    BY <1>1, CopyType, NotRequests, WholeFileAssumption DEF Receive, CallAt, TypeOK
  <2>2. /\ pc' \in [Peers -> Stages] /\ pc'[p] = "write"
        /\ \A q \in Peers \ {p} : pc'[q] = pc[q]
    BY <1>1, <2>1, GotoType, Names
  <2>3. source[p] \in Peers /\ (~spoiled => sent[p] = Size)
    BY <1>1, <2>1 DEF UploadAt
  <2>4. /\ data' \in [Peers -> Copy] /\ downloads' \in [Peers -> Copy \cup {NoFile}]
        /\ data'[p] = sent[p] /\ downloads'[p] = 0
        /\ \A q \in Peers \ {p} : data'[q] = data[q] /\ downloads'[q] = downloads[q]
    BY <1>1, <2>1 DEF TypeOK, Receive
  <2>5. spoiled' \in BOOLEAN /\ (spoiled \/ downloads[p] # NoFile => spoiled') /\ shared' = shared
    BY <1>1 DEF TypeOK, Receive
  <2> QED
    BY <1>1, <2>1, <2>2, <2>3, <2>4, <2>5, NoUploadType
<1>3. TypeOK'
  BY <1>1, <1>2 DEF TypeOK, Receive, tracker, calls, bounds
<1>4. Others(p)
  BY <1>1, <1>2 DEF TypeOK, Others, Receive, tracker, calls
<1>5. Keeps
  BY <1>1, <1>2, WholeFileAssumption DEF Keeps, HasLocal
<1>6. Grows
  BY DEF Grows, Receive, tracker
<1>7. CallAt(p)' /\ RegisteredAt(p)' /\ OwnersOK'
  BY <1>1, <1>2, NotRequests DEF CallAt, RegisteredAt, OwnersOK, Receive, tracker, calls
<1>8. FileAt(p)'
  BY <1>1, <1>2 DEF FileAt
<1>9. UploadAt(p)'
  BY <1>2 DEF UploadAt
<1>10. NewNames(p)
  BY <1>1, <1>2, WholeFileAssumption DEF NewNames, Named, Announcing, Receive, tracker, calls
<1> QED
  BY <1>3, <1>4, <1>5, <1>6, <1>7, <1>8, <1>9, <1>10, StepKeeps

LEMMA DownloadFailsStep ==
    ASSUME IInv, NEW p \in Peers, DownloadFails(p)
    PROVE  IInv'
<1>1. TypeOK /\ CallAt(p) /\ FileAt(p) /\ UploadAt(p) /\ RegisteredAt(p) /\ OwnersOK
  BY DEF IInv
<1>2. /\ pc[p] = "download" /\ pc'[p] = "prompt" /\ call[p] = "none"
      /\ pc' \in [Peers -> Stages] /\ \A q \in Peers \ {p} : pc'[q] = pc[q]
      /\ \/ NoUpload(p)
         \/ UNCHANGED <<source, upload, reads, sent>>
  <2>1. pc[p] = "download" /\ Goto(p, "prompt") /\ call[p] = "none"
    BY <1>1, NotRequests DEF DownloadFails, CallAt
  <2> QED
    BY <1>1, <2>1, GotoType, Names DEF DownloadFails
<1>3. TypeOK'
  <2>1. /\ source' \in [Peers -> Peers \cup {NoPeer}] /\ upload' \in [Peers -> Uploads]
        /\ reads' \in [Peers -> {"shared", "downloads"}] /\ sent' \in [Peers -> Copy]
    BY <1>1, <1>2, NoUploadType DEF TypeOK
  <2> QED
    BY <1>1, <1>2, <2>1 DEF TypeOK, DownloadFails, tracker, calls, disk, bounds
<1>4. Others(p)
  BY <1>1, <1>2, NoUploadType DEF Others, DownloadFails, tracker, calls, disk
<1>5. Keeps
  BY DiskKept DEF DownloadFails
<1>6. Grows
  BY <1>2 DEF Grows, DownloadFails, tracker, calls, disk, bounds
<1>7. CallAt(p)' /\ RegisteredAt(p)' /\ OwnersOK'
  BY <1>1, <1>2, NotRequests, NothingTyped
  DEF CallAt, RegisteredAt, OwnersOK, DownloadFails, tracker, calls, disk, bounds
<1>8. FileAt(p)'
  BY <1>1, <1>2 DEF FileAt, DownloadFails, tracker, calls, disk, bounds
<1>9. UploadAt(p)'
  <2>1. CASE NoUpload(p)
    BY <1>1, <1>2, <2>1, NoUploadType DEF UploadAt
  <2>2. CASE UNCHANGED <<source, upload, reads, sent>>
    BY <1>1, <1>2, <1>5, <2>2, UploadStays
  <2> QED
    BY <1>2, <2>1, <2>2
<1>10. NewNames(p)
  <2>1. \A q \in Peers : source'[p] = q => source[p] = q
    BY <1>1, <1>2, NoUploadType, WholeFileAssumption
  <2> QED
    BY <1>1, <1>2, <2>1 DEF NewNames, Named, Announcing, DownloadFails, tracker, calls
<1> QED
  BY <1>3, <1>4, <1>5, <1>6, <1>7, <1>8, <1>9, <1>10, StepKeeps

LEMMA EndStep ==
    ASSUME IInv, NEW p \in Peers, End(p)
    PROVE  IInv'
<1>1. TypeOK /\ CallAt(p) /\ FileAt(p) /\ UploadAt(p) /\ RegisteredAt(p) /\ OwnersOK
  BY DEF IInv
<1>2. /\ pc[p] \in {"closing", "failing"} /\ pc'[p] = "down"
      /\ pc' \in [Peers -> Stages] /\ \A q \in Peers \ {p} : pc'[q] = pc[q]
  BY <1>1, GotoType, Names DEF End
<1>3. TypeOK'
  BY <1>1, <1>2 DEF TypeOK, End, tracker, calls, disk, transfer, bounds
<1>4. Others(p)
  BY <1>1, <1>2 DEF TypeOK, Others, End, tracker, calls, disk, transfer, bounds
<1>5. Keeps
  BY DiskKept DEF End, tracker, calls, disk, transfer, bounds
<1>6. Grows
  BY <1>2 DEF Grows, End, tracker, calls, disk, transfer, bounds
<1>7. CallAt(p)' /\ RegisteredAt(p)' /\ OwnersOK'
  BY <1>1, <1>2, NotRequests DEF CallAt, RegisteredAt, OwnersOK, End, tracker, calls
<1>8. FileAt(p)'
  BY <1>1, <1>2 DEF FileAt, End, tracker, calls, disk, transfer, bounds
<1>9. UploadAt(p)'
  BY <1>1, <1>2, <1>5, UploadStays DEF End, tracker, calls, disk, transfer, bounds
<1>10. NewNames(p)
  BY <1>1, <1>2
  DEF NewNames, Named, Announcing, Requests, End, tracker, calls, disk, transfer, bounds
<1> QED
  BY <1>3, <1>4, <1>5, <1>6, <1>7, <1>8, <1>9, <1>10, StepKeeps

LEMMA StopStep ==
    ASSUME IInv, NEW p \in Peers, Stop(p)
    PROVE  IInv'
<1>1. TypeOK /\ CallAt(p) /\ FileAt(p) /\ UploadAt(p) /\ RegisteredAt(p) /\ OwnersOK
  BY DEF IInv
<1>2. /\ pc'[p] = "down"
      /\ pc' \in [Peers -> Stages] /\ \A q \in Peers \ {p} : pc'[q] = pc[q]
      /\ Abandon(p) /\ faults' \in 0 .. MaxFaults /\ UNCHANGED <<trackerUp, peers, owners, restarted>>
      /\ UNCHANGED <<shared, downloads, reads, sent>>
      /\ data' \in [Peers -> Copy] /\ \A q \in Peers \ {p} : data'[q] = data[q]
      /\ upload' \in [Peers -> Uploads]
      /\ \A q \in Peers : upload'[q] = upload[q] \/ (upload'[q] = "cut" /\ upload[q] # "none")
      /\ source' \in [Peers -> Peers \cup {NoPeer}]
      /\ \A q \in Peers : source'[q] # source[q] => q = p /\ pc[p] = "connect" /\ source'[p] = NoPeer
      /\ spoiled' \in BOOLEAN /\ (spoiled \/ pc[p] \in {"import", "write"} => spoiled')
  <2>1. /\ Goto(p, "down") /\ Abandon(p) /\ 0 \in Copy
        /\ UNCHANGED <<trackerUp, peers, owners, restarted, shared, downloads, reads, sent>>
    BY <1>1, CopyType DEF Stop
  <2>2. faults' \in 0 .. MaxFaults
    BY <1>1, WholeFileAssumption DEF Stop, TypeOK
  <2>3. data' \in [Peers -> Copy] /\ \A q \in Peers \ {p} : data'[q] = data[q]
    BY <1>1, <2>1 DEF Stop, TypeOK
  <2>4. /\ upload' \in [Peers -> Uploads]
        /\ \A q \in Peers : upload'[q] = upload[q] \/ (upload'[q] = "cut" /\ upload[q] # "none")
    BY <1>1, Names DEF Stop, TypeOK
  <2>5. /\ source' \in [Peers -> Peers \cup {NoPeer}]
        /\ \A q \in Peers : source'[q] # source[q] =>
              q = p /\ pc[p] = "connect" /\ source'[p] = NoPeer
    BY <1>1 DEF Stop, TypeOK
  <2>6. spoiled' \in BOOLEAN /\ (spoiled \/ pc[p] \in {"import", "write"} => spoiled')
    BY <1>1 DEF Stop, TypeOK
  <2> QED
    BY <1>1, <2>1, <2>2, <2>3, <2>4, <2>5, <2>6, GotoType, Names
<1>3. TypeOK'
  BY <1>1, <1>2, AbandonType DEF TypeOK, Stop
<1>4. Others(p)
  BY <1>1, <1>2, AbandonType DEF Others
<1>5. Keeps
  BY <1>2 DEF Keeps, HasLocal
<1>6. Grows
  BY <1>2 DEF Grows
<1>7. CallAt(p)' /\ RegisteredAt(p)' /\ OwnersOK'
  <2>1. \A r \in Announcements : <<p, r>> \in late' => <<p, r>> \in late \/ pc[p] = r
    BY <1>1, <1>2, AbandonType
  <2>2. call'[p] = "none" /\ answer'[p] = Nothing
    BY <1>1, <1>2, AbandonType
  <2> QED
    BY <1>1, <1>2, <2>1, <2>2 DEF CallAt, RegisteredAt, OwnersOK, Announcements
<1>8. FileAt(p)'
  BY <1>1, <1>2 DEF FileAt
<1>9. UploadAt(p)'
  <2>1. CASE source'[p] = source[p]
    <3>1. upload'[p] = "cut" => source'[p] \in Peers
      BY <1>1, <1>2, <2>1 DEF UploadAt
    <3> QED
      BY <1>2, <1>5, <2>1, <3>1, UploadStays
  <2>2. CASE source'[p] # source[p]
    <3>1. pc[p] = "connect" /\ upload[p] = "none"
      BY <1>1, <1>2, <2>2 DEF UploadAt
    <3> QED
      BY <1>2, <3>1 DEF UploadAt
  <2> QED
    BY <2>1, <2>2
<1>10. NewNames(p)
  <2>1. Announcing(p)' => Announcing(p)
    BY <1>1, <1>2, AbandonType DEF Announcing, Announcements
  <2>2. \A q \in Peers : source'[p] = q => source[p] = q
    BY <1>2, WholeFileAssumption
  <2> QED
    BY <1>1, <1>2, <2>1, <2>2 DEF NewNames, Named
<1> QED
  BY <1>3, <1>4, <1>5, <1>6, <1>7, <1>8, <1>9, <1>10, StepKeeps

(* The tracker stops: all requests break off. *)
LEMMA TrackerStopStep ==
    ASSUME IInv, TrackerStop
    PROVE  IInv'
<1>1. /\ trackerUp' = FALSE /\ peers' = {} /\ owners' = {} /\ late' = {} /\ restarted' = TRUE
      /\ UNCHANGED <<pc, answer, disk, transfer, commands>>
      /\ faults < MaxFaults /\ faults' = faults + 1
  BY DEF TrackerStop
<1>2. /\ call' \in [Peers -> Calls]
      /\ \A p \in Peers :
            \/ call'[p] = "cut" /\ call[p] \in {"sent", "listing"}
            \/ call'[p] = call[p] /\ call[p] \notin {"sent", "listing"}
  <2>1. call \in [Peers -> Calls]
    BY DEF IInv, TypeOK
  <2>2. call' = [p \in Peers |-> IF call[p] \in {"sent", "listing"} THEN "cut" ELSE call[p]]
    BY DEF TrackerStop
  <2>3. ASSUME NEW p \in Peers
        PROVE  /\ call'[p] \in Calls
               /\ \/ call'[p] = "cut" /\ call[p] \in {"sent", "listing"}
                  \/ call'[p] = call[p] /\ call[p] \notin {"sent", "listing"}
    <3>1. CASE call[p] \in {"sent", "listing"}
      BY <2>2, <3>1, Names
    <3>2. CASE call[p] \notin {"sent", "listing"}
      BY <2>1, <2>2, <3>2
    <3> QED
      BY <3>1, <3>2
  <2>4. call' = [p \in Peers |-> call'[p]]
    BY <2>2
  <2>5. call' \in [Peers -> Calls]
    BY <2>3, <2>4
  <2> QED
    BY <2>3, <2>5
<1>3. TypeOK'
  <2>1. faults' \in 0 .. MaxFaults
    BY <1>1, WholeFileAssumption DEF IInv, TypeOK
  <2> QED
    BY <1>1, <1>2, <2>1 DEF IInv, TypeOK, disk, transfer
<1>4. ASSUME NEW p \in Peers
      PROVE  CallAt(p)' /\ FileAt(p)' /\ UploadAt(p)' /\ RegisteredAt(p)'
  <2>1. CallAt(p) /\ FileAt(p) /\ UploadAt(p)
    BY DEF IInv
  <2>2. CallAt(p)' /\ FileAt(p)' /\ RegisteredAt(p)'
    BY <1>1, <1>2, <2>1 DEF CallAt, FileAt, RegisteredAt, disk, transfer
  <2>3. UploadAt(p)'
    BY <1>1, <2>1, DiskKept, UploadStays DEF transfer
  <2> QED
    BY <2>2, <2>3
<1>5. NamedOK'
  <2> SUFFICES ASSUME NEW q \in Peers, Named(q)'
               PROVE  Good(q)'
    BY DEF NamedOK
  <2>1. Named(q)
    BY <1>1 DEF Named, Announcing, transfer
  <2> QED
    BY <1>1, <2>1, DiskKept, GoodStays DEF IInv, NamedOK
<1>6. OwnersOK'
  BY <1>1 DEF OwnersOK
<1> QED
  BY <1>3, <1>4, <1>5, <1>6 DEF IInv

(* A step that changes nothing but trackerUp. *)
LEMMA Unchanged ==
    ASSUME IInv, trackerUp' \in BOOLEAN,
           UNCHANGED <<peers, owners, late, restarted, pc, calls, disk, transfer, bounds>>
    PROVE  IInv'
<1>1. TypeOK' /\ OwnersOK'
  BY DEF IInv, TypeOK, OwnersOK, calls, disk, transfer, bounds
<1>2. ASSUME NEW p \in Peers
      PROVE  CallAt(p)' /\ FileAt(p)' /\ UploadAt(p)' /\ RegisteredAt(p)'
  <2>1. CallAt(p) /\ FileAt(p) /\ RegisteredAt(p)
    BY DEF IInv
  <2>2. CallAt(p)' /\ FileAt(p)' /\ RegisteredAt(p)'
    BY <2>1 DEF CallAt, FileAt, RegisteredAt, calls, disk, transfer
  <2> QED
    BY <2>2, DiskKept, UploadStays DEF transfer
<1>3. NamedOK'
  BY DiskKept, GoodStays DEF IInv, NamedOK, Named, Announcing, calls, transfer
<1> QED
  BY <1>1, <1>2, <1>3 DEF IInv

LEMMA InvInit == Init => IInv
<1> SUFFICES ASSUME Init PROVE IInv
  OBVIOUS
<1>1. 0 \in Copy /\ NoFile \notin Copy
  BY WholeFileAssumption DEF Copy
<1>2. TypeOK
  <2>1. answer \in [Peers -> [owners : SUBSET Peers, peers : SUBSET Peers]]
    <3> HIDE DEF Nothing
    <3> QED
      BY NothingTyped DEF Init
  <2>2. commands \in 0 .. MaxCommands /\ faults \in 0 .. MaxFaults
    BY WholeFileAssumption DEF Init
  <2>3. pc \in [Peers -> Stages] /\ call \in [Peers -> Calls] /\ upload \in [Peers -> Uploads]
    BY Names DEF Init
  <2> QED
    BY <1>1, <2>1, <2>2, <2>3 DEF Init, TypeOK
<1>3. ASSUME NEW p \in Peers
      PROVE  CallAt(p) /\ FileAt(p) /\ UploadAt(p) /\ RegisteredAt(p)
  BY <1>3, NothingTyped DEF Init, CallAt, FileAt, UploadAt, RegisteredAt
<1>4. OwnersOK /\ NamedOK
  BY WholeFileAssumption DEF Init, OwnersOK, NamedOK, Named, Announcing
<1> QED
  BY <1>2, <1>3, <1>4 DEF IInv

LEMMA InvNext == IInv /\ [Next]_vars => IInv'
<1> SUFFICES ASSUME IInv, [Next]_vars PROVE IInv'
  OBVIOUS
<1>1. CASE TrackerStop
  BY <1>1, TrackerStopStep
<1>2. CASE TrackerStart
  BY <1>2, Unchanged DEF TrackerStart, bounds
<1>3. CASE UNCHANGED vars
  BY <1>3, Unchanged DEF vars, tracker, IInv, TypeOK
<1>4. ASSUME NEW p \in Peers,
             \/ Start(p) \/ Add(p) \/ Have(p) \/ List(p) \/ Download(p) \/ Quit(p)
             \/ WriteFails(p) \/ Stop(p)
      PROVE  IInv'
  BY <1>4, StartStep, AddStep, HaveStep, ListStep, DownloadStep, QuitStep, WriteFailsStep,
     StopStep
<1>5. ASSUME NEW p \in Peers, TrackerStep(p)
      PROVE  IInv'
  BY <1>5, HandleStep, HandleQueryStep, ListFilesStep, ListPeersStep, HandleLateStep
  DEF TrackerStep
<1>6. ASSUME NEW p \in Peers, PeerStep(p)
      PROVE  IInv'
  BY <1>6, CallFailsStep, ReturnStep, ImportStep, WriteStep, ConnectStep, ReceiveStep,
     DownloadFailsStep, EndStep
  DEF PeerStep
<1>7. ASSUME NEW p \in Peers, UploadStep(p)
      PROVE  IInv'
  BY <1>7, OpenStep, ReadStep, ReadEndStep, UploadEndsStep DEF UploadStep
<1> QED
  BY <1>1, <1>2, <1>3, <1>4, <1>5, <1>6, <1>7 DEF Next, Quiet

LEMMA InvAlways == Spec => []IInv
BY InvInit, InvNext, PTL DEF Spec

-----------------------------------------------------------------------------
(* The theorems *)

(* No table, answer, file or thread is ever in a state that the code has no
   place for: no copy is longer than the file. *)
THEOREM WholeFileTypes == Spec => []TypeOK
<1>1. IInv => TypeOK
  BY DEF IInv
<1> QED
  BY <1>1, InvAlways, PTL

(* Whoever is listed, about to be, or asked for the file has a copy of it,
   whichever requests are late, lost or repeated. *)
THEOREM ListedHaveFile == Spec => []ListedHasFile
<1>1. IInv => ListedHasFile
  BY DEF IInv, NamedOK, Named, Good, ListedHasFile
<1> QED
  BY <1>1, InvAlways, PTL

(* What is listed and what is sent is whole, until a copy is downloaded or
   imported over, or a write breaks off. *)
THEOREM WholeCopies == Spec => []WholeUnlessSpoiled
<1>1. IInv => WholeUnlessSpoiled
  BY DEF IInv, NamedOK, Named, Good, UploadAt, FileAt, WholeUnlessSpoiled
<1> QED
  BY <1>1, InvAlways, PTL

(* QUERY leaves out no owner, and LIST counts no fewer peers than own what it
   lists, until the tracker is restarted. *)
THEOREM CompleteAnswers == Spec => []AnswersComplete
<1>1. IInv => AnswersComplete
  BY DEF IInv, RegisteredAt, AnswersComplete
<1> QED
  BY <1>1, InvAlways, PTL

-----------------------------------------------------------------------------
(* The swarm is a PieceDirectory with one piece *)

Holders == {p \in Peers : HasLocal(p)}

(* The ways in which a step may change holders and owners. *)
LEMMA StepNothing ==
    ASSUME Holders' = Holders, owners' = owners
    PROVE  UNCHANGED Directory!dvars
BY DEF Directory!dvars, Holders

LEMMA StepList ==
    ASSUME NEW p \in Peers, HasLocal(p), Holders' = Holders, owners' = owners \cup {p}
    PROVE  Directory!Next
<1>1. Directory!List(p, {0})
  <2>1. {0} \X {p} \subseteq {0} \X Holders
    BY DEF Holders
  <2>2. {0} \X owners' = ({0} \X owners) \cup ({0} \X {p})
    OBVIOUS
  <2> QED
    BY <2>1, <2>2 DEF Directory!List, Holders
<1>2. {0} \in SUBSET {0}
  OBVIOUS
<1> QED
  BY <1>1, <1>2 DEF Directory!Next

LEMMA StepPublish ==
    ASSUME NEW p \in Peers, p \in Seeds, Holders' = Holders \cup {p}, owners' = owners
    PROVE  Directory!Next
<1>1. {0} \X Holders' = ({0} \X Holders) \cup {<<0, p>>}
  OBVIOUS
<1>2. Directory!Publish(p, 0)
  BY <1>1 DEF Directory!Publish, Holders
<1> QED
  BY <1>2 DEF Directory!Next

LEMMA StepAcquire ==
    ASSUME NEW p \in Peers, NEW q \in Peers, HasLocal(q),
           Holders' = Holders \cup {p}, owners' = owners
    PROVE  Directory!Next
<1>1. {0} \X Holders' = ({0} \X Holders) \cup {<<0, p>>}
  OBVIOUS
<1>2. <<0, q>> \in {0} \X Holders
  BY DEF Holders
<1>3. Directory!Acquire(p, 0)
  BY <1>1, <1>2 DEF Directory!Acquire, Holders
<1> QED
  BY <1>3 DEF Directory!Next

LEMMA StepForget ==
    ASSUME Holders' = Holders, owners' = {}
    PROVE  Directory!Next
<1>1. Directory!Forget
  BY DEF Directory!Forget, Holders
<1> QED
  BY <1>1 DEF Directory!Next

(* What the tracker does with an announcement *)
LEMMA ApplyLists ==
    ASSUME IInv, NEW p \in Peers, NEW r \in Announcements, Apply(p, r), UNCHANGED disk,
           r \in {"add", "have"} => Announcing(p)
    PROVE  Directory!Next \/ UNCHANGED Directory!dvars
<1>1. Holders' = Holders
  BY DEF disk, Holders, HasLocal
<1>2. CASE owners' = owners
  BY <1>1, <1>2, StepNothing
<1>3. CASE owners' = owners \cup {p} /\ r \in {"add", "have"}
  <2>1. HasLocal(p)
    BY <1>3 DEF IInv, NamedOK, Named, Good
  <2> QED
    BY <1>1, <1>3, <2>1, StepList
<1> QED
  BY <1>2, <1>3 DEF Apply, Announcements

LEMMA StepImplements ==
    ASSUME IInv, [Next]_vars
    PROVE  Directory!Next \/ UNCHANGED Directory!dvars
<1>1. CASE UNCHANGED disk /\ owners' = owners
  <2>1. Holders' = Holders
    BY <1>1 DEF disk, Holders, HasLocal
  <2> QED
    BY <1>1, <2>1, StepNothing
<1>2. ASSUME NEW p \in Peers, Handle(p)
      PROVE  Directory!Next \/ UNCHANGED Directory!dvars
  <2>1. pc[p] \in Announcements /\ Apply(p, pc[p]) /\ UNCHANGED disk
    BY <1>2 DEF Handle, Announcements
  <2> QED
    BY <2>1, ApplyLists DEF Announcing
<1>3. ASSUME NEW p \in Peers, NEW r \in Announcements, HandleLate(p, r)
      PROVE  Directory!Next \/ UNCHANGED Directory!dvars
  <2>1. Apply(p, r) /\ UNCHANGED disk /\ <<p, r>> \in late
    BY <1>3 DEF HandleLate
  <2> QED
    BY <2>1, ApplyLists DEF Announcing
<1>4. CASE TrackerStop
  <2>1. Holders' = Holders /\ owners' = {}
    BY <1>4 DEF TrackerStop, disk, Holders, HasLocal
  <2> QED
    BY <2>1, StepForget
<1>5. ASSUME NEW p \in Peers, Add(p)
      PROVE  Directory!Next \/ UNCHANGED Directory!dvars
  <2>1. p \in Seeds /\ owners' = owners
    BY <1>5 DEF Add, Typed, tracker
  <2>2. CASE shared' = [shared EXCEPT ![p] = 0] /\ downloads' = downloads
    <3>1. Holders' = Holders \cup {p}
      BY <2>2, WholeFileAssumption DEF Holders, HasLocal, IInv, TypeOK
    <3> QED
      BY <2>1, <3>1, StepPublish
  <2>3. CASE UNCHANGED disk
    BY <1>1, <2>1, <2>3
  <2> QED
    BY <1>5, <2>2, <2>3 DEF Add
<1>6. ASSUME NEW p \in Peers, Import(p)
      PROVE  Directory!Next \/ UNCHANGED Directory!dvars
  <2>1. shared[p] \in Copy /\ pc[p] = "import"
    BY <1>6 DEF IInv, FileAt, TypeOK, Import
  <2>2. \A q \in Peers : HasLocal(q)' <=> HasLocal(q)
    <3>1. shared[p] # NoFile /\ shared[p] + 1 # NoFile
      BY <2>1, WholeFileAssumption DEF Copy
    <3>2. downloads' = downloads /\ (shared' = [shared EXCEPT ![p] = @ + 1] \/ shared' = shared)
      BY <1>6 DEF Import
    <3> QED
      BY <3>1, <3>2 DEF HasLocal, IInv, TypeOK
  <2> QED
    BY <1>6, <2>2, StepNothing DEF Import, tracker, Holders
<1>7. ASSUME NEW p \in Peers, Write(p)
      PROVE  Directory!Next \/ UNCHANGED Directory!dvars
  <2>1. downloads[p] \in Copy /\ pc[p] = "write"
    BY <1>7 DEF IInv, FileAt, TypeOK, Write
  <2>2. \A q \in Peers : HasLocal(q)' <=> HasLocal(q)
    <3>1. downloads[p] # NoFile /\ downloads[p] + 1 # NoFile
      BY <2>1, WholeFileAssumption DEF Copy
    <3>2. shared' = shared /\ (downloads' = [downloads EXCEPT ![p] = @ + 1] \/ downloads' = downloads)
      BY <1>7 DEF Write
    <3> QED
      BY <3>1, <3>2 DEF HasLocal, IInv, TypeOK
  <2> QED
    BY <1>7, <2>2, StepNothing DEF Write, tracker, Holders
<1>8. ASSUME NEW p \in Peers, Receive(p)
      PROVE  Directory!Next \/ UNCHANGED Directory!dvars
  <2>1. source[p] \in Peers /\ HasLocal(source[p])
    BY <1>8 DEF Receive, IInv, UploadAt, NamedOK, Named, Good
  <2>2. owners' = owners /\ shared' = shared /\ downloads' = [downloads EXCEPT ![p] = 0]
    BY <1>8 DEF Receive, tracker
  <2>3. Holders' = Holders \cup {p}
    BY <2>2, WholeFileAssumption DEF Holders, HasLocal, IInv, TypeOK
  <2> QED
    BY <2>1, <2>2, <2>3, StepAcquire
<1>9. ASSUME NEW p \in Peers, WriteFails(p) \/ Stop(p)
      PROVE  Directory!Next \/ UNCHANGED Directory!dvars
  BY <1>9, StepNothing DEF WriteFails, Stop, tracker, Holders, HasLocal
<1>10. ASSUME NEW p \in Peers,
              \/ Start(p) \/ Have(p) \/ List(p) \/ Download(p) \/ Quit(p)
              \/ HandleQuery(p) \/ ListFiles(p) \/ ListPeers(p)
              \/ CallFails(p) \/ Return(p) \/ Connect(p) \/ DownloadFails(p) \/ End(p)
              \/ UploadStep(p)
       PROVE  UNCHANGED disk /\ owners' = owners
  BY <1>10
  DEF Start, Have, List, Download, Quit, Typed, HandleQuery, ListFiles, ListPeers, CallFails, Return,
      Connect, DownloadFails, End, UploadStep, Open, Read, ReadEnd, UploadEnds, tracker
<1>11. CASE TrackerStart \/ UNCHANGED vars
  BY <1>1, <1>11 DEF TrackerStart, vars, tracker
<1>12. ASSUME NEW p \in Peers, TrackerStep(p)
       PROVE  Directory!Next \/ UNCHANGED Directory!dvars
  BY <1>1, <1>2, <1>3, <1>10, <1>12 DEF TrackerStep, Announcements
<1> QED
  BY <1>1, <1>4, <1>5, <1>6, <1>7, <1>8, <1>9, <1>10, <1>11, <1>12 DEF Next, PeerStep, Quiet

(* Every behaviour of tracker, peers, disks and connections, with all faults,
   is one of PieceDirectory: copies come from seeds and from holders, and only
   holders are listed. *)
THEOREM SwarmIsDirectory == Spec => ImplementsDirectory
<1>1. Init => Directory!Init
  <2>1. Init => {0} \X {p \in Peers : HasLocal(p)} = {} /\ {0} \X owners = {}
    BY DEF Init, HasLocal
  <2> QED
    BY <2>1 DEF Directory!Init
<1>2. IInv /\ [Next]_vars => [Directory!Next]_(Directory!dvars)
  BY StepImplements
<1> QED
  BY <1>1, <1>2, InvAlways, PTL DEF Spec, ImplementsDirectory, Directory!Spec

(* What PieceDirectory promises holds of the tracker and the peers: whatever
   was killed, timed out or came late, a seed still has a copy when anyone has. *)
Promises == INSTANCE PieceDirectoryProofs
    WITH PieceIds <- {0}, held <- {0} \X Holders, listed <- {0} \X owners

COROLLARY CopiesFromSeeds ==
    Spec => [](Directory!TypeOK /\ Directory!FromSeeds /\ Directory!ListedAtSeed)
<1>1. Directory!Init => Promises!Init
  BY DEF Directory!Init, Promises!Init, Holders
<1>2. [Directory!Next]_(Directory!dvars) => [Promises!Next]_(Promises!dvars)
  BY DEF Directory!Next, Directory!Publish, Directory!Acquire, Directory!List, Directory!Forget,
         Directory!dvars, Promises!Next, Promises!Publish, Promises!Acquire, Promises!List,
         Promises!Forget, Promises!dvars, Holders
<1>3. Promises!TypeOK /\ Promises!FromSeeds
        => Directory!TypeOK /\ Directory!FromSeeds /\ Directory!ListedAtSeed
  BY DEF Promises!TypeOK, Promises!FromSeeds, Directory!TypeOK, Directory!FromSeeds,
         Directory!ListedAtSeed, Holders
<1>4. Directory!Spec => Promises!Spec
  BY <1>1, <1>2, PTL DEF Directory!Spec, Promises!Spec
<1>5. Promises!Spec => []Promises!TypeOK /\ []Promises!FromSeeds
  BY Promises!ListedIsHeld, Promises!HeldBySeeds, PTL
<1> QED
  BY <1>3, <1>4, <1>5, SwarmIsDirectory, PTL DEF ImplementsDirectory
=============================================================================
