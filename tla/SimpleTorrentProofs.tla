------------------------- MODULE SimpleTorrentProofs -------------------------
(* Proofs about SimpleTorrent for every set of peers and seeds, every length
   of the file, and every number of commands and stops. *)
EXTENDS SimpleTorrent, TLAPS

-----------------------------------------------------------------------------
(* The inductive invariant.  A peer has a file from the first recv on, and one
   that it announces; a thread that serves knows its source; nothing is counted
   as received outside the receiving loop. *)
ThreadAt(p) ==
    /\ pc[p] \in {"receiving", "update"} => Has(p)
    /\ pc[p] = "connect" => source[p] # NoPeer
    /\ upload[p] \in {"asked", "open"} => source[p] # NoPeer
    /\ pc[p] = "receiving" => upload[p] \in {"open", "closed"}
    /\ pc[p] # "receiving" => received[p] = 0

(* While nothing is spoiled, a copy is whole or is being received; then it is
   what has been received, and nobody has been told of it; and what a source
   gives as the length is the length of the file. *)
WholeAt(p) ==
    /\ Has(p) /\ pc[p] # "receiving" => share[p] = Size
    /\ pc[p] = "receiving" => /\ share[p] = received[p]
                              /\ p \notin Listed
                              /\ \A q \in Peers : source[q] # p
    /\ upload[p] \in {"open", "closed"} => filesize[p] = Size

TorrentInv == /\ TypeOK
              /\ ListedHasFile
              /\ \A p \in Peers : ThreadAt(p)
              /\ ~spoiled => \A p \in Peers : WholeAt(p)

-----------------------------------------------------------------------------
(* The list *)

(* A peer that joins is listed afterwards, once, and with whoever was before. *)
LEMMA JoinListed ==
    ASSUME NEW p \in Peers, Join(p), file_data \in Seq(Peers), IsInjective(file_data)
    PROVE  file_data' \in Seq(Peers) /\ IsInjective(file_data') /\ Listed' = Listed \cup {p}
<1>1. CASE p \in Listed
  BY <1>1 DEF Join, Listed
<1>2. CASE p \notin Listed
  <2>1. file_data' = Append(file_data, p)
    BY <1>2 DEF Join
  <2>2. /\ file_data' \in Seq(Peers) /\ Len(file_data') = Len(file_data) + 1
        /\ \A k \in 1 .. Len(file_data) : file_data'[k] = file_data[k]
        /\ file_data'[Len(file_data) + 1] = p
    BY <2>1
  <2>3. \A k \in 1 .. Len(file_data) : file_data[k] # p
    BY <1>2 DEF Listed
  <2>4. DOMAIN file_data' = 1 .. Len(file_data) + 1 /\ DOMAIN file_data = 1 .. Len(file_data)
    BY <2>2
  <2>5. IsInjective(file_data')
    BY <2>2, <2>3, <2>4 DEF IsInjective
  <2>6. Listed' = Listed \cup {p}
    <3>1. Listed' = {file_data'[k] : k \in 1 .. Len(file_data) + 1}
      BY <2>2 DEF Listed
    <3>2. 1 .. Len(file_data) + 1 = (1 .. Len(file_data)) \cup {Len(file_data) + 1}
      BY <2>2
    <3> QED
      BY <2>2, <3>1, <3>2 DEF Listed
  <2> QED
    BY <2>2, <2>5, <2>6
<1> QED
  BY <1>1, <1>2

(* The first of the list is in it, and an empty list names nobody. *)
LEMMA HeadListed ==
    ASSUME file_data \in Seq(Peers), file_data # <<>>
    PROVE  Head(file_data) \in Listed
<1>1. Len(file_data) \in Nat /\ Len(file_data) # 0
  BY SMT
<1>2. Head(file_data) = file_data[1] /\ 1 \in 1 .. Len(file_data)
  BY <1>1
<1> QED
  BY <1>2 DEF Listed

LEMMA NobodyListed ==
    ASSUME file_data' = <<>>
    PROVE  /\ file_data' \in Seq(Peers) /\ IsInjective(file_data')
           /\ Listed' = {}
<1>1. Len(file_data') = 0 /\ DOMAIN file_data' = {}
  OBVIOUS
<1> QED
  BY <1>1 DEF Listed, IsInjective

(* Peers that are listed are peers. *)
LEMMA ListedPeers ==
    ASSUME TypeOK
    PROVE  Listed \subseteq Peers
BY DEF TypeOK, Listed

(* Lengths. *)
LEMMA Lengths == 0 \in Copy /\ Copy \subseteq Nat /\ NoFile \notin Copy
BY TorrentAssumption DEF Copy

-----------------------------------------------------------------------------
(* The steps: each keeps the types, then what is known of the listed, of the
   threads, and of the copies. *)

LEMMA DieStep ==
    ASSUME TorrentInv, NEW p \in Peers, Die(p), UNCHANGED <<file_data, trackerUp, share>>,
           commands' \in 0 .. MaxCommands, stops' \in 0 .. MaxStops
    PROVE  TorrentInv'
<1>1. /\ TypeOK /\ ListedHasFile
      /\ \A q \in Peers : ThreadAt(q)
      /\ ~spoiled => \A q \in Peers : WholeAt(q)
  BY DEF TorrentInv
<1> USE Lengths, TorrentAssumption
<1>2. Listed' = Listed
  BY DEF Listed, Die, Goto
<1>3. TypeOK'
  BY <1>1 DEF TypeOK, Die, Goto
<1>4. ListedHasFile'
  BY <1>2, <1>1, ListedPeers DEF TypeOK, ListedHasFile, ThreadAt, Has, Die, Goto
<1>5. ASSUME NEW q \in Peers
      PROVE  ThreadAt(q)'
  BY <1>1, <1>5 DEF TypeOK, ListedHasFile, ThreadAt, Has, Die, Goto
<1>6. ASSUME ~spoiled', NEW q \in Peers
      PROVE  WholeAt(q)'
  <2>1. CASE q = p
    BY <1>2, <1>1, <1>6, <2>1 DEF TypeOK, ThreadAt, WholeAt, Has, Die, Goto
  <2>2. CASE q # p
    BY <1>2, <1>1, <1>6, <2>2 DEF TypeOK, WholeAt, Has, Die, Goto
  <2> QED
    BY <2>1, <2>2
<1> QED
  BY <1>3, <1>4, <1>5, <1>6 DEF TorrentInv

LEMMA StartStep ==
    ASSUME TorrentInv, NEW p \in Peers, Start(p)
    PROVE  TorrentInv'
<1>1. /\ TypeOK /\ ListedHasFile
      /\ \A q \in Peers : ThreadAt(q)
      /\ ~spoiled => \A q \in Peers : WholeAt(q)
  BY DEF TorrentInv
<1> USE Lengths, TorrentAssumption
<1>2. /\ file_data' \in Seq(Peers) /\ IsInjective(file_data')
      /\ Listed' = Listed \cup (IF Has(p) THEN {p} ELSE {})
  <2>1. file_data \in Seq(Peers) /\ IsInjective(file_data)
    BY <1>1 DEF TypeOK
  <2>2. CASE Has(p)
    BY <2>1, <2>2, JoinListed DEF Start
  <2>3. CASE ~Has(p)
    BY <2>1, <2>3 DEF Start, Listed
  <2> QED
    BY <2>2, <2>3
<1>3. TypeOK'
  BY <1>1, <1>2 DEF TypeOK, Start, Goto, download, bounds
<1>4. ListedHasFile'
  BY <1>2, <1>1, ListedPeers DEF TypeOK, ListedHasFile, Has, Start, Goto, download
<1>5. ASSUME NEW q \in Peers
      PROVE  ThreadAt(q)'
  BY <1>1, <1>5 DEF TypeOK, ListedHasFile, ThreadAt, Has, Start, Goto, download, bounds
<1>6. ASSUME ~spoiled', NEW q \in Peers
      PROVE  WholeAt(q)'
  BY <1>2, <1>1, <1>6 DEF TypeOK, ListedHasFile, ThreadAt, WholeAt, Has, Start, Goto, download
<1> QED
  BY <1>3, <1>4, <1>5, <1>6 DEF TorrentInv

LEMMA ListenStep ==
    ASSUME TorrentInv, NEW p \in Peers, Listen(p)
    PROVE  TorrentInv'
<1>1. /\ TypeOK /\ ListedHasFile
      /\ \A q \in Peers : ThreadAt(q)
      /\ ~spoiled => \A q \in Peers : WholeAt(q)
  BY DEF TorrentInv
<1> USE Lengths, TorrentAssumption
<1>2. Listed' = Listed
  BY DEF Listed, Listen, tracker, download, bounds
<1>3. TypeOK'
  BY <1>1 DEF TypeOK, Listen, tracker, download, bounds
<1>4. ListedHasFile'
  BY <1>2, <1>1, ListedPeers
    DEF TypeOK, ListedHasFile, ThreadAt, Has, Listen, tracker, download, bounds
<1>5. ASSUME NEW q \in Peers
      PROVE  ThreadAt(q)'
  BY <1>1, <1>5 DEF TypeOK, ListedHasFile, ThreadAt, Has, Listen, tracker, download, bounds
<1>6. ASSUME ~spoiled', NEW q \in Peers
      PROVE  WholeAt(q)'
  BY <1>2, <1>1, <1>6
    DEF TypeOK, ListedHasFile, ThreadAt, WholeAt, Has, Listen, tracker, download, bounds
<1> QED
  BY <1>3, <1>4, <1>5, <1>6 DEF TorrentInv

LEMMA AskStep ==
    ASSUME TorrentInv, NEW p \in Peers, Type(p), trackerUp, commands' \in 0 .. MaxCommands,
          stops' \in 0 .. MaxStops
    PROVE  TorrentInv'
<1>1. /\ TypeOK /\ ListedHasFile
      /\ \A q \in Peers : ThreadAt(q)
      /\ ~spoiled => \A q \in Peers : WholeAt(q)
  BY DEF TorrentInv
<1> USE Lengths, TorrentAssumption
<1>2. Listed' = Listed
  BY DEF Listed, Type, Goto, tracker, download
<1>3. TypeOK'
  BY <1>1 DEF TypeOK, Type, Goto, tracker, download
<1>4. ListedHasFile'
  BY <1>2, <1>1, ListedPeers
    DEF TypeOK, ListedHasFile, ThreadAt, Has, Type, Goto, tracker, download
<1>5. ASSUME NEW q \in Peers
      PROVE  ThreadAt(q)'
  BY <1>1, <1>5 DEF TypeOK, ListedHasFile, ThreadAt, Has, Type, Goto, tracker, download
<1>6. ASSUME ~spoiled', NEW q \in Peers
      PROVE  WholeAt(q)'
  BY <1>2, <1>1, <1>6
    DEF TypeOK, ListedHasFile, ThreadAt, WholeAt, Has, Type, Goto, tracker, download
<1> QED
  BY <1>3, <1>4, <1>5, <1>6 DEF TorrentInv

LEMMA AnswerStep ==
    ASSUME TorrentInv, NEW p \in Peers, Answer(p)
    PROVE  TorrentInv'
<1>1. /\ TypeOK /\ ListedHasFile
      /\ \A q \in Peers : ThreadAt(q)
      /\ ~spoiled => \A q \in Peers : WholeAt(q)
  BY DEF TorrentInv
<1> USE Lengths, TorrentAssumption
<1>2. Listed' = Listed
  BY DEF Listed, Answer, tracker, Goto, bounds
<1>3. /\ pc'[p] = (IF file_data = <<>> THEN "idle" ELSE "connect")
      /\ \A q \in Peers \ {p} : pc'[q] = pc[q]
  BY <1>1 DEF TypeOK, Answer, Goto
<1>4. /\ source' \in [Peers -> Peers \cup {NoPeer}]
      /\ source'[p] = source[p] \/ source'[p] \in Listed
      /\ pc'[p] = "connect" => source'[p] # NoPeer
      /\ \A q \in Peers \ {p} : source'[q] = source[q]
  <2>1. /\ source \in [Peers -> Peers \cup {NoPeer}] /\ file_data \in Seq(Peers)
    BY <1>1 DEF TypeOK
  <2>2. CASE file_data = <<>>
    BY <1>3, <2>1, <2>2 DEF Answer
  <2>3. CASE file_data # <<>>
    <3>1. Head(file_data) \in Listed \cap Peers
      BY <1>1, <2>1, <2>3, HeadListed, ListedPeers
    <3> QED
      BY <1>3, <2>1, <2>3, <3>1, TorrentAssumption DEF Answer
  <2> QED
    BY <2>2, <2>3
<1>5. TypeOK'
  BY <1>1, <1>4 DEF TypeOK, Answer, tracker, Goto, bounds
<1>6. ListedHasFile'
  BY <1>2, <1>1, <1>4, ListedPeers DEF TypeOK, ListedHasFile, Has, Answer, tracker, bounds
<1>7. ASSUME NEW q \in Peers
      PROVE  ThreadAt(q)'
  BY <1>1, <1>4, <1>7 DEF TypeOK, ThreadAt, Has, Answer, Goto
<1>8. ASSUME ~spoiled', NEW q \in Peers
      PROVE  WholeAt(q)'
  BY <1>2, <1>1, <1>4, <1>3, <1>8, ListedPeers DEF TypeOK, WholeAt, Has, Answer
<1> QED
  BY <1>5, <1>6, <1>7, <1>8 DEF TorrentInv

LEMMA RefusedStep ==
    ASSUME TorrentInv, NEW p \in Peers, Refused(p)
    PROVE  TorrentInv'
<1>1. /\ TypeOK /\ ListedHasFile
      /\ \A q \in Peers : ThreadAt(q)
      /\ ~spoiled => \A q \in Peers : WholeAt(q)
  BY DEF TorrentInv
<1>2. Listed' = Listed
  BY DEF Listed, Refused, tracker
<1>3. TypeOK'
  BY <1>1 DEF TypeOK, Refused, Goto, tracker, download, bounds
<1>4. ListedHasFile'
  BY <1>1, <1>2 DEF ListedHasFile, Has, Refused, download
<1>5. ASSUME NEW q \in Peers
      PROVE  ThreadAt(q)'
  BY <1>1 DEF TypeOK, ThreadAt, Has, Refused, Goto, download
<1>6. ASSUME ~spoiled', NEW q \in Peers
      PROVE  WholeAt(q)'
  BY <1>1, <1>2, <1>6 DEF TypeOK, WholeAt, Has, Refused, Goto, download
<1> QED
  BY <1>3, <1>4, <1>5, <1>6 DEF TorrentInv

LEMMA NoHeaderStep ==
    ASSUME TorrentInv, NEW p \in Peers, NoHeader(p)
    PROVE  TorrentInv'
<1>1. /\ TypeOK /\ ListedHasFile
      /\ \A q \in Peers : ThreadAt(q)
      /\ ~spoiled => \A q \in Peers : WholeAt(q)
  BY DEF TorrentInv
<1> USE Lengths, TorrentAssumption
<1>2. Listed' = Listed
  BY DEF Listed, NoHeader, Goto, Hangup, tracker, bounds
<1>3. TypeOK'
  BY <1>1 DEF TypeOK, NoHeader, Goto, Hangup, tracker, bounds
<1>4. ListedHasFile'
  BY <1>2, <1>1, ListedPeers
    DEF TypeOK, ListedHasFile, ThreadAt, Has, NoHeader, Goto, Hangup, tracker, bounds
<1>5. ASSUME NEW q \in Peers
      PROVE  ThreadAt(q)'
  BY <1>1, <1>5 DEF TypeOK, ListedHasFile, ThreadAt, Has, NoHeader, Goto, Hangup, tracker, bounds
<1>6. ASSUME ~spoiled', NEW q \in Peers
      PROVE  WholeAt(q)'
  BY <1>2, <1>1, <1>6
    DEF TypeOK, ListedHasFile, ThreadAt, WholeAt, Has, NoHeader, Goto, Hangup, tracker, bounds
<1> QED
  BY <1>3, <1>4, <1>5, <1>6 DEF TorrentInv

LEMMA HeaderStep ==
    ASSUME TorrentInv, NEW p \in Peers, Header(p)
    PROVE  TorrentInv'
<1>1. /\ TypeOK /\ ListedHasFile
      /\ \A q \in Peers : ThreadAt(q)
      /\ ~spoiled => \A q \in Peers : WholeAt(q)
  BY DEF TorrentInv
<1> USE Lengths, TorrentAssumption
<1>2. Listed' = Listed
  BY DEF Listed, Header, Goto, tracker, download, bounds
<1>3. /\ share' \in [Peers -> Copy \cup {NoFile}] /\ share'[p] = 0 /\ 0 # NoFile
      /\ \A q \in Peers \ {p} : share'[q] = share[q]
      /\ source' = source /\ received' = received
  BY <1>1 DEF TypeOK, Header, download
<1>4. TypeOK'
  BY <1>1 DEF TypeOK, Header, Goto, tracker, download, bounds
<1>5. ListedHasFile'
  BY <1>2, <1>1, <1>3, ListedPeers DEF TypeOK, ListedHasFile, Has
<1>6. ASSUME NEW q \in Peers
      PROVE  ThreadAt(q)'
  BY <1>1, <1>6 DEF TypeOK, ListedHasFile, ThreadAt, Has, Header, Goto, tracker, download, bounds
<1>7. ASSUME ~spoiled', NEW q \in Peers
      PROVE  WholeAt(q)'
  <2>1. /\ pc[p] = "header" /\ pc'[p] = "receiving" /\ upload' = upload /\ filesize' = filesize
        /\ \A r \in Peers \ {p} : pc'[r] = pc[r]
        /\ ~spoiled /\ ~Has(p) /\ received[p] = 0
    BY <1>1, <1>7 DEF TypeOK, ThreadAt, Header, Goto, download
  <2>2. p \notin Listed /\ \A r \in Peers : source[r] # p
    BY <1>1, <2>1, ListedPeers DEF TypeOK, ListedHasFile
  <2>3. CASE q = p
    BY <1>2, <1>1, <1>3, <2>1, <2>2, <2>3 DEF WholeAt
  <2>4. CASE q # p
    BY <1>2, <1>1, <1>3, <2>1, <2>4 DEF WholeAt, Has
  <2> QED
    BY <2>3, <2>4
<1> QED
  BY <1>4, <1>5, <1>6, <1>7 DEF TorrentInv

LEMMA ReceiveStep ==
    ASSUME TorrentInv, NEW p \in Peers, Receive(p)
    PROVE  TorrentInv'
<1>1. /\ TypeOK /\ ListedHasFile
      /\ \A q \in Peers : ThreadAt(q)
      /\ ~spoiled => \A q \in Peers : WholeAt(q)
  BY DEF TorrentInv
<1> USE TorrentAssumption DEF Copy
<1>2. Listed' = Listed
  BY DEF Listed, Receive, tracker, bounds
<1>3. /\ Has(p) => share'[p] # NoFile
      /\ \A q \in Peers \ {p} : share'[q] = share[q]
  BY <1>1 DEF TypeOK, Receive
<1>4. TypeOK'
  BY <1>1 DEF TypeOK, Receive, tracker, bounds
<1>5. ListedHasFile'
  BY <1>2, <1>1, <1>3, ListedPeers DEF TypeOK, ListedHasFile, Has, Receive
<1>6. ASSUME NEW q \in Peers
      PROVE  ThreadAt(q)'
  BY <1>1, <1>6 DEF TypeOK, ListedHasFile, ThreadAt, Has, Receive, tracker, bounds
<1>7. ASSUME ~spoiled', NEW q \in Peers
      PROVE  WholeAt(q)'
  BY <1>2, <1>1, <1>7 DEF TypeOK, ListedHasFile, ThreadAt, WholeAt, Has, Receive, tracker, bounds
<1> QED
  BY <1>4, <1>5, <1>6, <1>7 DEF TorrentInv

LEMMA ReceivedStep ==
    ASSUME TorrentInv, NEW p \in Peers, Received(p)
    PROVE  TorrentInv'
<1>1. /\ TypeOK /\ ListedHasFile
      /\ \A q \in Peers : ThreadAt(q)
      /\ ~spoiled => \A q \in Peers : WholeAt(q)
  BY DEF TorrentInv
<1> USE TorrentAssumption DEF Copy
<1>2. Listed' = Listed
  BY DEF Listed, Received, Goto, Hangup, tracker, bounds
<1>3. TypeOK'
  BY <1>1 DEF TypeOK, Received, Goto, Hangup, tracker, bounds
<1>4. ListedHasFile'
  BY <1>2, <1>1, ListedPeers
    DEF TypeOK, ListedHasFile, ThreadAt, Has, Received, Goto, Hangup, tracker, bounds
<1>5. ASSUME NEW q \in Peers
      PROVE  ThreadAt(q)'
  BY <1>1, <1>5 DEF TypeOK, ListedHasFile, ThreadAt, Has, Received, Goto, Hangup, tracker, bounds
<1>6. ASSUME ~spoiled', NEW q \in Peers
      PROVE  WholeAt(q)'
  BY <1>2, <1>1, <1>6
    DEF TypeOK, ListedHasFile, ThreadAt, WholeAt, Has, Received, Goto, Hangup, tracker, bounds
<1> QED
  BY <1>3, <1>4, <1>5, <1>6 DEF TorrentInv

LEMMA SendHeaderStep ==
    ASSUME TorrentInv, NEW p \in Peers, SendHeader(p)
    PROVE  TorrentInv'
<1>1. /\ TypeOK /\ ListedHasFile
      /\ \A q \in Peers : ThreadAt(q)
      /\ ~spoiled => \A q \in Peers : WholeAt(q)
  BY DEF TorrentInv
<1> USE Lengths, TorrentAssumption
<1>2. Listed' = Listed
  BY DEF Listed, SendHeader, tracker, bounds
<1>3. share[source[p]] \in Copy
  BY <1>1 DEF TypeOK, ThreadAt, ListedHasFile, Has, SendHeader
<1>4. TypeOK'
  BY <1>1, <1>3 DEF TypeOK, SendHeader, tracker, bounds
<1>5. ListedHasFile'
  BY <1>2, <1>1, ListedPeers DEF TypeOK, ListedHasFile, ThreadAt, Has, SendHeader, tracker, bounds
<1>6. ASSUME NEW q \in Peers
      PROVE  ThreadAt(q)'
  BY <1>1, <1>6 DEF TypeOK, ListedHasFile, ThreadAt, Has, SendHeader, tracker, bounds
<1>7. ASSUME ~spoiled', NEW q \in Peers
      PROVE  WholeAt(q)'
  BY <1>2, <1>1, <1>7
    DEF TypeOK, ListedHasFile, ThreadAt, WholeAt, Has, SendHeader, tracker, bounds
<1> QED
  BY <1>4, <1>5, <1>6, <1>7 DEF TorrentInv

LEMMA SendDataStep ==
    ASSUME TorrentInv, NEW p \in Peers, SendData(p)
    PROVE  TorrentInv'
<1>1. /\ TypeOK /\ ListedHasFile
      /\ \A q \in Peers : ThreadAt(q)
      /\ ~spoiled => \A q \in Peers : WholeAt(q)
  BY DEF TorrentInv
<1> USE TorrentAssumption DEF Copy
<1>2. Listed' = Listed
  BY DEF Listed, SendData, tracker, bounds
<1>3. share[source[p]] \in Copy
  BY <1>1 DEF TypeOK, ThreadAt, ListedHasFile, Has, SendData
<1>4. sent[p] + 1 \in Copy
  BY <1>1, <1>3 DEF TypeOK, SendData
<1>5. TypeOK'
  BY <1>1, <1>4 DEF TypeOK, SendData, tracker, bounds
<1>6. ListedHasFile'
  BY <1>2, <1>1, ListedPeers DEF TypeOK, ListedHasFile, ThreadAt, Has, SendData, tracker, bounds
<1>7. ASSUME NEW q \in Peers
      PROVE  ThreadAt(q)'
  BY <1>1, <1>7 DEF TypeOK, ListedHasFile, ThreadAt, Has, SendData, tracker, bounds
<1>8. ASSUME ~spoiled', NEW q \in Peers
      PROVE  WholeAt(q)'
  BY <1>2, <1>1, <1>8 DEF TypeOK, ListedHasFile, ThreadAt, WholeAt, Has, SendData, tracker, bounds
<1> QED
  BY <1>5, <1>6, <1>7, <1>8 DEF TorrentInv

LEMMA EndOfFileStep ==
    ASSUME TorrentInv, NEW p \in Peers, EndOfFile(p)
    PROVE  TorrentInv'
<1>1. /\ TypeOK /\ ListedHasFile
      /\ \A q \in Peers : ThreadAt(q)
      /\ ~spoiled => \A q \in Peers : WholeAt(q)
  BY DEF TorrentInv
<1> USE TorrentAssumption DEF Copy
<1>2. Listed' = Listed
  BY DEF Listed, EndOfFile, tracker, bounds
<1>3. TypeOK'
  BY <1>1 DEF TypeOK, EndOfFile, tracker, bounds
<1>4. ListedHasFile'
  BY <1>2, <1>1, ListedPeers DEF TypeOK, ListedHasFile, ThreadAt, Has, EndOfFile, tracker, bounds
<1>5. ASSUME NEW q \in Peers
      PROVE  ThreadAt(q)'
  BY <1>1, <1>5 DEF TypeOK, ListedHasFile, ThreadAt, Has, EndOfFile, tracker, bounds
<1>6. ASSUME ~spoiled', NEW q \in Peers
      PROVE  WholeAt(q)'
  BY <1>2, <1>1, <1>6
    DEF TypeOK, ListedHasFile, ThreadAt, WholeAt, Has, EndOfFile, tracker, bounds
<1> QED
  BY <1>3, <1>4, <1>5, <1>6 DEF TorrentInv

LEMMA ConnectsStep ==
    ASSUME TorrentInv, NEW p \in Peers, pc[p] = "connect", listening[source[p]], Connect(p)
    PROVE  TorrentInv'
<1>1. /\ TypeOK /\ ListedHasFile
      /\ \A q \in Peers : ThreadAt(q)
      /\ ~spoiled => \A q \in Peers : WholeAt(q)
  BY DEF TorrentInv
<1> USE Lengths, TorrentAssumption
<1>2. Listed' = Listed
  BY DEF Listed, Connect, Goto, tracker, bounds
<1>3. TypeOK'
  BY <1>1 DEF TypeOK, Connect, Goto, tracker, bounds
<1>4. ListedHasFile'
  BY <1>2, <1>1, ListedPeers
    DEF TypeOK, ListedHasFile, ThreadAt, Has, Connect, Goto, tracker, bounds
<1>5. ASSUME NEW q \in Peers
      PROVE  ThreadAt(q)'
  BY <1>1, <1>5 DEF TypeOK, ListedHasFile, ThreadAt, Has, Connect, Goto, tracker, bounds
<1>6. ASSUME ~spoiled', NEW q \in Peers
      PROVE  WholeAt(q)'
  BY <1>2, <1>1, <1>6
    DEF TypeOK, ListedHasFile, ThreadAt, WholeAt, Has, Connect, Goto, tracker, bounds
<1> QED
  BY <1>3, <1>4, <1>5, <1>6 DEF TorrentInv

LEMMA JoinsStep ==
    ASSUME TorrentInv, NEW p \in Peers, Update(p), trackerUp
    PROVE  TorrentInv'
<1>1. /\ TypeOK /\ ListedHasFile
      /\ \A q \in Peers : ThreadAt(q)
      /\ ~spoiled => \A q \in Peers : WholeAt(q)
  BY DEF TorrentInv
<1> USE Lengths, TorrentAssumption
<1>2. Join(p) /\ pc[p] = "update" /\ Has(p)
  BY <1>1 DEF Update, ThreadAt
<1>3. /\ file_data' \in Seq(Peers) /\ IsInjective(file_data')
      /\ Listed' = Listed \cup {p}
  BY <1>1, <1>2, JoinListed DEF TypeOK
<1>4. TypeOK'
  BY <1>1, <1>3 DEF TypeOK, Update, Goto, download, bounds
<1>5. ListedHasFile'
  BY <1>3, <1>1, <1>2, ListedPeers DEF TypeOK, ListedHasFile, Has, Update, download
<1>6. ASSUME NEW q \in Peers
      PROVE  ThreadAt(q)'
  BY <1>1, <1>6 DEF TypeOK, ListedHasFile, ThreadAt, Has, Update, Goto, download, bounds
<1>7. ASSUME ~spoiled', NEW q \in Peers
      PROVE  WholeAt(q)'
  BY <1>3, <1>1, <1>2, <1>7 DEF TypeOK, WholeAt, Has, Update, Goto, download
<1> QED
  BY <1>4, <1>5, <1>6, <1>7 DEF TorrentInv

(* A refused connection ends the process, and so does a stop. *)
LEMMA TypeStep ==
    ASSUME TorrentInv, NEW p \in Peers, Type(p)
    PROVE  TorrentInv'
<1>1. commands' \in 0 .. MaxCommands /\ stops' \in 0 .. MaxStops /\ UNCHANGED <<tracker, share>>
  BY TorrentAssumption DEF TorrentInv, TypeOK, Type
<1>2. CASE trackerUp
  BY <1>1, <1>2, AskStep
<1>3. CASE ~trackerUp
  BY <1>1, <1>3, DieStep DEF Type, tracker
<1> QED
  BY <1>2, <1>3

LEMMA ConnectStep ==
    ASSUME TorrentInv, NEW p \in Peers, Connect(p)
    PROVE  TorrentInv'
<1>1. CASE listening[source[p]]
  BY <1>1, ConnectsStep DEF Connect
<1>2. CASE ~listening[source[p]]
  BY <1>2, DieStep DEF Connect, TorrentInv, TypeOK, tracker, bounds
<1> QED
  BY <1>1, <1>2

LEMMA UpdateStep ==
    ASSUME TorrentInv, NEW p \in Peers, Update(p)
    PROVE  TorrentInv'
<1>1. CASE trackerUp
  BY <1>1, JoinsStep
<1>2. CASE ~trackerUp
  BY <1>2, DieStep DEF Update, TorrentInv, TypeOK, bounds
<1> QED
  BY <1>1, <1>2

LEMMA StopStep ==
    ASSUME TorrentInv, NEW p \in Peers, Stop(p)
    PROVE  TorrentInv'
BY DieStep, TorrentAssumption DEF Stop, TorrentInv, TypeOK, tracker

LEMMA TrackerStopStep ==
    ASSUME TorrentInv, TrackerStop
    PROVE  TorrentInv'
<1>1. /\ TypeOK /\ ListedHasFile
      /\ \A q \in Peers : ThreadAt(q)
      /\ ~spoiled => \A q \in Peers : WholeAt(q)
  BY DEF TorrentInv
<1>2. file_data' \in Seq(Peers) /\ IsInjective(file_data') /\ Listed' = {}
  BY NobodyListed DEF TrackerStop
<1>3. \A p \in Peers : pc'[p] = (IF pc[p] \in {"query", "malformed"} THEN "spinning" ELSE pc[p])
  BY DEF TrackerStop
<1>4. TypeOK'
  <2>1. pc' \in [Peers -> {"down", "idle", "query", "malformed", "connect", "header",
                        "receiving", "update", "spinning"}]
    BY <1>1 DEF TypeOK, TrackerStop
  <2>2. stops' \in 0 .. MaxStops /\ commands' \in 0 .. MaxCommands
    BY <1>1, TorrentAssumption DEF TypeOK, TrackerStop
  <2> QED
    BY <1>1, <1>2, <2>1, <2>2 DEF TypeOK, TrackerStop, download
<1>5. ListedHasFile'
  BY <1>1, <1>2 DEF ListedHasFile, Has, TrackerStop, download
<1>6. ASSUME NEW q \in Peers
      PROVE  ThreadAt(q)'
  BY <1>1, <1>3 DEF ThreadAt, Has, TrackerStop, download
<1>7. ASSUME ~spoiled', NEW q \in Peers
      PROVE  WholeAt(q)'
  BY <1>1, <1>2, <1>3, <1>7 DEF WholeAt, Has, TrackerStop, download
<1> QED
  BY <1>4, <1>5, <1>6, <1>7 DEF TorrentInv

LEMMA StutterStep ==
    ASSUME TorrentInv, UNCHANGED <<file_data, pc, listening, share, download, spoiled, bounds>>,
           trackerUp' \in BOOLEAN
    PROVE  TorrentInv'
<1>1. Listed' = Listed
  BY DEF Listed
<1> QED
  BY <1>1 DEF TorrentInv, TypeOK, ListedHasFile, ThreadAt, WholeAt, Has, download, bounds

-----------------------------------------------------------------------------
(* The theorems *)

LEMMA InvInit ==
    ASSUME Init
    PROVE  TorrentInv
<1>1. file_data \in Seq(Peers) /\ IsInjective(file_data) /\ Listed = {}
  BY DEF Init, IsInjective, Listed
<1>2. TypeOK
  <2>1. share \in [Peers -> Copy \cup {NoFile}]
    BY TorrentAssumption DEF Init, Copy
  <2>2. 0 \in Copy /\ 0 \in 0 .. MaxCommands /\ 0 \in 0 .. MaxStops
    BY TorrentAssumption DEF Copy
  <2> QED
    BY <1>1, <2>1, <2>2 DEF Init, TypeOK
<1> QED
  BY <1>1, <1>2, TorrentAssumption DEF Init, TorrentInv, ListedHasFile, ThreadAt, WholeAt, Has

LEMMA InvStep ==
    ASSUME TorrentInv, [Next]_vars
    PROVE  TorrentInv'
<1>1. ASSUME NEW p \in Peers, CommandStep(p)
      PROVE  TorrentInv'
  BY <1>1, AnswerStep, RefusedStep, ConnectStep, NoHeaderStep, HeaderStep, ReceiveStep,
        ReceivedStep, UpdateStep
  DEF CommandStep
<1>2. ASSUME NEW p \in Peers, UploadStep(p)
      PROVE  TorrentInv'
  BY <1>2, SendHeaderStep, SendDataStep, EndOfFileStep DEF UploadStep
<1>3. ASSUME NEW p \in Peers, Start(p) \/ Listen(p) \/ Type(p) \/ Stop(p)
      PROVE  TorrentInv'
  BY <1>3, StartStep, ListenStep, TypeStep, StopStep
<1>4. CASE TrackerStart
  BY <1>4, StutterStep DEF TrackerStart
<1>5. CASE UNCHANGED vars
  BY <1>5, StutterStep DEF vars, tracker, TorrentInv, TypeOK
<1> QED
  BY <1>1, <1>2, <1>3, <1>4, <1>5, TrackerStopStep DEF Next, Quiet

(* In every reachable state the list, the threads of the peers and their copies
   agree: the inductive invariant. *)
THEOREM TorrentInvariant == Spec => []TorrentInv
BY InvInit, InvStep, PTL DEF Spec

(* Lengths stay within the file, and no peer is in the list twice, however often
   peers start, register and update. *)
THEOREM TorrentTypes == Spec => []TypeOK
<1>1. TorrentInv => TypeOK
  BY DEF TorrentInv
<1> QED
  BY <1>1, TorrentInvariant, PTL

(* sendfile finds the file it is asked for, whichever processes have ended. *)
THEOREM ListedHaveFile == Spec => []ListedHasFile
<1>1. TorrentInv => ListedHasFile
  BY DEF TorrentInv
<1> QED
  BY <1>1, TorrentInvariant, PTL

(* What is listed is whole, and what is being received will be, until a peer
   downloads over its own copy or is cut short. *)
THEOREM WholeCopies == Spec => []WholeUnlessSpoiled
<1>1. TorrentInv => WholeUnlessSpoiled
  BY ListedPeers DEF TorrentInv, ListedHasFile, ThreadAt, WholeAt, WholeUnlessSpoiled
<1> QED
  BY <1>1, TorrentInvariant, PTL
=============================================================================
