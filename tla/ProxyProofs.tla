----------------------------- MODULE ProxyProofs -----------------------------
(* Proofs about Proxy for every number of clients, descriptors, addresses and
   chunks: the threads share the table of descriptors without a leak, and what
   a client is sent is one answer, whole when its connection is closed. *)
EXTENDS Proxy, FiniteSetTheorems, WellFoundedInduction, SequenceTheorems, TLAPS

-----------------------------------------------------------------------------
(* Data *)

(* The lowest free descriptor is a free descriptor. *)
LEMMA LeastFree ==
    ASSUME Fds \ open # {}
    PROVE  FreeFd \in Fds /\ FreeFd \notin open /\ FreeFd # NoFd
<1> DEFINE S == Fds \ open
<1>1. S \subseteq Nat /\ S # {}
  BY ProxyAssumption
<1>2. PICK x \in S : \A y \in S : ~(<<y, x>> \in OpToRel(<, Nat))
  BY <1>1, NatLessThanWellFounded, WFMin
<1>3. \A y \in S : ~(y < x)
  BY <1>1, <1>2 DEF OpToRel
<1>4. \A y \in S : x <= y
  BY <1>1, <1>3
<1>5. FreeFd \in S
  BY <1>4 DEF FreeFd, Least
<1> QED
  BY <1>5, ProxyAssumption

(* What is sent grows at its end, and what is received is what was sent. *)
LEMMA ResponseGrows ==
    ASSUME NEW n \in Nat
    PROVE  /\ Response(n) \in Seq(Nat) /\ Len(Response(n)) = n
           /\ Append(Response(n), n + 1) = Response(n + 1)
BY DEF Response

LEMMA NothingSent == Response(0) = <<>>
BY DEF Response

LEMMA ReceivedWasSent ==
    ASSUME NEW S, NEW s \in Seq(S), NEW t \in Seq(S), t # <<>>
    PROVE  Append(s, Head(t)) \o Tail(t) = s \o t
OBVIOUS

LEMMA SendExtends ==
    ASSUME NEW S, NEW s \in Seq(S), NEW t \in Seq(S), NEW x \in S
    PROVE  s \o Append(t, x) = Append(s \o t, x)
OBVIOUS

-----------------------------------------------------------------------------
(* The inductive invariant *)

(* Nothing of a response has been read in these stages ... *)
Early == {"none", "start", "read", "resolve", "socket", "connect", "forward", "refuse", "exit"}
(* ... in these the request is one that is served ... *)
Serving == {"resolve", "socket", "connect", "forward", "relay", "deliver"}
(* ... and in these the thread holds a socket to the server. *)
Connected == {"connect", "forward", "relay", "deliver", "close_server"}

QueueOK ==
    /\ \A k \in 1 .. Len(backlog) : pc[backlog[k]] = "none"
    /\ \A j, k \in 1 .. Len(backlog) : backlog[j] = backlog[k] => j = k

LocalsAt(c) ==
    /\ pc[c] = "connect" => addr[c] > 0
    /\ pc[c] = "refuse" => code[c] \in Codes
    /\ pc[c] \in Early => relayed[c] = 0
    /\ pc[c] = "deliver" => relayed[c] > 0
    /\ ~Closed(c) => cl[c] # "idle"
    /\ cl[c] # "idle" => kind[c] \in Kinds
    /\ cl[c] # "open" => toClient[c] = <<>> /\ got[c] = <<>> /\ ~cut[c]

SocketsAt(c) ==
    /\ client_fd[c] # NoFd <=> HoldsClient(c)
    /\ pc[c] \in Connected => server_fd[c] # NoFd
    /\ pc[c] \notin Connected \cup {"refuse"} => server_fd[c] = NoFd

(* The sockets in use are those that threads hold, each by one. *)
Held(c) == {client_fd[c], server_fd[c]} \ {NoFd}
Owned ==
    /\ \A c \in Clients : Held(c) \subseteq open
    /\ \A fd \in open : \E c \in Clients : fd \in Held(c)
    /\ \A c \in Clients : client_fd[c] = server_fd[c] => client_fd[c] = NoFd
    /\ \A c, d \in Clients : c # d => Held(c) \cap Held(d) = {}

CountOK == active_threads = Cardinality({c \in Clients : pc[c] \notin {"none", "start"}})

(* What was sent when the thread has nothing left to send. *)
Answered(c) ==
    /\ \/ Seen(c) = <<>>
       \/ kind[c] \in Gets /\ Seen(c) = <<502>>
       \/ kind[c] \in Gets /\ Seen(c) = Response(Len(Seen(c)))
       \/ kind[c] \notin Gets /\ Seen(c) = <<Verdict(kind[c])>>
    /\ ~cut[c] => Seen(c) \in {Response(Chunks)} \cup {<<n>> : n \in Codes}

AnswerAt(c) == cl[c] = "open" =>
    /\ pc[c] \in Early /\ ~Closed(c) => Seen(c) = <<>>
    /\ pc[c] \in Serving => kind[c] \in Gets
    /\ pc[c] = "refuse" /\ kind[c] \in Gets => code[c] = 502
    /\ pc[c] = "refuse" /\ kind[c] \notin Gets => code[c] = Verdict(kind[c])
    /\ pc[c] = "relay" => Seen(c) = Response(relayed[c])
    /\ pc[c] = "deliver" => Seen(c) = Response(relayed[c] - 1)
    /\ pc[c] \in {"close_server", "close_client"} \/ Closed(c) => Answered(c)

IInv == /\ TypeOK /\ QueueOK /\ Owned /\ CountOK
        /\ \A c \in Clients : LocalsAt(c) /\ SocketsAt(c) /\ AnswerAt(c)

-----------------------------------------------------------------------------
(* What a step of one connection leaves alone *)

Others(c) ==
    \A d \in Clients \ {c} :
        /\ pc'[d] = pc[d] /\ cl'[d] = cl[d] /\ kind'[d] = kind[d]
        /\ client_fd'[d] = client_fd[d] /\ server_fd'[d] = server_fd[d]
        /\ addr'[d] = addr[d] /\ code'[d] = code[d] /\ relayed'[d] = relayed[d]
        /\ toClient'[d] = toClient[d] /\ got'[d] = got[d] /\ cut'[d] = cut[d]
        /\ Waiting(d)' <=> Waiting(d)

(* The other connections are as they were. *)
LEMMA OthersStay ==
    ASSUME IInv, NEW c \in Clients, Others(c), NEW d \in Clients, d # c
    PROVE  LocalsAt(d)' /\ SocketsAt(d)' /\ AnswerAt(d)'
<1>1. /\ Closed(d)' <=> Closed(d)
      /\ Seen(d)' = Seen(d) /\ (HoldsClient(d)' <=> HoldsClient(d))
  BY DEF Others, Closed, Seen, HoldsClient
<1>2. Answered(d)' <=> Answered(d)
  BY <1>1 DEF Others, Answered
<1>3. LocalsAt(d)'
  BY <1>1 DEF IInv, Others, LocalsAt
<1>4. SocketsAt(d)'
  BY <1>1 DEF IInv, Others, SocketsAt
<1>5. AnswerAt(d)'
  <2>1. AnswerAt(d)
    BY DEF IInv
  <2>2. /\ cl'[d] = cl[d] /\ pc'[d] = pc[d] /\ kind'[d] = kind[d]
        /\ code'[d] = code[d] /\ relayed'[d] = relayed[d]
    BY DEF Others
  <2> QED
    BY <1>1, <1>2, <2>1, <2>2 DEF AnswerAt
<1> QED
  BY <1>3, <1>4, <1>5

(* No connection joins the queue, and none is taken from it. *)
LEMMA QueueKept ==
    ASSUME IInv, NEW c \in Clients, Others(c), UNCHANGED backlog,
           pc[c] # "none" \/ pc'[c] = "none"
    PROVE  QueueOK'
<1>1. \A k \in 1 .. Len(backlog) : backlog[k] \in Clients
  BY DEF IInv, TypeOK
<1>2. \A d \in Clients : pc[d] = "none" => pc'[d] = "none"
  BY DEF Others
<1> QED
  BY <1>1, <1>2 DEF IInv, QueueOK

(* No thread comes to count itself, or to have done so. *)
LEMMA CountKept ==
    ASSUME IInv, NEW c \in Clients, Others(c), UNCHANGED active_threads,
           pc[c] \in {"none", "start"} <=> pc'[c] \in {"none", "start"}
    PROVE  CountOK'
<1>1. {d \in Clients : pc'[d] \notin {"none", "start"}}
          = {d \in Clients : pc[d] \notin {"none", "start"}}
  BY DEF Others
<1> QED
  BY <1>1 DEF IInv, CountOK

(* A step that leaves the queue, the sockets and the count alone. *)
LEMMA QuietStep ==
    ASSUME IInv, NEW c \in Clients, Others(c), TypeOK',
           LocalsAt(c)', SocketsAt(c)', AnswerAt(c)',
           UNCHANGED <<backlog, table, active_threads>>,
           pc[c] # "none" \/ pc'[c] = "none",
           pc[c] \in {"none", "start"} <=> pc'[c] \in {"none", "start"}
    PROVE  IInv'
<1>1. QueueOK'
  BY QueueKept
<1>2. Owned'
  BY DEF IInv, Owned, Held, table
<1>3. CountOK'
  BY CountKept
<1> QED
  BY <1>1, <1>2, <1>3, OthersStay DEF IInv

LEMMA StageNames ==
    /\ "none" \in Stages /\ "start" \in Stages /\ "read" \in Stages /\ "resolve" \in Stages
    /\ "socket" \in Stages /\ "connect" \in Stages /\ "forward" \in Stages
    /\ "relay" \in Stages /\ "deliver" \in Stages /\ "refuse" \in Stages
    /\ "close_server" \in Stages /\ "close_client" \in Stages /\ "exit" \in Stages
BY DEF Stages

LEMMA CodeNames == 400 \in Codes /\ 501 \in Codes /\ 502 \in Codes /\ Codes \subseteq Nat \ {0}
BY DEF Codes

(* A request is served or has an error. *)
LEMMA Verdicts ==
    ASSUME NEW k \in Kinds
    PROVE  IF k \in Gets THEN Verdict(k) = 200 ELSE Verdict(k) \in Codes /\ Verdict(k) # 200
BY ProxyAssumption DEF Gets, Verdict, Codes

(* Where a thread goes, and with which error, is a stage and a code. *)
LEMMA GotoType ==
    ASSUME TypeOK, NEW c \in Clients, NEW l \in Stages, Goto(c, l)
    PROVE  pc' \in [Clients -> Stages]
BY DEF Goto, TypeOK

LEMMA FailType ==
    ASSUME TypeOK, NEW c \in Clients, NEW n \in Codes, Fail(c, n)
    PROVE  pc' \in [Clients -> Stages] /\ code' \in [Clients -> Codes \cup {0}]
BY GotoType, StageNames DEF Fail, TypeOK

LEMMA JudgeType ==
    ASSUME TypeOK, NEW c \in Clients, kind[c] \in Kinds, Judge(c)
    PROVE  pc' \in [Clients -> Stages] /\ code' \in [Clients -> Codes \cup {0}]
<1>1. CASE Verdict(kind[c]) # 200
  BY <1>1, Verdicts, FailType DEF Judge
<1>2. CASE Verdict(kind[c]) = 200
  BY <1>2, GotoType, StageNames DEF Judge, TypeOK
<1> QED
  BY <1>1, <1>2

-----------------------------------------------------------------------------
(* The steps *)

LEMMA ReadPartStep ==
    ASSUME IInv, NEW c \in Clients, ReadPart(c)
    PROVE  IInv'
<1>1. TypeOK /\ LocalsAt(c) /\ SocketsAt(c) /\ AnswerAt(c)
  BY DEF IInv
<1>2. /\ pc[c] = "read"
      /\ cl'[c] = cl[c] /\ kind'[c] = kind[c]
      /\ client_fd'[c] = client_fd[c] /\ server_fd'[c] = server_fd[c]
      /\ addr'[c] = addr[c] /\ code'[c] = code[c] /\ relayed'[c] = relayed[c] /\ cut'[c] = cut[c]
      /\ toClient'[c] = toClient[c] /\ got'[c] = got[c] /\ Seen(c)' = Seen(c)
      /\ Waiting(c)' <=> Waiting(c)
  BY <1>1 DEF TypeOK, Seen, Waiting, ReadPart, Goto, table, locals, client, stream
<1>3. pc'[c] = "read"
  BY <1>1, <1>2 DEF TypeOK, ReadPart, Goto, table, locals, client, stream
<1>4. TypeOK'
  <2>1. begun' \in [Clients -> BOOLEAN]
    BY <1>1, <1>2, StageNames, CodeNames, Verdicts, ProxyAssumption
    DEF TypeOK, LocalsAt, Closed, ReadPart, Goto
  <2> QED
    BY <1>1, <2>1 DEF TypeOK, ReadPart, Goto, table, locals, client, stream
<1>5. Others(c)
  BY <1>1 DEF TypeOK, Others, Waiting, ReadPart, Goto, table, locals, client, stream
<1>6. LocalsAt(c)'
  BY <1>1, <1>2, <1>3, CodeNames, Verdicts DEF TypeOK, LocalsAt, Closed, Early
<1>7. SocketsAt(c)'
  BY <1>1, <1>2, <1>3 DEF SocketsAt, Connected, HoldsClient
<1>8. AnswerAt(c)'
  BY <1>1, <1>2, <1>3, CodeNames, Verdicts
  DEF TypeOK, AnswerAt, Answered, LocalsAt, Closed, Early, Serving
<1>9. UNCHANGED <<backlog, table, active_threads>>
  BY DEF ReadPart, Goto, table
<1> QED
  BY <1>2, <1>3, <1>4, <1>5, <1>6, <1>7, <1>8, <1>9, QuietStep

LEMMA ReadRestStep ==
    ASSUME IInv, NEW c \in Clients, ReadRest(c)
    PROVE  IInv'
<1>1. TypeOK /\ LocalsAt(c) /\ SocketsAt(c) /\ AnswerAt(c)
  BY DEF IInv
<1>2. /\ pc[c] = "read" /\ cl[c] = "open"
      /\ cl'[c] = cl[c] /\ kind'[c] = kind[c]
      /\ client_fd'[c] = client_fd[c] /\ server_fd'[c] = server_fd[c]
      /\ addr'[c] = addr[c] /\ relayed'[c] = relayed[c] /\ cut'[c] = cut[c]
      /\ toClient'[c] = toClient[c] /\ got'[c] = got[c] /\ Seen(c)' = Seen(c)
      /\ Waiting(c)' <=> Waiting(c)
  BY <1>1 DEF TypeOK, Seen, Waiting, ReadRest, Goto, Judge, Fail, table, locals, client, stream
<1>3. \/ Verdict(kind[c]) # 200 /\ pc'[c] = "refuse" /\ code'[c] = Verdict(kind[c])
      \/ Verdict(kind[c]) = 200 /\ pc'[c] = "resolve" /\ code'[c] = code[c]
  BY <1>1, <1>2 DEF TypeOK, ReadRest, Goto, Judge, Fail, table, locals, client, stream
<1>4. TypeOK'
  <2>1. pc' \in [Clients -> Stages] /\ code' \in [Clients -> Codes \cup {0}]
    BY <1>1, <1>2, JudgeType DEF LocalsAt, Closed, ReadRest
  <2>2. begun' \in [Clients -> BOOLEAN]
    BY <1>1 DEF TypeOK, ReadRest
  <2> QED
    BY <1>1, <2>1, <2>2 DEF TypeOK, ReadRest, Goto, Judge, Fail, table, locals, client, stream
<1>5. Others(c)
  BY <1>1 DEF TypeOK, Others, Waiting, ReadRest, Goto, Judge, Fail, table, locals, client, stream
<1>6. LocalsAt(c)'
  BY <1>1, <1>2, <1>3, CodeNames, Verdicts DEF TypeOK, LocalsAt, Closed, Early
<1>7. SocketsAt(c)'
  BY <1>1, <1>2, <1>3 DEF SocketsAt, Connected, HoldsClient
<1>8. AnswerAt(c)'
  <2>1. Seen(c) = <<>> /\ kind[c] \in Kinds
    BY <1>1, <1>2 DEF AnswerAt, LocalsAt, Closed, Early
  <2>2. Verdict(kind[c]) = 200 <=> kind[c] \in Gets
    BY <2>1, CodeNames, Verdicts
  <2> QED
    BY <1>2, <1>3, <2>1, <2>2 DEF AnswerAt, Closed, Early, Serving
<1>9. UNCHANGED <<backlog, table, active_threads>>
  BY DEF ReadRest, Goto, Judge, Fail, table
<1> QED
  BY <1>2, <1>3, <1>4, <1>5, <1>6, <1>7, <1>8, <1>9, QuietStep

LEMMA ReadEndStep ==
    ASSUME IInv, NEW c \in Clients, ReadEnd(c)
    PROVE  IInv'
<1>1. TypeOK /\ LocalsAt(c) /\ SocketsAt(c) /\ AnswerAt(c)
  BY DEF IInv
<1>2. /\ pc[c] = "read" /\ cl[c] = "gone"
      /\ cl'[c] = cl[c] /\ kind'[c] = kind[c]
      /\ client_fd'[c] = client_fd[c] /\ server_fd'[c] = server_fd[c]
      /\ addr'[c] = addr[c] /\ relayed'[c] = relayed[c] /\ cut'[c] = cut[c]
      /\ toClient'[c] = toClient[c] /\ got'[c] = got[c] /\ Seen(c)' = Seen(c)
      /\ Waiting(c)' <=> Waiting(c)
  BY <1>1 DEF TypeOK, Seen, Waiting, ReadEnd, Goto, Judge, Fail, table, locals, client, stream
<1>3. \/ pc'[c] = "resolve" /\ code'[c] = code[c]
      \/ pc'[c] = "refuse" /\ code'[c] \in {400, Verdict(kind[c])} /\ code'[c] # 200
  BY <1>1, <1>2 DEF TypeOK, ReadEnd, Goto, Judge, Fail, table, locals, client, stream
<1>4. TypeOK'
  <2>1. pc' \in [Clients -> Stages] /\ code' \in [Clients -> Codes \cup {0}]
    BY <1>1, <1>2, JudgeType, FailType, CodeNames DEF LocalsAt, Closed, ReadEnd
  <2>2. begun' \in [Clients -> BOOLEAN]
    BY <1>1 DEF TypeOK, ReadEnd
  <2> QED
    BY <1>1, <2>1, <2>2 DEF TypeOK, ReadEnd, Goto, Judge, Fail, table, locals, client, stream
<1>5. Others(c)
  BY <1>1 DEF TypeOK, Others, Waiting, ReadEnd, Goto, Judge, Fail, table, locals, client, stream
<1>6. LocalsAt(c)'
  BY <1>1, <1>2, <1>3, CodeNames, Verdicts DEF TypeOK, LocalsAt, Closed, Early
<1>7. SocketsAt(c)'
  BY <1>1, <1>2, <1>3 DEF SocketsAt, Connected, HoldsClient
<1>8. AnswerAt(c)'
  BY <1>1, <1>2, <1>3, CodeNames, Verdicts
  DEF TypeOK, AnswerAt, Answered, LocalsAt, Closed, Early, Serving
<1>9. UNCHANGED <<backlog, table, active_threads>>
  BY DEF ReadEnd, Goto, Judge, Fail, table
<1> QED
  BY <1>2, <1>3, <1>4, <1>5, <1>6, <1>7, <1>8, <1>9, QuietStep

LEMMA ResolveStep ==
    ASSUME IInv, NEW c \in Clients, Resolve(c)
    PROVE  IInv'
<1>1. TypeOK /\ LocalsAt(c) /\ SocketsAt(c) /\ AnswerAt(c)
  BY DEF IInv
<1>2. /\ pc[c] = "resolve"
      /\ cl'[c] = cl[c] /\ kind'[c] = kind[c]
      /\ client_fd'[c] = client_fd[c] /\ server_fd'[c] = server_fd[c]
      /\ code'[c] = code[c] /\ relayed'[c] = relayed[c] /\ cut'[c] = cut[c]
      /\ toClient'[c] = toClient[c] /\ got'[c] = got[c] /\ Seen(c)' = Seen(c)
      /\ Waiting(c)' <=> Waiting(c)
  BY <1>1 DEF TypeOK, Seen, Waiting, Resolve, Goto, table, locals, client, stream
<1>3. pc'[c] = "socket"
  BY <1>1, <1>2 DEF TypeOK, Resolve, Goto, table, locals, client, stream
<1>4. TypeOK'
  <2>1. pc' \in [Clients -> Stages]
    BY <1>1, <1>2, StageNames, CodeNames, Verdicts, ProxyAssumption
    DEF TypeOK, LocalsAt, Closed, Resolve, Goto
  <2>2. addr' \in [Clients -> 0 .. Addresses]
    BY <1>1, <1>2, StageNames, CodeNames, Verdicts, ProxyAssumption
    DEF TypeOK, LocalsAt, Closed, Resolve, Goto
  <2> QED
    BY <1>1, <2>1, <2>2 DEF TypeOK, Resolve, Goto, table, locals, client, stream
<1>5. Others(c)
  BY <1>1 DEF TypeOK, Others, Waiting, Resolve, Goto, table, locals, client, stream
<1>6. LocalsAt(c)'
  BY <1>1, <1>2, <1>3, CodeNames, Verdicts DEF TypeOK, LocalsAt, Closed, Early
<1>7. SocketsAt(c)'
  BY <1>1, <1>2, <1>3 DEF SocketsAt, Connected, HoldsClient
<1>8. AnswerAt(c)'
  BY <1>1, <1>2, <1>3, CodeNames, Verdicts
  DEF TypeOK, AnswerAt, Answered, LocalsAt, Closed, Early, Serving
<1>9. UNCHANGED <<backlog, table, active_threads>>
  BY DEF Resolve, Goto, table
<1> QED
  BY <1>2, <1>3, <1>4, <1>5, <1>6, <1>7, <1>8, <1>9, QuietStep

LEMMA NoSocketStep ==
    ASSUME IInv, NEW c \in Clients, NoSocket(c)
    PROVE  IInv'
<1>1. TypeOK /\ LocalsAt(c) /\ SocketsAt(c) /\ AnswerAt(c)
  BY DEF IInv
<1>2. /\ pc[c] = "socket"
      /\ cl'[c] = cl[c] /\ kind'[c] = kind[c]
      /\ client_fd'[c] = client_fd[c] /\ server_fd'[c] = server_fd[c]
      /\ code'[c] = code[c] /\ relayed'[c] = relayed[c] /\ cut'[c] = cut[c]
      /\ toClient'[c] = toClient[c] /\ got'[c] = got[c] /\ Seen(c)' = Seen(c)
      /\ Waiting(c)' <=> Waiting(c)
  BY <1>1 DEF TypeOK, Seen, Waiting, NoSocket, Goto, table, locals, client, stream
<1>3. pc'[c] = "socket"
  BY <1>1, <1>2 DEF TypeOK, NoSocket, Goto, table, locals, client, stream
<1>4. TypeOK'
  <2>1. addr' \in [Clients -> 0 .. Addresses]
    BY <1>1, <1>2, StageNames, CodeNames, Verdicts, ProxyAssumption
    DEF TypeOK, LocalsAt, Closed, NoSocket, Goto
  <2> QED
    BY <1>1, <2>1 DEF TypeOK, NoSocket, Goto, table, locals, client, stream
<1>5. Others(c)
  BY <1>1 DEF TypeOK, Others, Waiting, NoSocket, Goto, table, locals, client, stream
<1>6. LocalsAt(c)'
  BY <1>1, <1>2, <1>3, CodeNames, Verdicts DEF TypeOK, LocalsAt, Closed, Early
<1>7. SocketsAt(c)'
  BY <1>1, <1>2, <1>3 DEF SocketsAt, Connected, HoldsClient
<1>8. AnswerAt(c)'
  BY <1>1, <1>2, <1>3, CodeNames, Verdicts
  DEF TypeOK, AnswerAt, Answered, LocalsAt, Closed, Early, Serving
<1>9. UNCHANGED <<backlog, table, active_threads>>
  BY DEF NoSocket, Goto, table
<1> QED
  BY <1>2, <1>3, <1>4, <1>5, <1>6, <1>7, <1>8, <1>9, QuietStep

LEMMA NoAddressStep ==
    ASSUME IInv, NEW c \in Clients, NoAddress(c)
    PROVE  IInv'
<1>1. TypeOK /\ LocalsAt(c) /\ SocketsAt(c) /\ AnswerAt(c)
  BY DEF IInv
<1>2. /\ pc[c] = "socket"
      /\ cl'[c] = cl[c] /\ kind'[c] = kind[c]
      /\ client_fd'[c] = client_fd[c] /\ server_fd'[c] = server_fd[c]
      /\ addr'[c] = addr[c] /\ relayed'[c] = relayed[c] /\ cut'[c] = cut[c]
      /\ toClient'[c] = toClient[c] /\ got'[c] = got[c] /\ Seen(c)' = Seen(c)
      /\ Waiting(c)' <=> Waiting(c)
  BY <1>1 DEF TypeOK, Seen, Waiting, NoAddress, Goto, Fail, table, locals, client, stream
<1>3. pc'[c] = "refuse" /\ code'[c] = 502
  BY <1>1, <1>2 DEF TypeOK, NoAddress, Goto, Fail, table, locals, client, stream
<1>4. TypeOK'
  <2>1. pc' \in [Clients -> Stages]
    BY <1>1, <1>2, StageNames, CodeNames, Verdicts, ProxyAssumption
    DEF TypeOK, LocalsAt, Closed, NoAddress, Goto, Fail
  <2>2. code' \in [Clients -> Codes \cup {0}]
    BY <1>1, <1>2, StageNames, CodeNames, Verdicts, ProxyAssumption
    DEF TypeOK, LocalsAt, Closed, NoAddress, Goto, Fail
  <2> QED
    BY <1>1, <2>1, <2>2 DEF TypeOK, NoAddress, Goto, Fail, table, locals, client, stream
<1>5. Others(c)
  BY <1>1 DEF TypeOK, Others, Waiting, NoAddress, Goto, Fail, table, locals, client, stream
<1>6. LocalsAt(c)'
  BY <1>1, <1>2, <1>3, CodeNames, Verdicts DEF TypeOK, LocalsAt, Closed, Early
<1>7. SocketsAt(c)'
  BY <1>1, <1>2, <1>3 DEF SocketsAt, Connected, HoldsClient
<1>8. AnswerAt(c)'
  BY <1>1, <1>2, <1>3, CodeNames, Verdicts
  DEF TypeOK, AnswerAt, Answered, LocalsAt, Closed, Early, Serving
<1>9. UNCHANGED <<backlog, table, active_threads>>
  BY DEF NoAddress, Goto, Fail, table
<1> QED
  BY <1>2, <1>3, <1>4, <1>5, <1>6, <1>7, <1>8, <1>9, QuietStep

LEMMA ForwardStep ==
    ASSUME IInv, NEW c \in Clients, Forward(c)
    PROVE  IInv'
<1>1. TypeOK /\ LocalsAt(c) /\ SocketsAt(c) /\ AnswerAt(c)
  BY DEF IInv
<1>2. /\ pc[c] = "forward"
      /\ cl'[c] = cl[c] /\ kind'[c] = kind[c]
      /\ client_fd'[c] = client_fd[c] /\ server_fd'[c] = server_fd[c]
      /\ addr'[c] = addr[c] /\ relayed'[c] = relayed[c] /\ cut'[c] = cut[c]
      /\ toClient'[c] = toClient[c] /\ got'[c] = got[c] /\ Seen(c)' = Seen(c)
      /\ Waiting(c)' <=> Waiting(c)
  BY <1>1 DEF TypeOK, Seen, Waiting, Forward, Goto, Fail, table, locals, client, stream
<1>3. \/ pc'[c] = "relay" /\ code'[c] = code[c]
      \/ pc'[c] = "refuse" /\ code'[c] = 502
  BY <1>1, <1>2 DEF TypeOK, Forward, Goto, Fail, table, locals, client, stream
<1>4. TypeOK'
  <2>1. pc' \in [Clients -> Stages] /\ code' \in [Clients -> Codes \cup {0}]
    <3>1. CASE Goto(c, "relay") /\ UNCHANGED code
      BY <1>1, <3>1, GotoType, StageNames DEF TypeOK
    <3>2. CASE Fail(c, 502)
      BY <1>1, <3>2, FailType, CodeNames
    <3> QED
      BY <3>1, <3>2 DEF Forward
  <2> QED
    BY <1>1, <2>1 DEF TypeOK, Forward, Goto, Fail, table, locals, client, stream
<1>5. Others(c)
  BY <1>1 DEF TypeOK, Others, Waiting, Forward, Goto, Fail, table, locals, client, stream
<1>6. LocalsAt(c)'
  BY <1>1, <1>2, <1>3, CodeNames, Verdicts DEF TypeOK, LocalsAt, Closed, Early
<1>7. SocketsAt(c)'
  BY <1>1, <1>2, <1>3 DEF SocketsAt, Connected, HoldsClient
<1>8. AnswerAt(c)'
  BY <1>1, <1>2, <1>3, CodeNames, Verdicts, NothingSent
  DEF TypeOK, AnswerAt, Answered, LocalsAt, Closed, Early, Serving
<1>9. UNCHANGED <<backlog, table, active_threads>>
  BY DEF Forward, Goto, Fail, table
<1> QED
  BY <1>2, <1>3, <1>4, <1>5, <1>6, <1>7, <1>8, <1>9, QuietStep

LEMMA RelayStep ==
    ASSUME IInv, NEW c \in Clients, Relay(c)
    PROVE  IInv'
<1>1. TypeOK /\ LocalsAt(c) /\ SocketsAt(c) /\ AnswerAt(c)
  BY DEF IInv
<1>2. /\ pc[c] = "relay"
      /\ cl'[c] = cl[c] /\ kind'[c] = kind[c]
      /\ client_fd'[c] = client_fd[c] /\ server_fd'[c] = server_fd[c]
      /\ addr'[c] = addr[c] /\ code'[c] = code[c] /\ cut'[c] = cut[c]
      /\ toClient'[c] = toClient[c] /\ got'[c] = got[c] /\ Seen(c)' = Seen(c)
      /\ Waiting(c)' <=> Waiting(c)
  BY <1>1 DEF TypeOK, Seen, Waiting, Relay, Goto, table, locals, client, stream
<1>3. pc'[c] = "deliver" /\ relayed'[c] = relayed[c] + 1
  BY <1>1, <1>2 DEF TypeOK, Relay, Goto, table, locals, client, stream
<1>4. TypeOK'
  <2>1. pc' \in [Clients -> Stages]
    BY <1>1, <1>2, StageNames, CodeNames, Verdicts, ProxyAssumption
    DEF TypeOK, LocalsAt, Closed, Relay, Goto
  <2>2. relayed' \in [Clients -> 0 .. Chunks]
    BY <1>1, <1>2, StageNames, CodeNames, Verdicts, ProxyAssumption
    DEF TypeOK, LocalsAt, Closed, Relay, Goto
  <2> QED
    BY <1>1, <2>1, <2>2 DEF TypeOK, Relay, Goto, table, locals, client, stream
<1>5. Others(c)
  BY <1>1 DEF TypeOK, Others, Waiting, Relay, Goto, table, locals, client, stream
<1>6. LocalsAt(c)'
  BY <1>1, <1>2, <1>3, CodeNames, Verdicts DEF TypeOK, LocalsAt, Closed, Early
<1>7. SocketsAt(c)'
  BY <1>1, <1>2, <1>3 DEF SocketsAt, Connected, HoldsClient
<1>8. AnswerAt(c)'
  BY <1>1, <1>2, <1>3, CodeNames, Verdicts
  DEF TypeOK, AnswerAt, Answered, LocalsAt, Closed, Early, Serving
<1>9. UNCHANGED <<backlog, table, active_threads>>
  BY DEF Relay, Goto, table
<1> QED
  BY <1>2, <1>3, <1>4, <1>5, <1>6, <1>7, <1>8, <1>9, QuietStep

LEMMA RelayEndStep ==
    ASSUME IInv, NEW c \in Clients, RelayEnd(c)
    PROVE  IInv'
<1>1. TypeOK /\ LocalsAt(c) /\ SocketsAt(c) /\ AnswerAt(c)
  BY DEF IInv
<1>2. /\ pc[c] = "relay" /\ relayed[c] = Chunks
      /\ cl'[c] = cl[c] /\ kind'[c] = kind[c]
      /\ client_fd'[c] = client_fd[c] /\ server_fd'[c] = server_fd[c]
      /\ addr'[c] = addr[c] /\ code'[c] = code[c] /\ relayed'[c] = relayed[c] /\ cut'[c] = cut[c]
      /\ toClient'[c] = toClient[c] /\ got'[c] = got[c] /\ Seen(c)' = Seen(c)
      /\ Waiting(c)' <=> Waiting(c)
  BY <1>1 DEF TypeOK, Seen, Waiting, RelayEnd, Goto, table, locals, client, stream
<1>3. pc'[c] = "close_server"
  BY <1>1, <1>2 DEF TypeOK, RelayEnd, Goto, table, locals, client, stream
<1>4. TypeOK'
  <2>1. pc' \in [Clients -> Stages]
    BY <1>1, <1>2, StageNames, CodeNames, Verdicts, ProxyAssumption
    DEF TypeOK, LocalsAt, Closed, RelayEnd, Goto
  <2> QED
    BY <1>1, <2>1 DEF TypeOK, RelayEnd, Goto, table, locals, client, stream
<1>5. Others(c)
  BY <1>1 DEF TypeOK, Others, Waiting, RelayEnd, Goto, table, locals, client, stream
<1>6. LocalsAt(c)'
  BY <1>1, <1>2, <1>3, CodeNames, Verdicts DEF TypeOK, LocalsAt, Closed, Early
<1>7. SocketsAt(c)'
  BY <1>1, <1>2, <1>3 DEF SocketsAt, Connected, HoldsClient
<1>8. AnswerAt(c)'
  <2>1. Len(Response(Chunks)) = Chunks
    BY ResponseGrows, ProxyAssumption
  <2>2. ASSUME cl[c] = "open"
        PROVE  Answered(c)'
    <3>1. kind[c] \in Gets /\ Seen(c) = Response(Chunks)
      BY <1>1, <1>2, <2>2 DEF AnswerAt, Serving
    <3> QED
      BY <1>2, <2>1, <3>1 DEF Answered
  <2> QED
    BY <1>2, <1>3, <2>2 DEF AnswerAt, Early, Serving, Closed
<1>9. UNCHANGED <<backlog, table, active_threads>>
  BY DEF RelayEnd, Goto, table
<1> QED
  BY <1>2, <1>3, <1>4, <1>5, <1>6, <1>7, <1>8, <1>9, QuietStep

LEMMA RelayFailsStep ==
    ASSUME IInv, NEW c \in Clients, RelayFails(c)
    PROVE  IInv'
<1>1. TypeOK /\ LocalsAt(c) /\ SocketsAt(c) /\ AnswerAt(c)
  BY DEF IInv
<1>2. /\ pc[c] = "relay"
      /\ cl'[c] = cl[c] /\ kind'[c] = kind[c]
      /\ client_fd'[c] = client_fd[c] /\ server_fd'[c] = server_fd[c]
      /\ addr'[c] = addr[c] /\ code'[c] = code[c] /\ relayed'[c] = relayed[c]
      /\ toClient'[c] = toClient[c] /\ got'[c] = got[c] /\ Seen(c)' = Seen(c)
      /\ Waiting(c)' <=> Waiting(c)
  BY <1>1 DEF TypeOK, Seen, Waiting, RelayFails, Goto, table, locals, client, stream
<1>3. pc'[c] = "close_server" /\ (cut'[c] <=> cl[c] = "open")
  BY <1>1, <1>2 DEF TypeOK, RelayFails, Goto, table, locals, client, stream
<1>4. TypeOK'
  <2>1. pc' \in [Clients -> Stages]
    BY <1>1, <1>2, StageNames, CodeNames, Verdicts, ProxyAssumption
    DEF TypeOK, LocalsAt, Closed, RelayFails, Goto
  <2>2. cut' \in [Clients -> BOOLEAN]
    BY <1>1, <1>2, StageNames, CodeNames, Verdicts, ProxyAssumption
    DEF TypeOK, LocalsAt, Closed, RelayFails, Goto
  <2> QED
    BY <1>1, <2>1, <2>2 DEF TypeOK, RelayFails, Goto, table, locals, client, stream
<1>5. Others(c)
  BY <1>1 DEF TypeOK, Others, Waiting, RelayFails, Goto, table, locals, client, stream
<1>6. LocalsAt(c)'
  BY <1>1, <1>2, <1>3, CodeNames, Verdicts DEF TypeOK, LocalsAt, Closed, Early
<1>7. SocketsAt(c)'
  BY <1>1, <1>2, <1>3 DEF SocketsAt, Connected, HoldsClient
<1>8. AnswerAt(c)'
  <2>1. relayed[c] \in Nat /\ Len(Response(relayed[c])) = relayed[c]
    <3>1. relayed[c] \in Nat
      BY <1>1, ProxyAssumption DEF TypeOK
    <3> QED
      BY <3>1, ResponseGrows
  <2>2. ASSUME cl[c] = "open"
        PROVE  Answered(c)'
    <3>1. kind[c] \in Gets /\ Seen(c) = Response(Len(Seen(c)))
      BY <1>1, <1>2, <2>1, <2>2 DEF AnswerAt, Serving
    <3> QED
      BY <1>2, <1>3, <2>2, <3>1 DEF Answered
  <2> QED
    BY <1>2, <1>3, <2>2 DEF AnswerAt, Early, Serving, Closed
<1>9. UNCHANGED <<backlog, table, active_threads>>
  BY DEF RelayFails, Goto, table
<1> QED
  BY <1>2, <1>3, <1>4, <1>5, <1>6, <1>7, <1>8, <1>9, QuietStep

LEMMA StartStep ==
    ASSUME IInv, NEW c \in Clients, Start(c)
    PROVE  IInv'
<1>1. TypeOK /\ LocalsAt(c) /\ SocketsAt(c) /\ AnswerAt(c)
  BY DEF IInv
<1>2. pc[c] = "start" /\ pc'[c] = "read"
  BY <1>1 DEF TypeOK, Start, Goto
<1>3. TypeOK'
  <2>1. pc' \in [Clients -> Stages] /\ active_threads' \in Nat
    BY <1>1, GotoType, StageNames DEF TypeOK, Start
  <2> QED
    BY <1>1, <2>1 DEF TypeOK, Start, table, locals, client, stream
<1>4. Others(c) /\ (Waiting(c)' <=> Waiting(c)) /\ Seen(c)' = Seen(c)
  BY <1>1 DEF TypeOK, Others, Waiting, Seen, Start, Goto, table, locals, client, stream
<1>5. LocalsAt(c)' /\ SocketsAt(c)' /\ AnswerAt(c)'
  BY <1>1, <1>2, <1>4
  DEF Start, table, locals, client, stream, LocalsAt, SocketsAt, AnswerAt, Closed, HoldsClient,
      Early, Serving, Connected
<1>6. QueueOK' /\ Owned'
  BY <1>2, <1>4, QueueKept DEF IInv, Owned, Held, Start, table
<1>7. CountOK'
  <2> DEFINE T == {d \in Clients : pc[d] \notin {"none", "start"}}
  <2>1. IsFiniteSet(T) /\ c \notin T
    BY <1>2, ProxyAssumption, FS_Subset
  <2>2. {d \in Clients : pc'[d] \notin {"none", "start"}} = T \cup {c}
    BY <1>2, <1>4 DEF Others
  <2> QED
    BY <2>1, <2>2, FS_AddElement DEF IInv, CountOK, Start
<1> QED
  BY <1>3, <1>4, <1>5, <1>6, <1>7, OthersStay DEF IInv

LEMMA ExitStep ==
    ASSUME IInv, NEW c \in Clients, Exit(c)
    PROVE  IInv'
<1>1. TypeOK /\ LocalsAt(c) /\ SocketsAt(c) /\ AnswerAt(c)
  BY DEF IInv
<1>2. pc[c] = "exit" /\ pc'[c] = "none" /\ ~Waiting(c)
  BY <1>1 DEF IInv, QueueOK, Waiting, TypeOK, Exit, Goto
<1>3. Others(c) /\ (Waiting(c)' <=> Waiting(c)) /\ Seen(c)' = Seen(c)
  BY <1>1 DEF TypeOK, Others, Waiting, Seen, Exit, Goto, table, locals, client, stream
<1>4. LocalsAt(c)' /\ SocketsAt(c)'
  BY <1>1, <1>2, <1>3
  DEF Exit, table, locals, client, stream, LocalsAt, SocketsAt, Closed, HoldsClient,
      Early, Connected
<1>5. AnswerAt(c)'
  BY <1>1, <1>2, <1>3
  DEF Exit, locals, client, stream, AnswerAt, Answered, Closed, Early, Serving
<1>6. QueueOK' /\ Owned'
  BY <1>2, <1>3, QueueKept DEF IInv, Owned, Held, Exit, table
<1>7. active_threads' \in Nat /\ CountOK'
  <2> DEFINE T == {d \in Clients : pc[d] \notin {"none", "start"}}
  <2>1. IsFiniteSet(T) /\ c \in T
    BY <1>2, ProxyAssumption, FS_Subset
  <2>2. {d \in Clients : pc'[d] \notin {"none", "start"}} = T \ {c}
    BY <1>2, <1>3 DEF Others
  <2>3. IsFiniteSet(T \ {c}) /\ Cardinality(T \ {c}) = Cardinality(T) - 1
    BY <2>1, FS_RemoveElement
  <2>4. Cardinality(T \ {c}) \in Nat
    BY <2>3, FS_CardinalityType
  <2>5. active_threads' = Cardinality(T) - 1
    BY DEF IInv, CountOK, Exit
  <2> QED
    BY <2>2, <2>3, <2>4, <2>5 DEF CountOK
<1>8. TypeOK'
  BY <1>1, <1>7, GotoType, StageNames DEF TypeOK, Exit, table, locals, client, stream
<1> QED
  BY <1>3, <1>4, <1>5, <1>6, <1>7, <1>8, OthersStay DEF IInv

LEMMA ConnectStep ==
    ASSUME IInv, NEW c \in Clients, NEW k \in Kinds, Connect(c, k)
    PROVE  IInv'
<1>1. TypeOK /\ LocalsAt(c) /\ SocketsAt(c) /\ AnswerAt(c)
  BY DEF IInv
<1>2. /\ backlog \in Seq(Clients) /\ backlog' \in Seq(Clients)
      /\ Len(backlog') = Len(backlog) + 1
      /\ \A i \in 1 .. Len(backlog) : backlog'[i] = backlog[i]
      /\ backlog'[Len(backlog) + 1] = c
  BY <1>1 DEF TypeOK, Connect
<1>3. \A i \in 1 .. Len(backlog) : backlog[i] # c
  BY <1>1 DEF IInv, QueueOK, TypeOK, LocalsAt, Closed, Waiting, Connect
<1>4. Waiting(c)' /\ \A d \in Clients : d # c => (Waiting(d)' <=> Waiting(d))
  BY <1>2 DEF Waiting
<1>5. /\ pc'[c] = "none" /\ cl'[c] = "open" /\ kind'[c] = k
      /\ cl[c] = "idle" /\ Seen(c)' = Seen(c) /\ Seen(c) = <<>>
  BY <1>1 DEF TypeOK, Connect, LocalsAt, Seen, stream
<1>6. TypeOK'
  BY <1>1, <1>2, ProxyAssumption DEF TypeOK, Connect, table, locals, stream
<1>7. Others(c)
  BY <1>1, <1>4 DEF TypeOK, Others, Connect, table, locals, stream
<1>8. LocalsAt(c)' /\ SocketsAt(c)' /\ AnswerAt(c)'
  BY <1>1, <1>4, <1>5
  DEF Connect, table, locals, stream, LocalsAt, SocketsAt, AnswerAt, Closed, HoldsClient,
      Early, Serving, Connected
<1>9. QueueOK'
  <2>1. \A i \in 1 .. Len(backlog') : pc'[backlog'[i]] = "none"
    BY <1>2, <1>5 DEF IInv, QueueOK, Connect
  <2>2. \A i, j \in 1 .. Len(backlog') : backlog'[i] = backlog'[j] => i = j
    BY <1>2, <1>3 DEF IInv, QueueOK
  <2> QED
    BY <2>1, <2>2 DEF QueueOK
<1>10. Owned' /\ CountOK'
  BY DEF IInv, Owned, Held, CountOK, Connect, table
<1> QED
  BY <1>6, <1>7, <1>8, <1>9, <1>10, OthersStay DEF IInv

(* The sockets: one is taken for a connection, or given back. *)
LEMMA SocketTaken ==
    ASSUME IInv, NEW c \in Clients, Others(c), NEW fd \in Fds \ open, fd # NoFd,
           open' = open \cup {fd},
           \/ client_fd[c] = NoFd /\ client_fd'[c] = fd /\ server_fd'[c] = server_fd[c]
           \/ server_fd[c] = NoFd /\ server_fd'[c] = fd /\ client_fd'[c] = client_fd[c]
    PROVE  Owned'
<1>1. Held(c)' = Held(c) \cup {fd}
  BY DEF Held
<1>2. \A d \in Clients : d # c => Held(d)' = Held(d)
  BY DEF Others, Held
<1>3. \A d \in Clients : Held(d) \subseteq open
  BY DEF IInv, Owned
<1>4. \A d \in Clients : Held(d)' \subseteq open'
  BY <1>1, <1>2, <1>3
<1>5. \A f \in open' : \E d \in Clients : f \in Held(d)'
  BY <1>1, <1>2 DEF IInv, Owned
<1>6. \A d \in Clients : client_fd'[d] = server_fd'[d] => client_fd'[d] = NoFd
  BY <1>3 DEF IInv, Owned, Others, Held
<1>7. \A d, e \in Clients : d # e => Held(d)' \cap Held(e)' = {}
  BY <1>1, <1>2, <1>3 DEF IInv, Owned
<1> QED
  BY <1>4, <1>5, <1>6, <1>7 DEF Owned

LEMMA SocketClosed ==
    ASSUME IInv, NEW c \in Clients, Others(c), NEW fd, fd # NoFd,
           open' = open \ {fd},
           \/ client_fd[c] = fd /\ client_fd'[c] = NoFd /\ server_fd'[c] = server_fd[c]
           \/ server_fd[c] = fd /\ server_fd'[c] = NoFd /\ client_fd'[c] = client_fd[c]
    PROVE  Owned'
<1>1. client_fd[c] = server_fd[c] => client_fd[c] = NoFd
  BY DEF IInv, Owned
<1>2. Held(c)' = Held(c) \ {fd} /\ fd \in Held(c)
  BY <1>1 DEF Held
<1>3. \A d \in Clients : d # c => Held(d)' = Held(d) /\ fd \notin Held(d)
  BY <1>2 DEF IInv, Owned, Others, Held
<1>4. \A d \in Clients : Held(d)' \subseteq open'
  BY <1>2, <1>3 DEF IInv, Owned
<1>5. \A f \in open' : \E d \in Clients : f \in Held(d)'
  BY <1>2, <1>3 DEF IInv, Owned
<1>6. \A d \in Clients : client_fd'[d] = server_fd'[d] => client_fd'[d] = NoFd
  BY DEF IInv, Owned, Others
<1>7. \A d, e \in Clients : d # e => Held(d)' \cap Held(e)' = {}
  BY <1>2, <1>3 DEF IInv, Owned
<1> QED
  BY <1>4, <1>5, <1>6, <1>7 DEF Owned

LEMMA AcceptStep ==
    ASSUME IInv, Accept
    PROVE  IInv'
<1>1. TypeOK /\ backlog # <<>> /\ Fds \ open # {} /\ backlog' = Tail(backlog)
  BY DEF IInv, Accept
<1>c. PICK c \in Clients : c = Head(backlog)
  BY <1>1 DEF TypeOK
<1>2. /\ c \in Clients /\ c = backlog[1] /\ backlog' \in Seq(Clients)
      /\ Len(backlog') = Len(backlog) - 1 /\ Len(backlog) \in Nat \ {0}
      /\ \A i \in 1 .. Len(backlog') : i + 1 \in 1 .. Len(backlog) /\ backlog'[i] = backlog[i + 1]
  BY <1>1, <1>c DEF TypeOK
<1>3. Waiting(c) /\ pc[c] = "none"
  BY <1>2 DEF IInv, QueueOK, Waiting
<1>4. /\ LocalsAt(c) /\ SocketsAt(c) /\ AnswerAt(c)
      /\ FreeFd \in Fds \ open /\ FreeFd # NoFd
  BY <1>1, <1>2, LeastFree DEF IInv
<1>5. ~Waiting(c)' /\ \A d \in Clients : d # c => (Waiting(d)' <=> Waiting(d))
  <2>1. ~Waiting(c)'
    BY <1>2 DEF IInv, QueueOK, Waiting
  <2>2. ASSUME NEW d \in Clients, d # c, Waiting(d)
        PROVE  Waiting(d)'
    <3>1. PICK i \in 1 .. Len(backlog) : backlog[i] = d
      BY <2>2 DEF Waiting
    <3>2. i - 1 \in 1 .. Len(backlog') /\ backlog'[i - 1] = d
      BY <1>2, <2>2, <3>1
    <3> QED
      BY <3>2 DEF Waiting
  <2> QED
    BY <1>2, <2>1, <2>2 DEF Waiting
<1>6. /\ pc'[c] = "start" /\ client_fd'[c] = FreeFd /\ server_fd'[c] = server_fd[c]
      /\ client_fd[c] = NoFd /\ server_fd[c] = NoFd /\ open' = open \cup {FreeFd}
      /\ Seen(c)' = Seen(c)
  BY <1>1, <1>c, <1>3, <1>4
  DEF TypeOK, Accept, TakeConnection, Goto, SocketsAt, HoldsClient, Connected, Seen, stream
<1>7. TypeOK'
  <2>1. pc' \in [Clients -> Stages]
    BY <1>1, <1>c, GotoType, StageNames DEF Accept, TakeConnection
  <2>2. client_fd' \in [Clients -> Fds \cup {NoFd}] /\ open' \subseteq Fds
    BY <1>1, <1>c, <1>4 DEF TypeOK, Accept, TakeConnection
  <2> QED
    BY <1>1, <1>2, <2>1, <2>2 DEF TypeOK, Accept, locals, client, stream
<1>8. Others(c)
  BY <1>1, <1>c, <1>5 DEF TypeOK, Others, Accept, TakeConnection, Goto, locals, client, stream
<1>9. LocalsAt(c)' /\ SocketsAt(c)' /\ AnswerAt(c)'
  BY <1>3, <1>4, <1>5, <1>6
  DEF Accept, locals, client, stream, LocalsAt, SocketsAt, AnswerAt, Closed, HoldsClient,
      Early, Serving, Connected
<1>10. QueueOK'
  <2>1. \A i \in 1 .. Len(backlog') : backlog'[i] \in Clients /\ backlog'[i] # c
    <3>1. \A i \in 1 .. Len(backlog') : i + 1 # 1 /\ 1 \in 1 .. Len(backlog)
      BY <1>2
    <3>2. \A i \in 1 .. Len(backlog') : backlog'[i] # c
      BY <1>2, <3>1 DEF IInv, QueueOK
    <3>3. backlog' \in Seq(Clients)
      BY <1>2
    <3>4. \A i \in 1 .. Len(backlog') : backlog'[i] \in Clients
      BY <3>3
    <3> QED
      BY <3>2, <3>4
  <2>2. \A i \in 1 .. Len(backlog') : pc'[backlog'[i]] = "none"
    BY <1>2, <1>8, <2>1 DEF IInv, QueueOK, Others
  <2>3. \A i, j \in 1 .. Len(backlog') : backlog'[i] = backlog'[j] => i = j
    BY <1>2 DEF IInv, QueueOK
  <2> QED
    BY <2>2, <2>3 DEF QueueOK
<1>11. Owned'
  BY <1>2, <1>4, <1>6, <1>8, SocketTaken
<1>12. CountOK'
  BY <1>2, <1>3, <1>6, <1>8, CountKept DEF Accept
<1> QED
  BY <1>2, <1>7, <1>8, <1>9, <1>10, <1>11, <1>12, OthersStay DEF IInv

LEMMA OpenSocketStep ==
    ASSUME IInv, NEW c \in Clients, OpenSocket(c)
    PROVE  IInv'
<1>1. /\ TypeOK /\ LocalsAt(c) /\ SocketsAt(c) /\ AnswerAt(c)
      /\ FreeFd \in Fds \ open /\ FreeFd # NoFd
  BY LeastFree DEF IInv, OpenSocket
<1>2. /\ pc[c] = "socket" /\ pc'[c] = "connect"
      /\ server_fd'[c] = FreeFd /\ client_fd'[c] = client_fd[c] /\ addr[c] > 0
  BY <1>1 DEF TypeOK, OpenSocket, Goto
<1>3. TypeOK'
  <2>1. pc' \in [Clients -> Stages]
    BY <1>1, GotoType, StageNames DEF OpenSocket
  <2>2. server_fd' \in [Clients -> Fds \cup {NoFd}] /\ open' \subseteq Fds
    BY <1>1 DEF TypeOK, OpenSocket
  <2> QED
    BY <1>1, <2>1, <2>2 DEF TypeOK, OpenSocket, locals, client, stream
<1>4. Others(c) /\ (Waiting(c)' <=> Waiting(c)) /\ Seen(c)' = Seen(c)
  BY <1>1 DEF TypeOK, Others, Waiting, Seen, OpenSocket, Goto, locals, client, stream
<1>5. LocalsAt(c)' /\ SocketsAt(c)' /\ AnswerAt(c)'
  BY <1>1, <1>2, <1>4
  DEF OpenSocket, locals, client, stream, LocalsAt, SocketsAt, AnswerAt, Closed, HoldsClient,
      Early, Serving, Connected
<1>6. Owned'
  BY <1>1, <1>2, <1>4, SocketTaken DEF SocketsAt, Connected, OpenSocket
<1>7. QueueOK' /\ CountOK'
  BY <1>2, <1>4, QueueKept, CountKept DEF OpenSocket
<1> QED
  BY <1>3, <1>4, <1>5, <1>6, <1>7, OthersStay DEF IInv

LEMMA TryAddressStep ==
    ASSUME IInv, NEW c \in Clients, TryAddress(c)
    PROVE  IInv'
<1>1. TypeOK /\ LocalsAt(c) /\ SocketsAt(c) /\ AnswerAt(c)
  BY DEF IInv
<1>2. /\ pc[c] = "connect" /\ client_fd'[c] = client_fd[c]
      /\ Seen(c)' = Seen(c) /\ (Waiting(c)' <=> Waiting(c))
  BY <1>1 DEF TypeOK, Seen, Waiting, TryAddress, Goto, table, client, stream
<1>3. \/ /\ pc'[c] = "forward"
         /\ server_fd'[c] = server_fd[c] /\ UNCHANGED table
      \/ /\ pc'[c] = "socket"
         /\ server_fd'[c] = NoFd /\ open' = open \ {server_fd[c]}
  BY <1>1 DEF TypeOK, TryAddress, Goto, table
<1>4. TypeOK'
  <2>1. pc' \in [Clients -> Stages]
    BY <1>1, GotoType, StageNames DEF TryAddress
  <2>2. addr' \in [Clients -> 0 .. Addresses]
    <3>1. addr[c] > 0 /\ addr[c] \in 0 .. Addresses
      BY <1>1, <1>2 DEF TypeOK, LocalsAt
    <3>2. 0 \in 0 .. Addresses /\ addr[c] - 1 \in 0 .. Addresses
      BY <3>1, ProxyAssumption
    <3> QED
      BY <1>1, <3>2 DEF TypeOK, TryAddress
  <2>3. server_fd' \in [Clients -> Fds \cup {NoFd}] /\ open' \subseteq Fds
    BY <1>1 DEF TypeOK, TryAddress, table
  <2> QED
    BY <1>1, <2>1, <2>2, <2>3 DEF TypeOK, TryAddress, table, client, stream
<1>5. Others(c)
  BY <1>1 DEF TypeOK, Others, Waiting, TryAddress, Goto, table, client, stream
<1>6. LocalsAt(c)' /\ SocketsAt(c)' /\ AnswerAt(c)'
  BY <1>1, <1>2, <1>3
  DEF TryAddress, client, stream, LocalsAt, SocketsAt, AnswerAt, Closed, HoldsClient,
      Early, Serving, Connected
<1>7. Owned'
  <2>1. CASE UNCHANGED table
    BY <2>1 DEF IInv, Owned, Held, table
  <2>2. CASE server_fd'[c] = NoFd /\ open' = open \ {server_fd[c]}
    BY <1>1, <1>2, <1>5, <2>2, SocketClosed DEF SocketsAt, Connected
  <2> QED
    BY <1>3, <2>1, <2>2
<1>8. QueueOK' /\ CountOK'
  BY <1>2, <1>3, <1>5, QueueKept, CountKept DEF TryAddress
<1> QED
  BY <1>4, <1>5, <1>6, <1>7, <1>8, OthersStay DEF IInv

LEMMA CloseServerStep ==
    ASSUME IInv, NEW c \in Clients, CloseServer(c)
    PROVE  IInv'
<1>1. TypeOK /\ LocalsAt(c) /\ SocketsAt(c) /\ AnswerAt(c)
  BY DEF IInv
<1>2. /\ pc[c] = "close_server" /\ pc'[c] = "close_client" /\ open' = open \ {server_fd[c]}
      /\ client_fd'[c] = client_fd[c] /\ server_fd'[c] = NoFd /\ server_fd[c] # NoFd
  BY <1>1 DEF TypeOK, CloseServer, Goto, SocketsAt, Connected
<1>3. Others(c) /\ (Waiting(c)' <=> Waiting(c)) /\ Seen(c)' = Seen(c)
  BY <1>1 DEF TypeOK, Others, Waiting, Seen, CloseServer, Goto, locals, client, stream
<1>4. TypeOK'
  <2>1. pc' \in [Clients -> Stages]
    BY <1>1, GotoType, StageNames DEF CloseServer
  <2>2. server_fd' \in [Clients -> Fds \cup {NoFd}] /\ open' \subseteq Fds
    BY <1>1 DEF TypeOK, CloseServer
  <2> QED
    BY <1>1, <2>1, <2>2 DEF TypeOK, CloseServer, locals, client, stream
<1>5. LocalsAt(c)' /\ SocketsAt(c)'
  BY <1>1, <1>2, <1>3
  DEF CloseServer, locals, client, stream, LocalsAt, SocketsAt, Closed, HoldsClient,
      Early, Connected
<1>6. AnswerAt(c)'
  BY <1>1, <1>2, <1>3
  DEF CloseServer, locals, client, stream, AnswerAt, Answered, Closed, Early, Serving
<1>7. Owned'
  BY <1>2, <1>3, SocketClosed
<1>8. QueueOK' /\ CountOK'
  BY <1>2, <1>3, QueueKept, CountKept DEF CloseServer
<1> QED
  BY <1>3, <1>4, <1>5, <1>6, <1>7, <1>8, OthersStay DEF IInv

(* A first part of one element, or of a response, is one again. *)
LEMMA FrontOfOne ==
    ASSUME NEW S, NEW s \in Seq(S), NEW t \in Seq(S), NEW x, s \o t = <<x>>, s # <<>>
    PROVE  s = <<x>>
<1>1. Len(s) \in Nat \ {0} /\ Len(t) \in Nat /\ Len(s \o t) = Len(s) + Len(t)
  OBVIOUS
<1>2. Len(s) = 1 /\ Len(t) = 0
  <2>1. Len(s \o t) = 1
    OBVIOUS
  <2>2. \A m \in Nat \ {0}, n \in Nat : m + n = 1 => m = 1 /\ n = 0
    OBVIOUS
  <2>3. Len(s) + Len(t) = 1
    BY <1>1, <2>1
  <2> QED
    BY <1>1, <2>2, <2>3
<1>3. s[1] = (s \o t)[1]
  BY <1>2
<1> QED
  BY <1>2, <1>3

LEMMA FrontOfResponse ==
    ASSUME NEW S, NEW s \in Seq(S), NEW t \in Seq(S), NEW n \in Nat, s \o t = Response(n)
    PROVE  s = Response(Len(s))
<1>1. Len(s) \in Nat /\ Len(t) \in Nat /\ Len(s \o t) = Len(s) + Len(t)
  OBVIOUS
<1>2. n = Len(s) + Len(t)
  BY <1>1, ResponseGrows
<1>3. \A i \in 1 .. Len(s) : s[i] = (s \o t)[i]
  OBVIOUS
<1>4. \A i \in 1 .. Len(s) : i \in 1 .. n /\ Response(n)[i] = i
  BY <1>1, <1>2 DEF Response
<1>5. \A i \in 1 .. Len(s) : s[i] = i
  BY <1>3, <1>4
<1>6. s = [i \in 1 .. Len(s) |-> s[i]]
  OBVIOUS
<1> QED
  BY <1>5, <1>6 DEF Response

(* What has arrived of an answer is a first part of it. *)
Prefixes(c) ==
    \/ got[c] = <<>>
    \/ kind[c] \in Gets /\ got[c] = <<502>>
    \/ kind[c] \in Gets /\ got[c] = Response(Len(got[c]))
    \/ kind[c] \notin Gets /\ got[c] = <<Verdict(kind[c])>>

LEMMA FrontOfAnswer ==
    ASSUME TypeOK, NEW c \in Clients, Answered(c)
    PROVE  Prefixes(c)
<1>1. got[c] \in Seq(Parts) /\ toClient[c] \in Seq(Parts)
  BY DEF TypeOK
<1>2. CASE Seen(c) = Response(Len(Seen(c))) /\ kind[c] \in Gets
  <2>1. Len(Seen(c)) \in Nat
    <3>1. \A s, t \in Seq(Parts) : Len(s \o t) \in Nat
      OBVIOUS
    <3> QED
      BY <1>1, <3>1 DEF Seen
  <2>2. got[c] = Response(Len(got[c]))
    BY <1>1, <1>2, <2>1, FrontOfResponse DEF Seen
  <2> QED
    BY <1>2, <2>2 DEF Prefixes
<1>3. ASSUME NEW x, Seen(c) = <<x>>
      PROVE  got[c] \in {<<>>, <<x>>}
  BY <1>1, <1>3, FrontOfOne DEF Seen
<1>4. CASE Seen(c) = <<>>
  <2>1. got[c] = <<>>
    BY <1>1, <1>4 DEF Seen
  <2> QED
    BY <2>1 DEF Prefixes
<1> QED
  BY <1>2, <1>3, <1>4 DEF Answered, Prefixes

LEMMA CloseClientStep ==
    ASSUME IInv, NEW c \in Clients, CloseClient(c)
    PROVE  IInv'
<1>1. TypeOK /\ LocalsAt(c) /\ SocketsAt(c) /\ AnswerAt(c)
  BY DEF IInv
<1>2. /\ pc[c] = "close_client" /\ pc'[c] = "exit" /\ open' = open \ {client_fd[c]}
      /\ client_fd'[c] = NoFd /\ client_fd[c] # NoFd /\ server_fd'[c] = server_fd[c]
      /\ relayed'[c] = 0 /\ kind'[c] = kind[c] /\ cl'[c] = cl[c]
  BY <1>1
  DEF TypeOK, CloseClient, Goto, SocketsAt, HoldsClient, client
<1>w. ~Waiting(c)
  BY <1>2 DEF IInv, QueueOK, Waiting
<1>3. Others(c) /\ (Waiting(c)' <=> Waiting(c))
  BY <1>1 DEF TypeOK, Others, Waiting, CloseClient, Goto, client, stream
<1>4. \/ Seen(c)' = Seen(c) /\ toClient'[c] = toClient[c] /\ got'[c] = got[c] /\ cut'[c] = cut[c]
      \/ /\ cl[c] = "open" /\ got'[c] = got[c]
         /\ toClient'[c] = <<>> /\ cut'[c] = TRUE
  BY <1>1 DEF TypeOK, CloseClient, Seen
<1>5. TypeOK'
  <2>1. pc' \in [Clients -> Stages]
    BY <1>1, GotoType, StageNames DEF CloseClient
  <2>2. client_fd' \in [Clients -> Fds \cup {NoFd}] /\ open' \subseteq Fds
    BY <1>1 DEF TypeOK, CloseClient
  <2>3. toClient' \in [Clients -> Seq(Parts)] /\ cut' \in [Clients -> BOOLEAN]
    <3>1. <<>> \in Seq(Parts)
      OBVIOUS
    <3>2. CASE UNCHANGED <<toClient, cut>>
      BY <1>1, <3>2 DEF TypeOK
    <3>3. CASE /\ toClient' = [toClient EXCEPT ![c] = <<>>]
               /\ cut' = [cut EXCEPT ![c] = TRUE]
      BY <1>1, <3>1, <3>3 DEF TypeOK
    <3> QED
      BY <3>2, <3>3 DEF CloseClient
  <2>4. code' \in [Clients -> Codes \cup {0}] /\ relayed' \in [Clients -> 0 .. Chunks]
    BY <1>1, ProxyAssumption DEF TypeOK, CloseClient
  <2> QED
    BY <1>1, <2>1, <2>2, <2>3, <2>4 DEF TypeOK, CloseClient, client
<1>6. LocalsAt(c)' /\ SocketsAt(c)'
  BY <1>1, <1>2, <1>3, <1>4 DEF LocalsAt, SocketsAt, Closed, HoldsClient, Early, Connected
<1>7. AnswerAt(c)'
  <2>1. ASSUME cl[c] = "open"
        PROVE  Answered(c)'
    <3>1. Answered(c)
      BY <1>1, <1>2, <2>1 DEF AnswerAt
    <3>2. CASE Seen(c)' = Seen(c) /\ cut'[c] = cut[c]
      BY <1>2, <3>1, <3>2 DEF Answered
    <3>3. CASE toClient'[c] = <<>> /\ got'[c] = got[c] /\ cut'[c] = TRUE
      <4>1. got[c] \in Seq(Parts) /\ toClient[c] \in Seq(Parts) /\ Seen(c)' = got[c]
        BY <1>1, <3>3 DEF TypeOK, Seen
      <4>2. Prefixes(c)
        BY <1>1, <3>1, <4>1, FrontOfAnswer
      <4> QED
        BY <1>2, <3>3, <4>1, <4>2 DEF Answered, Prefixes
    <3> QED
      BY <1>4, <3>2, <3>3
  <2> QED
    BY <1>2, <1>3, <1>w, <2>1 DEF AnswerAt, Closed, Early, Serving
<1>8. Owned'
  BY <1>2, <1>3, SocketClosed
<1>9. QueueOK' /\ CountOK'
  BY <1>2, <1>3, QueueKept, CountKept DEF CloseClient
<1> QED
  BY <1>3, <1>5, <1>6, <1>7, <1>8, <1>9, OthersStay DEF IInv

LEMMA ClientReceivesStep ==
    ASSUME IInv, NEW c \in Clients, ClientReceives(c)
    PROVE  IInv'
<1>1. TypeOK /\ LocalsAt(c) /\ SocketsAt(c) /\ AnswerAt(c)
  BY DEF IInv
<1>2. /\ got[c] \in Seq(Parts) /\ toClient[c] \in Seq(Parts) /\ toClient[c] # <<>>
      /\ got'[c] = Append(got[c], Head(toClient[c])) /\ toClient'[c] = Tail(toClient[c])
      /\ cl[c] = "open"
  BY <1>1 DEF TypeOK, ClientReceives
<1>3. Seen(c)' = Seen(c)
  BY <1>2, ReceivedWasSent DEF Seen
<1>4. TypeOK'
  <2>1. Append(got[c], Head(toClient[c])) \in Seq(Parts) /\ Tail(toClient[c]) \in Seq(Parts)
    BY <1>2
  <2>2. got' \in [Clients -> Seq(Parts)] /\ toClient' \in [Clients -> Seq(Parts)]
    BY <1>1, <2>1 DEF TypeOK, ClientReceives
  <2> QED
    BY <1>1, <2>2 DEF TypeOK, ClientReceives, table, locals, client
<1>5. Others(c) /\ (Waiting(c)' <=> Waiting(c))
  BY <1>1 DEF TypeOK, Others, Waiting, ClientReceives, table, locals, client
<1>6. LocalsAt(c)' /\ SocketsAt(c)'
  BY <1>1, <1>2, <1>5
  DEF ClientReceives, table, locals, client, LocalsAt, SocketsAt, Closed, HoldsClient
<1>7. AnswerAt(c)'
  BY <1>1, <1>3, <1>5 DEF ClientReceives, locals, client, AnswerAt, Answered, Closed
<1> QED
  BY <1>4, <1>5, <1>6, <1>7, QuietStep DEF ClientReceives

LEMMA ClientDoneStep ==
    ASSUME IInv, NEW c \in Clients, ClientDone(c)
    PROVE  IInv'
<1>1. TypeOK /\ LocalsAt(c) /\ SocketsAt(c) /\ AnswerAt(c)
  BY DEF IInv
<1>2. /\ cl'[c] = "idle" /\ got'[c] = <<>> /\ ~cut'[c] /\ Closed(c)
      /\ toClient'[c] = toClient[c] /\ toClient[c] = <<>>
  BY <1>1 DEF TypeOK, ClientDone, LocalsAt
<1>3. TypeOK'
  <2>1. got' \in [Clients -> Seq(Parts)]
    <3>1. <<>> \in Seq(Parts)
      OBVIOUS
    <3> QED
      BY <1>1, <3>1 DEF TypeOK, ClientDone
  <2> QED
    BY <1>1, <2>1 DEF TypeOK, ClientDone, table, locals
<1>4. Others(c) /\ (Waiting(c)' <=> Waiting(c))
  BY <1>1 DEF TypeOK, Others, Waiting, ClientDone, table, locals
<1>5. LocalsAt(c)' /\ SocketsAt(c)' /\ AnswerAt(c)'
  BY <1>1, <1>2, <1>4
  DEF ClientDone, table, locals, LocalsAt, SocketsAt, AnswerAt, Closed, HoldsClient
<1> QED
  BY <1>3, <1>4, <1>5, QuietStep DEF ClientDone

LEMMA ClientLeavesStep ==
    ASSUME IInv, NEW c \in Clients, ClientLeaves(c)
    PROVE  IInv'
<1>1. TypeOK /\ LocalsAt(c) /\ SocketsAt(c) /\ AnswerAt(c)
  BY DEF IInv
<1>2. /\ cl[c] = "open" /\ cl'[c] = "gone" /\ kind'[c] = kind[c]
      /\ got'[c] = <<>> /\ ~cut'[c] /\ toClient'[c] = <<>>
  BY <1>1 DEF TypeOK, ClientLeaves
<1>3. TypeOK'
  <2>1. got' \in [Clients -> Seq(Parts)] /\ toClient' \in [Clients -> Seq(Parts)]
    <3>1. <<>> \in Seq(Parts)
      OBVIOUS
    <3> QED
      BY <1>1, <3>1 DEF TypeOK, ClientLeaves
  <2> QED
    BY <1>1, <2>1 DEF TypeOK, ClientLeaves, table, locals
<1>4. Others(c) /\ (Waiting(c)' <=> Waiting(c))
  BY <1>1 DEF TypeOK, Others, Waiting, ClientLeaves, table, locals
<1>5. LocalsAt(c)' /\ SocketsAt(c)' /\ AnswerAt(c)'
  BY <1>1, <1>2, <1>4
  DEF ClientLeaves, table, locals, LocalsAt, SocketsAt, AnswerAt, Closed, HoldsClient
<1> QED
  BY <1>3, <1>4, <1>5, QuietStep DEF ClientLeaves

(* What is sent is one thing more, or nothing to a client that has left. *)
LEMMA SendStep ==
    ASSUME TypeOK, NEW c \in Clients, NEW x \in Parts, Send(c, x),
           got'[c] = got[c]
    PROVE  /\ toClient' \in [Clients -> Seq(Parts)]
           /\ \A d \in Clients \ {c} : toClient'[d] = toClient[d]
           /\ cl[c] = "open" => Seen(c)' = Append(Seen(c), x)
           /\ cl[c] # "open" => cl[c] = "gone" /\ toClient'[c] = toClient[c]
<1>1. CASE cl[c] = "open" /\ toClient' = [toClient EXCEPT ![c] = Append(@, x)]
  <2>1. toClient'[c] = Append(toClient[c], x)
    BY <1>1 DEF TypeOK
  <2>2. got[c] \in Seq(Parts) /\ toClient[c] \in Seq(Parts)
    BY DEF TypeOK
  <2>3. Append(toClient[c], x) \in Seq(Parts)
    BY <2>2
  <2>4. toClient' \in [Clients -> Seq(Parts)]
    BY <1>1, <2>3 DEF TypeOK
  <2>5. got[c] \o Append(toClient[c], x) = Append(got[c] \o toClient[c], x)
    <3>1. \A s, t \in Seq(Parts) : s \o Append(t, x) = Append(s \o t, x)
      BY SendExtends
    <3> QED
      BY <2>2, <3>1
  <2>6. Seen(c)' = Append(Seen(c), x)
    BY <2>1, <2>5 DEF Seen
  <2> QED
    BY <1>1, <2>4, <2>6 DEF TypeOK
<1>2. CASE cl[c] = "gone" /\ UNCHANGED toClient
  BY <1>2 DEF TypeOK
<1> QED
  BY <1>1, <1>2 DEF Send

LEMMA DeliverStep ==
    ASSUME IInv, NEW c \in Clients, Deliver(c)
    PROVE  IInv'
<1>1. TypeOK /\ LocalsAt(c) /\ SocketsAt(c) /\ AnswerAt(c)
  BY DEF IInv
<1>2. /\ pc[c] = "deliver" /\ got'[c] = got[c] /\ cut'[c] = cut[c]
      /\ relayed[c] \in Nat /\ relayed[c] > 0 /\ relayed[c] \in Parts
      /\ relayed'[c] = relayed[c] /\ cl'[c] = cl[c] /\ kind'[c] = kind[c]
      /\ client_fd'[c] = client_fd[c] /\ server_fd'[c] = server_fd[c]
  BY <1>1, ProxyAssumption DEF TypeOK, LocalsAt, Parts, Deliver, table, locals, client
<1>3. /\ toClient' \in [Clients -> Seq(Parts)]
      /\ \A d \in Clients \ {c} : toClient'[d] = toClient[d]
      /\ cl[c] = "open" => Seen(c)' = Append(Seen(c), relayed[c])
      /\ cl[c] # "open" => cl[c] = "gone" /\ toClient'[c] = toClient[c]
  BY <1>1, <1>2, SendStep DEF Deliver
<1>4. \/ pc'[c] = "relay"
      \/ pc'[c] = "close_server" /\ cl[c] = "gone"
  BY <1>1 DEF TypeOK, Deliver, Goto
<1>5. TypeOK'
  <2>1. pc' \in [Clients -> Stages]
    BY <1>1, GotoType, StageNames DEF Deliver
  <2> QED
    BY <1>1, <1>3, <2>1 DEF TypeOK, Deliver, table, locals, client
<1>6. Others(c) /\ (Waiting(c)' <=> Waiting(c))
  BY <1>1, <1>3 DEF TypeOK, Others, Waiting, Deliver, Goto, table, locals, client
<1>7. LocalsAt(c)' /\ SocketsAt(c)'
  BY <1>1, <1>2, <1>3, <1>4 DEF LocalsAt, SocketsAt, Closed, HoldsClient, Early, Connected
<1>8. AnswerAt(c)'
  <2>1. ASSUME cl[c] = "open"
        PROVE  Seen(c)' = Response(relayed[c]) /\ kind[c] \in Gets
    <3>1. Seen(c) = Response(relayed[c] - 1) /\ kind[c] \in Gets /\ relayed[c] - 1 \in Nat
      BY <1>1, <1>2, <2>1 DEF AnswerAt, Serving
    <3>2. Append(Response(relayed[c] - 1), relayed[c]) = Response(relayed[c])
      <4>1. relayed[c] = (relayed[c] - 1) + 1
        BY <1>2
      <4> QED
        BY <3>1, <4>1, ResponseGrows
    <3> QED
      BY <1>3, <2>1, <3>1, <3>2
  <2> QED
    BY <1>2, <1>4, <2>1 DEF AnswerAt, Early, Serving, Closed
<1>9. UNCHANGED <<backlog, table, active_threads>>
  BY DEF Deliver
<1> QED
  BY <1>2, <1>4, <1>5, <1>6, <1>7, <1>8, <1>9, QuietStep

LEMMA RefuseStep ==
    ASSUME IInv, NEW c \in Clients, Refuse(c)
    PROVE  IInv'
<1>1. TypeOK /\ LocalsAt(c) /\ SocketsAt(c) /\ AnswerAt(c)
  BY DEF IInv
<1>2. /\ pc[c] = "refuse" /\ got'[c] = got[c] /\ cut'[c] = cut[c]
      /\ code[c] \in Codes /\ code[c] \in Parts
      /\ relayed'[c] = relayed[c] /\ cl'[c] = cl[c] /\ kind'[c] = kind[c]
      /\ client_fd'[c] = client_fd[c] /\ server_fd'[c] = server_fd[c]
  BY <1>1 DEF TypeOK, LocalsAt, Parts, Refuse, table, locals, client
<1>3. /\ toClient' \in [Clients -> Seq(Parts)]
      /\ \A d \in Clients \ {c} : toClient'[d] = toClient[d]
      /\ cl[c] = "open" => Seen(c)' = Append(Seen(c), code[c])
      /\ cl[c] # "open" => cl[c] = "gone" /\ toClient'[c] = toClient[c]
  BY <1>1, <1>2, SendStep DEF Refuse
<1>4. \/ pc'[c] = "close_client" /\ server_fd[c] = NoFd
      \/ pc'[c] = "close_server" /\ server_fd[c] # NoFd
  BY <1>1 DEF TypeOK, Refuse, Goto
<1>5. TypeOK'
  <2>1. pc' \in [Clients -> Stages]
    BY <1>1, GotoType, StageNames DEF Refuse
  <2> QED
    BY <1>1, <1>3, <2>1 DEF TypeOK, Refuse, table, locals, client
<1>6. Others(c) /\ (Waiting(c)' <=> Waiting(c))
  BY <1>1, <1>3 DEF TypeOK, Others, Waiting, Refuse, Goto, table, locals, client
<1>7. LocalsAt(c)' /\ SocketsAt(c)'
  BY <1>1, <1>2, <1>3, <1>4 DEF LocalsAt, SocketsAt, Closed, HoldsClient, Early, Connected
<1>8. AnswerAt(c)'
  <2>1. ASSUME cl[c] = "open"
        PROVE  Answered(c)'
    <3>1. Seen(c) = <<>>
      BY <1>1, <1>2, <2>1 DEF AnswerAt, Early, Closed
    <3>2. Seen(c)' = <<code[c]>>
      BY <1>3, <2>1, <3>1
    <3>3. IF kind[c] \in Gets THEN code[c] = 502 ELSE code[c] = Verdict(kind[c])
      BY <1>1, <1>2, <2>1 DEF AnswerAt
    <3> QED
      BY <1>2, <3>2, <3>3 DEF Answered
  <2> QED
    BY <1>2, <1>4, <2>1 DEF AnswerAt, Early, Serving, Closed
<1>9. UNCHANGED <<backlog, table, active_threads>>
  BY DEF Refuse
<1> QED
  BY <1>2, <1>4, <1>5, <1>6, <1>7, <1>8, <1>9, QuietStep

-----------------------------------------------------------------------------
(* The invariant holds *)

LEMMA InvInit == Init => IInv
<1> SUFFICES ASSUME Init PROVE IInv
  OBVIOUS
<1>1. TypeOK
  <2>1. <<>> \in Seq(Clients) /\ <<>> \in Seq(Parts)
    OBVIOUS
  <2> QED
    BY <2>1, StageNames, ProxyAssumption DEF Init, TypeOK
<1>2. \A c \in Clients : ~Waiting(c) /\ Seen(c) = <<>>
  BY DEF Init, Waiting, Seen
<1>3. QueueOK /\ Owned
  BY DEF Init, QueueOK, Owned, Held
<1>4. CountOK
  <2>1. {c \in Clients : pc[c] \notin {"none", "start"}} = {}
    BY DEF Init
  <2> QED
    BY <2>1, FS_EmptySet DEF Init, CountOK
<1>5. \A c \in Clients : LocalsAt(c) /\ SocketsAt(c) /\ AnswerAt(c)
  BY <1>2 DEF Init, LocalsAt, SocketsAt, AnswerAt, Closed, HoldsClient, Early, Connected
<1> QED
  BY <1>1, <1>3, <1>4, <1>5 DEF IInv

LEMMA InvStutter == IInv /\ UNCHANGED vars => IInv'
<1> SUFFICES ASSUME IInv, UNCHANGED vars PROVE IInv'
  OBVIOUS
<1>1. TypeOK' /\ QueueOK' /\ CountOK' /\ Owned'
  BY DEF IInv, vars, table, locals, client, stream, TypeOK, QueueOK, CountOK, Owned, Held
<1>2. ASSUME NEW c \in Clients
      PROVE  LocalsAt(c)' /\ SocketsAt(c)' /\ AnswerAt(c)'
  <2>1. /\ Seen(c)' = Seen(c) /\ (Closed(c)' <=> Closed(c)) /\ (HoldsClient(c)' <=> HoldsClient(c))
    BY DEF vars, stream, Seen, Closed, Waiting, HoldsClient
  <2>2. Answered(c)' <=> Answered(c)
    BY <2>1 DEF vars, client, stream, Answered
  <2>3. LocalsAt(c) /\ SocketsAt(c) /\ AnswerAt(c)
    BY DEF IInv
  <2> QED
    BY <2>1, <2>2, <2>3
    DEF vars, table, locals, client, stream, LocalsAt, SocketsAt, AnswerAt
<1> QED
  BY <1>1, <1>2 DEF IInv

LEMMA InvNext == IInv /\ [Next]_vars => IInv'
<1> SUFFICES ASSUME IInv, [Next]_vars PROVE IInv'
  OBVIOUS
<1>1. CASE Accept
  BY <1>1, AcceptStep
<1>2. CASE UNCHANGED vars
  BY <1>2, InvStutter
<1>3. ASSUME NEW c \in Clients, NEW k \in Kinds, Connect(c, k)
      PROVE  IInv'
  BY <1>3, ConnectStep
<1>4. ASSUME NEW c \in Clients,
             \/ ClientLeaves(c) \/ ReadPart(c) \/ RelayFails(c)
             \/ ClientStep(c) \/ ServerStep(c)
      PROVE  IInv'
  BY <1>4, ClientLeavesStep, ReadPartStep, RelayFailsStep, ReadRestStep, ClientReceivesStep,
     ClientDoneStep, RelayStep, RelayEndStep
  DEF ClientStep, ServerStep
<1>5. ASSUME NEW c \in Clients, ThreadStep(c)
      PROVE  IInv'
  BY <1>5, StartStep, ReadEndStep, ResolveStep, OpenSocketStep, NoSocketStep, NoAddressStep,
     TryAddressStep, ForwardStep, DeliverStep, RefuseStep, CloseServerStep, CloseClientStep, ExitStep
  DEF ThreadStep
<1> QED
  BY <1>1, <1>2, <1>3, <1>4, <1>5 DEF Next, Quiet

LEMMA InvAlways == Spec => []IInv
BY InvInit, InvNext, PTL DEF Spec

-----------------------------------------------------------------------------
(* Descriptors, addresses and counters stay what they are: none is used that
   the process does not have, and no thread reads past what it received. *)
THEOREM ProxyTypes == Spec => []TypeOK
<1>1. IInv => TypeOK
  BY DEF IInv
<1> QED
  BY <1>1, InvAlways, PTL

(* Every descriptor in use is held by exactly one thread, whatever fails and
   however the threads interleave; the counter is the number of threads. *)
THEOREM NoDescriptorLost == Spec => []DescriptorsOwned
<1>1. IInv => DescriptorsOwned
  <2> SUFFICES ASSUME IInv PROVE DescriptorsOwned
    OBVIOUS
  <2>1. \A c \in Clients : Sockets(c) = Held(c)
    <3>1. ASSUME NEW c \in Clients
          PROVE  Sockets(c) = Held(c)
      <4>1. SocketsAt(c)
        BY DEF IInv
      <4>2. CASE HoldsClient(c)
        BY <4>1, <4>2 DEF SocketsAt, Sockets, HoldsServer, Held
      <4>3. CASE ~HoldsClient(c)
        BY <4>1, <4>3 DEF SocketsAt, Sockets, HoldsServer, HoldsClient, Held, Connected
      <4> QED
        BY <4>2, <4>3
    <3> QED
      BY <3>1
  <2>2. open = UNION {Sockets(c) : c \in Clients}
    BY <2>1 DEF IInv, Owned
  <2>3. \A c \in Clients : HoldsServer(c) => server_fd[c] # client_fd[c]
    BY DEF IInv, Owned, HoldsServer
  <2>4. \A c, d \in Clients : c # d => Sockets(c) \cap Sockets(d) = {}
    BY <2>1 DEF IInv, Owned
  <2> QED
    BY <2>2, <2>3, <2>4 DEF DescriptorsOwned, IInv, CountOK
<1> QED
  BY <1>1, InvAlways, PTL

LEMMA AnswersHold ==
    ASSUME IInv, NEW c \in Clients, cl[c] = "open"
    PROVE  /\ \/ Seen(c) = <<>>
              \/ kind[c] \in Gets /\ Seen(c) = <<502>>
              \/ kind[c] \in Gets /\ Seen(c) = Response(Len(Seen(c)))
              \/ kind[c] \notin Gets /\ Seen(c) = <<Verdict(kind[c])>>
           /\ Closed(c) => Answered(c)
<1>1. TypeOK /\ LocalsAt(c) /\ AnswerAt(c)
  BY DEF IInv
<1>2. CASE pc[c] \in Early \cup {"close_server", "close_client"}
  BY <1>1, <1>2 DEF AnswerAt, Answered
<1>3. CASE pc[c] \in {"relay", "deliver"}
  <2>1. PICK n \in Nat : kind[c] \in Gets /\ Seen(c) = Response(n)
    <3>1. relayed[c] \in Nat /\ (pc[c] = "deliver" => relayed[c] - 1 \in Nat)
      BY <1>1, <1>3, ProxyAssumption DEF TypeOK, LocalsAt
    <3> QED
      BY <1>1, <1>3, <3>1 DEF AnswerAt, Serving
  <2>2. Len(Seen(c)) = n
    BY <2>1, ResponseGrows
  <2> QED
    BY <1>3, <2>1, <2>2 DEF Closed
<1> QED
  BY <1>1, <1>2, <1>3 DEF TypeOK, Stages, Early

(* No client is sent more than one answer, a mixture of two, an error after a
   part of a response, or an error that is not the one its request deserves. *)
THEOREM OneAnswerEach == Spec => []OneAnswer
<1>1. IInv => OneAnswer
  BY AnswersHold DEF OneAnswer
<1> QED
  BY <1>1, InvAlways, PTL

(* When the connection of a client is closed and nothing broke, it has the
   whole response, or the error. *)
THEOREM AnswersWhole == Spec => []WholeAnswer
<1>1. IInv => WholeAnswer
  BY AnswersHold DEF WholeAnswer, Answered
<1> QED
  BY <1>1, InvAlways, PTL

=============================================================================
