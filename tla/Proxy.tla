-------------------------------- MODULE Proxy --------------------------------
(***************************************************************************)
(* The HTTP proxy of Lab03/proxy.cpp, with its clients and web servers.    *)
(*                                                                         *)
(* Each connection has a detached thread (handle_client); the threads      *)
(* share a counter and, through the kernel, the process's table of         *)
(* descriptors, of which there are only so many.  A client has one         *)
(* connection at a time.  A step of a thread that waits for one of its two *)
(* ends is a step of that end, too: a part of the header, or a chunk of a  *)
(* response, is sent and received in one.                                  *)
(***************************************************************************)
EXTENDS Integers, Sequences, FiniteSets

CONSTANTS Clients,
          SilentClients,   \* clients that may stop sending and reading
          SilentServers,   \* clients whose web server may stop answering
          Kinds,           \* the requests that are sent, see Verdict
          Fds, NoFd,       \* descriptors left for connections; -1
          Addresses,       \* the addresses that getaddrinfo returns for a host
          Chunks,          \* the length of a response, in what a recv returns
          Window,          \* chunks that a connection holds before send blocks
          MaxRequests      \* bound: requests sent by all clients

ASSUME ProxyAssumption == /\ SilentClients \subseteq Clients
                          /\ SilentServers \subseteq Clients
                          /\ IsFiniteSet(Clients)
                          /\ Fds \subseteq Nat /\ NoFd \notin Fds
                          /\ Kinds \subseteq {"get", "pipelined", "malformed", "post", "endless"}
                          /\ Addresses \in Nat /\ Chunks \in Nat
                          /\ Window \in Nat \ {0} /\ MaxRequests \in Nat

VARIABLES backlog,                   \* connections that wait for accept
          open,                      \* the descriptors in use
          active_threads,
          pc,                        \* the thread of each client's connection
          client_fd, server_fd,      \* its sockets
          begun,                     \* it has read a part of the header
          addr,                      \* addresses it has left to try
          code,                      \* the error that it is about to send
          relayed,                   \* chunks of the response that it has read
          cl, kind,                  \* the client: its state and its request
          toClient, got,             \* chunks and errors under way, and those that arrived
          cut,                       \* history: the exchange was broken by one of its ends
          requests                   \* bounded count

table == <<open, client_fd, server_fd>>
locals == <<begun, addr, code, relayed>>
client == <<cl, kind, requests>>
stream == <<toClient, got, cut>>
vars == <<backlog, table, active_threads, pc, locals, client, stream>>

Least(S) == CHOOSE x \in S : \A y \in S : x <= y
FreeFd == Least(Fds \ open)
Goto(c, l) == pc' = [pc EXCEPT ![c] = l]

(* What a request is answered with, whatever the web server does: a header
   that never ends, a line that is not "method url version" or has a version
   or a URL that is none, another method than GET. *)
Gets == {"get", "pipelined"}
Verdict(k) == CASE k \in {"endless", "malformed"} -> 400
                [] k = "post" -> 501
                [] OTHER -> 200

(* Requests that go on after what is read of them: a second request, a body,
   a header of more than 65536 bytes. *)
LeavesUnread(k) == k \in {"pipelined", "post", "endless"}

Response(n) == [k \in 1 .. n |-> k]

Init == /\ backlog = <<>>
        /\ open = {}
        /\ active_threads = 0
        /\ pc = [c \in Clients |-> "none"]
        /\ client_fd = [c \in Clients |-> NoFd] /\ server_fd = client_fd
        /\ begun = [c \in Clients |-> FALSE] /\ cut = begun
        /\ addr = [c \in Clients |-> 0] /\ code = addr /\ relayed = addr
        /\ cl = [c \in Clients |-> "idle"]
        /\ kind = [c \in Clients |-> "none"]
        /\ toClient = [c \in Clients |-> <<>>] /\ got = toClient
        /\ requests = 0

-----------------------------------------------------------------------------
(* Clients (browsers; not part of the repository) *)

Waiting(c) == \E k \in 1 .. Len(backlog) : backlog[k] = c
Closed(c) == pc[c] \in {"none", "exit"} /\ ~Waiting(c)

Connect(c, k) == /\ cl[c] = "idle" /\ pc[c] = "none"
                 /\ requests < MaxRequests
                 /\ requests' = requests + 1
                 /\ cl' = [cl EXCEPT ![c] = "open"]
                 /\ kind' = [kind EXCEPT ![c] = k]
                 /\ backlog' = Append(backlog, c)
                 /\ UNCHANGED <<table, active_threads, pc, locals, stream>>

ClientReceives(c) == /\ cl[c] = "open" /\ toClient[c] # <<>>
                     /\ got' = [got EXCEPT ![c] = Append(@, Head(toClient[c]))]
                     /\ toClient' = [toClient EXCEPT ![c] = Tail(@)]
                     /\ UNCHANGED <<backlog, table, active_threads, pc, locals, client, cut>>

(* The client sees the end of its connection, or had gone before it. *)
ClientDone(c) == /\ \/ cl[c] = "open" /\ Closed(c) /\ toClient[c] = <<>>
                    \/ cl[c] = "gone" /\ Closed(c)
                 /\ cl' = [cl EXCEPT ![c] = "idle"]
                 /\ kind' = [kind EXCEPT ![c] = "none"]
                 /\ got' = [got EXCEPT ![c] = <<>>]
                 /\ cut' = [cut EXCEPT ![c] = FALSE]
                 /\ UNCHANGED <<backlog, table, active_threads, pc, locals, requests, toClient>>

ClientLeaves(c) == /\ cl[c] = "open"
                   /\ cl' = [cl EXCEPT ![c] = "gone"]
                   /\ toClient' = [toClient EXCEPT ![c] = <<>>]
                   /\ got' = [got EXCEPT ![c] = <<>>]
                   /\ cut' = [cut EXCEPT ![c] = FALSE]
                   /\ UNCHANGED <<backlog, table, active_threads, pc, locals, kind, requests>>

-----------------------------------------------------------------------------
(* main *)

TakeConnection(c, fd) == /\ client_fd' = [client_fd EXCEPT ![c] = fd]
                         /\ open' = open \cup {fd}
                         /\ Goto(c, "start")

(* Mutant: handle_client is called, and no thread started. *)
Accept_serially == /\ backlog # <<>> /\ Fds \ open # {}
                   /\ \A c \in Clients : pc[c] = "none"
                   /\ TakeConnection(Head(backlog), FreeFd)
                   /\ backlog' = Tail(backlog)
                   /\ UNCHANGED <<server_fd, active_threads, locals, client, stream>>

(* The lowest free descriptor is taken; without one accept fails, is tried
   again at once, and leaves the connection where it is. *)
Accept == /\ backlog # <<>> /\ Fds \ open # {}
          /\ TakeConnection(Head(backlog), FreeFd)
          /\ backlog' = Tail(backlog)
          /\ UNCHANGED <<server_fd, active_threads, locals, client, stream>>

-----------------------------------------------------------------------------
(* handle_client: the request *)

Start(c) == /\ pc[c] = "start"
            /\ active_threads' = active_threads + 1
            /\ Goto(c, "read")
            /\ UNCHANGED <<backlog, table, locals, client, stream>>

Fail(c, n) == /\ Goto(c, "refuse")
              /\ code' = [code EXCEPT ![c] = n]

ReadPart(c) == /\ pc[c] = "read" /\ cl[c] = "open" /\ ~begun[c]
               /\ begun' = [begun EXCEPT ![c] = TRUE]
               /\ UNCHANGED <<backlog, table, active_threads, pc, addr, code, relayed, client, stream>>

(* The request is refused or served. *)
Judge(c) == IF Verdict(kind[c]) # 200 THEN Fail(c, Verdict(kind[c]))
                                      ELSE Goto(c, "resolve") /\ UNCHANGED code

(* The header is complete, or too long. *)
ReadRest(c) == /\ pc[c] = "read" /\ cl[c] = "open"
               /\ Judge(c)
               /\ begun' = [begun EXCEPT ![c] = FALSE]
               /\ UNCHANGED <<backlog, table, active_threads, addr, relayed, client, stream>>

(* Mutant: the end of the connection is taken for an interrupted recv. *)
ReadEnd_retries(c) == /\ pc[c] = "read" /\ cl[c] = "gone"
                      /\ begun' = [begun EXCEPT ![c] = TRUE]
                      /\ UNCHANGED <<backlog, table, active_threads, pc, addr, code, relayed,
                                     client, stream>>

(* What a client that has left had sent may still arrive, or its end. *)
ReadEnd(c) == /\ pc[c] = "read" /\ cl[c] = "gone"
              /\ Judge(c) \/ Fail(c, 400)
              /\ begun' = [begun EXCEPT ![c] = FALSE]
              /\ UNCHANGED <<backlog, table, active_threads, addr, relayed, client, stream>>

-----------------------------------------------------------------------------
(* connect_to_server: getaddrinfo, then a socket for each address until one
   connects. *)
Resolve(c) == /\ pc[c] = "resolve"
              /\ \E n \in {0, Addresses} : addr' = [addr EXCEPT ![c] = n]
              /\ Goto(c, "socket")
              /\ UNCHANGED <<backlog, table, active_threads, begun, code, relayed, client, stream>>

OpenSocket(c) == /\ pc[c] = "socket" /\ addr[c] > 0 /\ Fds \ open # {}
                 /\ server_fd' = [server_fd EXCEPT ![c] = FreeFd]
                 /\ open' = open \cup {FreeFd}
                 /\ Goto(c, "connect")
                 /\ UNCHANGED <<backlog, client_fd, active_threads, locals, client, stream>>

NoSocket(c) == /\ pc[c] = "socket" /\ addr[c] > 0 /\ Fds \ open = {}
               /\ addr' = [addr EXCEPT ![c] = @ - 1]
               /\ UNCHANGED <<backlog, table, active_threads, pc, begun, code, relayed, client, stream>>

NoAddress(c) == /\ pc[c] = "socket" /\ addr[c] = 0
                /\ Fail(c, 502)
                /\ UNCHANGED <<backlog, table, active_threads, begun, addr, relayed, client, stream>>

(* Mutant: the socket that did not connect is kept for the next address. *)
TryAddress_leaks(c) ==
    /\ pc[c] = "connect"
    /\ \/ /\ Goto(c, "forward")
          /\ addr' = [addr EXCEPT ![c] = 0]
          /\ UNCHANGED table
       \/ /\ Goto(c, "socket")
          /\ addr' = [addr EXCEPT ![c] = @ - 1]
          /\ server_fd' = [server_fd EXCEPT ![c] = NoFd]
          /\ UNCHANGED <<open, client_fd>>
    /\ UNCHANGED <<backlog, active_threads, begun, code, relayed, client, stream>>

TryAddress(c) ==
    /\ pc[c] = "connect"
    /\ \/ /\ Goto(c, "forward")
          /\ addr' = [addr EXCEPT ![c] = 0]
          /\ UNCHANGED table
       \/ /\ Goto(c, "socket")
          /\ addr' = [addr EXCEPT ![c] = @ - 1]
          /\ open' = open \ {server_fd[c]}
          /\ server_fd' = [server_fd EXCEPT ![c] = NoFd]
          /\ UNCHANGED client_fd
    /\ UNCHANGED <<backlog, active_threads, begun, code, relayed, client, stream>>

-----------------------------------------------------------------------------
(* handle_client: the response *)

(* The request is sent on; the server may have failed by then. *)
Forward(c) == /\ pc[c] = "forward"
              /\ \/ Goto(c, "relay") /\ UNCHANGED code
                 \/ Fail(c, 502)
              /\ UNCHANGED <<backlog, table, active_threads, begun, addr, relayed, client, stream>>

(* Mutant: the number of received bytes is not looked at. *)
Relay_ignores_end(c) == /\ pc[c] = "relay"
                        /\ relayed' = [relayed EXCEPT ![c] = @ + 1]
                        /\ Goto(c, "deliver")
                        /\ UNCHANGED <<backlog, table, active_threads, begun, addr, code,
                                       client, stream>>

(* A recv from the server: a chunk ... *)
Relay(c) == /\ pc[c] = "relay" /\ relayed[c] < Chunks
            /\ relayed' = [relayed EXCEPT ![c] = @ + 1]
            /\ Goto(c, "deliver")
            /\ UNCHANGED <<backlog, table, active_threads, begun, addr, code, client, stream>>

(* ... its end, when it has sent all ... *)
RelayEnd(c) == /\ pc[c] = "relay" /\ relayed[c] = Chunks
               /\ Goto(c, "close_server")
               /\ UNCHANGED <<backlog, table, active_threads, locals, client, stream>>

(* Mutant: a server that fails is answered for, whatever was relayed. *)
RelayFails_refuses(c) == /\ pc[c] = "relay"
                         /\ cut' = [cut EXCEPT ![c] = cl[c] = "open"]
                         /\ Fail(c, 502)
                         /\ UNCHANGED <<backlog, table, active_threads, begun, addr, relayed,
                                        client, toClient, got>>

(* ... or its failure, which the loop takes for the end. *)
RelayFails(c) == /\ pc[c] = "relay"
                 /\ cut' = [cut EXCEPT ![c] = cl[c] = "open"]
                 /\ Goto(c, "close_server")
                 /\ UNCHANGED <<backlog, table, active_threads, locals, client, toClient, got>>

(* send_all to the client: it blocks while the connection is full; after the
   client has left, data goes nowhere. *)
Send(c, x) == \/ /\ cl[c] = "open" /\ Len(toClient[c]) < Window
                 /\ toClient' = [toClient EXCEPT ![c] = Append(@, x)]
              \/ cl[c] = "gone" /\ UNCHANGED toClient

(* Mutant: a chunk that does not fill the buffer is taken for the last. *)
Deliver_stops_early(c) ==
    /\ pc[c] = "deliver"
    /\ Send(c, relayed[c])
    /\ Goto(c, "close_server")
    /\ UNCHANGED <<backlog, table, active_threads, locals, client, got, cut>>

(* To a client that has left, send_all may succeed once more or fail. *)
Deliver(c) == /\ pc[c] = "deliver"
              /\ Send(c, relayed[c])
              /\ \/ Goto(c, "relay")
                 \/ cl[c] = "gone" /\ Goto(c, "close_server")
              /\ UNCHANGED <<backlog, table, active_threads, locals, client, got, cut>>

(* send_error, whose outcome nobody looks at. *)
Refuse(c) == /\ pc[c] = "refuse"
             /\ Send(c, code[c])
             /\ Goto(c, IF server_fd[c] = NoFd THEN "close_client" ELSE "close_server")
             /\ UNCHANGED <<backlog, table, active_threads, locals, client, got, cut>>

CloseServer(c) == /\ pc[c] = "close_server"
                  /\ open' = open \ {server_fd[c]}
                  /\ Goto(c, "close_client")
                  /\ server_fd' = [server_fd EXCEPT ![c] = NoFd]
                  /\ UNCHANGED <<backlog, client_fd, active_threads, locals, client, stream>>

(* Closing a socket with a part of the request unread resets the connection,
   and what the client has not received yet may be lost.  The thread returns:
   it uses none of its variables again. *)
CloseClient(c) == /\ pc[c] = "close_client"
                  /\ open' = open \ {client_fd[c]}
                  /\ Goto(c, "exit")
                  /\ \/ UNCHANGED <<toClient, cut>>
                     \/ /\ cl[c] = "open" /\ LeavesUnread(kind[c])
                        /\ toClient' = [toClient EXCEPT ![c] = <<>>]
                        /\ cut' = [cut EXCEPT ![c] = TRUE]
                  /\ client_fd' = [client_fd EXCEPT ![c] = NoFd]
                  /\ code' = [code EXCEPT ![c] = 0]
                  /\ relayed' = [relayed EXCEPT ![c] = 0]
                  /\ UNCHANGED <<backlog, server_fd, active_threads, begun, addr, client, got>>

(* The destructor of thread_logger. *)
Exit(c) == /\ pc[c] = "exit"
           /\ active_threads' = active_threads - 1
           /\ Goto(c, "none")
           /\ UNCHANGED <<backlog, table, locals, client, stream>>

-----------------------------------------------------------------------------
(* Who takes a step: the thread alone, with its client, or with its server. *)
ThreadStep(c) == \/ Start(c) \/ ReadEnd(c) \/ Resolve(c) \/ OpenSocket(c) \/ NoSocket(c)
                 \/ NoAddress(c) \/ TryAddress(c) \/ Forward(c) \/ Deliver(c) \/ Refuse(c)
                 \/ CloseServer(c) \/ CloseClient(c) \/ Exit(c)
ClientStep(c) == ReadRest(c) \/ ClientReceives(c) \/ ClientDone(c)
ServerStep(c) == Relay(c) \/ RelayEnd(c)

(* Nobody is connected, or only those who may stay silent for ever. *)
Silent == SilentClients \cup SilentServers
Quiet == /\ \A c \in Clients \ Silent : cl[c] = "idle" /\ pc[c] = "none"
         /\ UNCHANGED vars

Next == \/ \E c \in Clients : \/ \E k \in Kinds : Connect(c, k)
                              \/ ClientLeaves(c) \/ ReadPart(c) \/ RelayFails(c)
                              \/ ThreadStep(c) \/ ClientStep(c) \/ ServerStep(c)
        \/ Accept \/ Quiet

Spec == Init /\ [][Next]_vars

(* The proxy's threads run, and so do the ends that are not silent; nobody has
   to send a request, to leave or to fail. *)
FairSpec == /\ Spec
            /\ WF_vars(Accept)
            /\ \A c \in Clients : WF_vars(ThreadStep(c))
            /\ \A c \in Clients \ SilentClients : WF_vars(ClientStep(c))
            /\ \A c \in Clients \ SilentServers : WF_vars(ServerStep(c))

-----------------------------------------------------------------------------
Stages == {"none", "start", "read", "resolve", "socket", "connect", "forward", "relay", "deliver",
           "refuse", "close_server", "close_client", "exit"}
Codes == {400, 501, 502}
Parts == (1 .. Chunks) \cup Codes

(* TypeOK: descriptors are descriptors, and what flows is chunks and errors. *)
TypeOK ==
    /\ backlog \in Seq(Clients)
    /\ open \subseteq Fds
    /\ active_threads \in Nat
    /\ pc \in [Clients -> Stages]
    /\ client_fd \in [Clients -> Fds \cup {NoFd}]
    /\ server_fd \in [Clients -> Fds \cup {NoFd}]
    /\ begun \in [Clients -> BOOLEAN]
    /\ addr \in [Clients -> 0 .. Addresses]
    /\ code \in [Clients -> Codes \cup {0}]
    /\ relayed \in [Clients -> 0 .. Chunks]
    /\ cl \in [Clients -> {"idle", "open", "gone"}]
    /\ kind \in [Clients -> Kinds \cup {"none"}]
    /\ toClient \in [Clients -> Seq(Parts)]
    /\ got \in [Clients -> Seq(Parts)]
    /\ cut \in [Clients -> BOOLEAN]
    /\ requests \in 0 .. MaxRequests

(* Every descriptor in use belongs to one thread, which will close it once: no
   path of handle_client leaks a socket, closes one twice, or closes one that
   another thread has been given meanwhile.  active_threads counts the threads
   between constructor and destructor. *)
HoldsClient(c) == pc[c] \notin {"none", "exit"}
HoldsServer(c) == HoldsClient(c) /\ server_fd[c] # NoFd
Sockets(c) == (IF HoldsClient(c) THEN {client_fd[c]} ELSE {})
                  \cup (IF HoldsServer(c) THEN {server_fd[c]} ELSE {})
DescriptorsOwned ==
    /\ open = UNION {Sockets(c) : c \in Clients}
    /\ \A c \in Clients : HoldsServer(c) => server_fd[c] # client_fd[c]
    /\ \A c, d \in Clients : c # d => Sockets(c) \cap Sockets(d) = {}
    /\ active_threads = Cardinality({c \in Clients : pc[c] \notin {"none", "start"}})

(* A client gets one answer: one error, or a first part of the response, in
   order.  An error never follows a part of a response, and a request that the
   proxy refuses is answered with the code that says why. *)
Seen(c) == got[c] \o toClient[c]
OneAnswer ==
    \A c \in Clients : cl[c] = "open" =>
        \/ Seen(c) = <<>>
        \/ kind[c] \in Gets /\ Seen(c) = <<502>>
        \/ kind[c] \in Gets /\ Seen(c) = Response(Len(Seen(c)))
        \/ kind[c] \notin Gets /\ Seen(c) = <<Verdict(kind[c])>>

(* The end of the connection is the end of the response: unless the server
   failed or the connection was reset, a client that sees the end has all of
   it, or the one error. *)
WholeAnswer ==
    \A c \in Clients :
        cl[c] = "open" /\ Closed(c) /\ ~cut[c] =>
            Seen(c) \in {Response(Chunks)} \cup {<<n>> : n \in Codes}

(* Clients and servers that stop in the middle, or for ever, do not keep the
   proxy from others: every connection of a client that is served and reads
   comes to its end, if two descriptors are left for each that is silent and
   one more. *)
OthersServed == \A c \in Clients \ Silent : cl[c] # "idle" ~> cl[c] = "idle"

(* The thread of a client that has gone ends, if the server does not keep it. *)
ThreadEnds == \A c \in Clients \ SilentServers : cl[c] = "gone" ~> pc[c] = "none"
=============================================================================
