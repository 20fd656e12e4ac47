----------------------------- MODULE FileTransfer -----------------------------
(***************************************************************************)
(* Clients and server of Lab02: iWant (download) and uTake (upload).       *)
(*                                                                         *)
(* Each client has one connection and the server one thread for it; the    *)
(* threads share the directory received_file/.  A direction of a           *)
(* connection is a byte stream: a line is its text and a newline, a file   *)
(* is a sequence of buffers, and a file buffer has the length of a text,   *)
(* so that what is sent as one can be read as the other.                   *)
(***************************************************************************)
EXTENDS Integers, Sequences

CONSTANTS Clients, Store,   \* who has files: each client, and store/
          Names,            \* file names
          NoName, NoFile,
          Size,             \* Size[o] : the files that o has, with their lengths
          Spaced,           \* names with a space, and what a header makes of them
          Faults,           \* which of the failures below can happen
          MaxCommands       \* bound: commands typed by the users

(* Failures: "save" / "read" (the client cannot create the target / open the
   source), "create" / "open" (the server cannot), "split" (a recv returns the
   first part of a command), "kill" (a client dies), "reset" (a send on a
   connection whose client has gone raises SIGPIPE). *)
Origins == Clients \cup {Store}

(* The words of the protocol, and what a gap in a file reads as. *)
Kinds == {"IWANT", "UTAKE", "FILE", "READY", "ERROR", "SUCCESS", "newline", "zero"}

ASSUME TransferAssumption == /\ DOMAIN Size = Origins /\ Origins \cap Kinds = {}
                             /\ \A o \in Origins : /\ DOMAIN Size[o] \subseteq Names
                                                   /\ \A f \in DOMAIN Size[o] : Size[o][f] \in Nat
                             /\ DOMAIN Spaced \subseteq Names
                             /\ Spaced \in [DOMAIN Spaced -> [file : Names, n : Int]]
                             /\ MaxCommands \in Nat
                             /\ NoName \notin Names

VARIABLES toServer, toClient,  \* the two directions of each connection
          pc, name, left,      \* the client: where it is, its file, what remains
          srv, job,            \* its server thread: where it is, its file and what remains
          saved,               \* the files that each client has downloaded
          received,            \* received_file/
          told,                \* the outcome that the client last printed
          broken,              \* history: the two ends have lost step, see InStep
          commands             \* bounded count

chan == <<toServer, toClient>>
client == <<pc, name, left, saved, told, commands>>
server == <<srv, job, received>>
vars == <<chan, client, server, broken>>

Symbol(kind, f, n) == [kind |-> kind, file |-> f, n |-> n]
Word(kind) == Symbol(kind, NoName, 0)
NewLine == Word("newline")
Line(text) == <<text, NewLine>>

(* The content of file f of origin o: its buffers, told apart by their place. *)
Data(o, f) == [k \in 1 .. Size[o][f] |-> Symbol(o, f, k)]

(* recv_line: the symbols before the first newline, once there is one. *)
HasLine(s) == \E k \in 1 .. Len(s) : s[k] = NewLine
LineEnd(s) == CHOOSE k \in 1 .. Len(s) :
                s[k] = NewLine /\ \A j \in 1 .. k - 1 : s[j] # NewLine
LineOf(s) == SubSeq(s, 1, LineEnd(s) - 1)
AfterLine(s) == SubSeq(s, LineEnd(s) + 1, Len(s))

(* A header is read by `>> tag >> name >> size`: of a name with a space it is the
   first word, and the number that the next word starts with, or 0, is the size.
   The loops that receive a file run while more than 0 of it remains. *)
Misread(f) == f \in DOMAIN Spaced
FileIn(f) == IF Misread(f) THEN Spaced[f].file ELSE f
SizeIn(header) == IF Misread(header.file) THEN Spaced[header.file].n ELSE header.n
ToCome(n) == IF n > 0 THEN n ELSE 0

Send(ch, c, s) == [ch EXCEPT ![c] = @ \o s]
Alive(c) == pc[c] # "gone"

Init == /\ toServer = [c \in Clients |-> <<>>] /\ toClient = toServer
        /\ pc = [c \in Clients |-> "prompt"]
        /\ name = [c \in Clients |-> NoName]
        /\ left = [c \in Clients |-> 0]
        /\ srv = [c \in Clients |-> "command"]
        /\ job = [c \in Clients |-> [file |-> NoName, left |-> 0, total |-> 0]]
        /\ saved = [c \in Clients |-> [f \in Names |-> NoFile]]
        /\ received = [f \in Names |-> NoFile]
        /\ told = [c \in Clients |-> "nothing"]
        /\ broken = [c \in Clients |-> FALSE]
        /\ commands = 0

-----------------------------------------------------------------------------
(* Client *)

(* A return to the prompt, with what the client has printed. *)
Prompt(c, outcome) == /\ pc' = [pc EXCEPT ![c] = "prompt"]
                      /\ told' = [told EXCEPT ![c] = outcome]
                      /\ left' = [left EXCEPT ![c] = 0]
                      /\ UNCHANGED <<name, commands>>

Step(c, l, n) == /\ pc' = [pc EXCEPT ![c] = l]
                 /\ left' = [left EXCEPT ![c] = n]
                 /\ UNCHANGED <<name, told, commands>>

Command(c, l, f, text) ==
    /\ pc[c] = "prompt" /\ srv[c] # "closed"
    /\ commands < MaxCommands
    /\ commands' = commands + 1
    /\ pc' = [pc EXCEPT ![c] = l]
    /\ name' = [name EXCEPT ![c] = f]
    /\ told' = [told EXCEPT ![c] = "nothing"]
    /\ toServer' = Send(toServer, c, Line(text))
    /\ UNCHANGED <<toClient, left, saved, server, broken>>

IWant(c, f) == Command(c, "iWant", f, Symbol("IWANT", f, 0))

(* Without the file, uTake only prints an error. *)
UTake(c, f) == /\ f \in DOMAIN Size[c]
               /\ Command(c, "uTake", f, Symbol("UTAKE", f, Size[c][f]))

(* With the server gone, a send may raise SIGPIPE; if not, the recv fails. *)
CommandInVain(c) == /\ pc[c] = "prompt" /\ srv[c] = "closed"
                    /\ commands < MaxCommands
                    /\ commands' = commands + 1
                    /\ \E l \in {"prompt", "gone"} : pc' = [pc EXCEPT ![c] = l]
                    /\ UNCHANGED <<chan, name, left, saved, told, server, broken>>

(* iWant: FILE starts the transfer; anything else, ERROR or not, ends it. *)
FileHeader(c) ==
    LET reply == LineOf(toClient[c])
    IN  /\ pc[c] = "iWant" /\ HasLine(toClient[c])
        /\ toClient' = [toClient EXCEPT ![c] = AfterLine(@)]
        /\ \/ /\ Len(reply) = 1 /\ reply[1].kind = "FILE"
              /\ toServer' = Send(toServer, c, Line(Word("READY")))
              /\ saved' = [saved EXCEPT ![c][FileIn(reply[1].file)] = <<>>]
              /\ name' = [name EXCEPT ![c] = FileIn(reply[1].file)]
              /\ left' = [left EXCEPT ![c] = ToCome(SizeIn(reply[1]))]
              /\ pc' = [pc EXCEPT ![c] = "receiving"]
              /\ broken' = [broken EXCEPT ![c] = @ \/ Misread(reply[1].file)]
              /\ UNCHANGED <<told, commands>>
           \/ /\ ~(Len(reply) = 1 /\ reply[1].kind = "FILE")
              /\ Prompt(c, "failed")
              /\ UNCHANGED <<toServer, saved, broken>>
           \/ /\ Len(reply) = 1 /\ reply[1].kind = "FILE"
              /\ "save" \in Faults          \* returns without a word to the server
              /\ Prompt(c, "failed")
              /\ broken' = [broken EXCEPT ![c] = TRUE]
              /\ UNCHANGED <<toServer, saved>>
        /\ UNCHANGED server

ReceiveData(c) == /\ pc[c] = "receiving" /\ left[c] > 0 /\ toClient[c] # <<>>
                  /\ saved' = [saved EXCEPT ![c][name[c]] = Append(@, Head(toClient[c]))]
                  /\ toClient' = [toClient EXCEPT ![c] = Tail(@)]
                  /\ Step(c, "receiving", left[c] - 1)
                  /\ UNCHANGED <<toServer, server, broken>>

Downloaded(c) == /\ pc[c] = "receiving" /\ left[c] = 0
                 /\ Prompt(c, "downloaded")
                 /\ UNCHANGED <<chan, saved, server, broken>>

(* uTake: only READY starts the transfer. *)
ReadyHeard(c) ==
    LET ready == LineOf(toClient[c]) = <<Word("READY")>>
    IN  /\ pc[c] = "uTake" /\ HasLine(toClient[c])
        /\ toClient' = [toClient EXCEPT ![c] = AfterLine(@)]
        /\ \/ ready /\ Step(c, "sending", Size[c][name[c]]) /\ UNCHANGED broken
           \/ ~ready /\ Prompt(c, "failed") /\ UNCHANGED broken
           \/ /\ ready /\ "read" \in Faults    \* the server keeps waiting for the file
              /\ Prompt(c, "failed")
              /\ broken' = [broken EXCEPT ![c] = TRUE]
        /\ UNCHANGED <<toServer, saved, server>>

SendData(c) == /\ pc[c] = "sending" /\ left[c] > 0
               /\ toServer' = Send(toServer, c,
                                   <<Symbol(c, name[c], Size[c][name[c]] - left[c] + 1)>>)
               /\ Step(c, "sending", left[c] - 1)
               /\ UNCHANGED <<toClient, saved, server, broken>>

FinalReply(c) == /\ pc[c] = "sending" /\ left[c] = 0 /\ HasLine(toClient[c])
                 /\ toClient' = [toClient EXCEPT ![c] = AfterLine(@)]
                 /\ Prompt(c, IF LineOf(toClient[c]) = <<Word("SUCCESS")>>
                              THEN "uploaded" ELSE "failed")
                 /\ UNCHANGED <<toServer, saved, server, broken>>

(* The connection ends while the client waits for, or sends, something. *)
Disconnected(c) == /\ srv[c] = "closed" /\ pc[c] \notin {"prompt", "gone"}
                   /\ \/ Prompt(c, "failed")
                      \/ /\ \/ pc[c] = "sending" /\ left[c] > 0
                            \/ pc[c] = "iWant" /\ HasLine(toClient[c])
                         /\ Step(c, "gone", 0)      \* SIGPIPE
                   /\ UNCHANGED <<chan, saved, server, broken>>

Leave(c) == /\ \/ pc[c] = "prompt"                       \* exit
               \/ Alive(c) /\ "kill" \in Faults
            /\ Step(c, "gone", 0)
            /\ UNCHANGED <<chan, saved, server, broken>>

-----------------------------------------------------------------------------
(* Server thread *)

Serve(c, l, f, n) == /\ srv' = [srv EXCEPT ![c] = l]
                     /\ job' = [job EXCEPT ![c] = [file |-> f, left |-> n, total |-> n]]

Reply(c, text) == toClient' = Send(toClient, c, Line(text))

(* What one recv of up to 1023 bytes returns: all there is, or a part of it. *)
Arrived(c) == {k \in 1 .. Len(toServer[c]) : k = Len(toServer[c]) \/ "split" \in Faults}

(* IWANT: the name is the rest of what arrived without its last character, so
   anything but exactly one line names a file that is not there. *)
WantsFile(c, request) ==
    /\ request[1].kind = "IWANT"
    /\ IF request = Line(request[1]) /\ request[1].file \in DOMAIN Size[Store]
       THEN LET f == request[1].file
            IN  /\ Reply(c, Symbol("FILE", f, Size[Store][f]))
                /\ Serve(c, "ready?", f, Size[Store][f])
       ELSE /\ Reply(c, Word("ERROR"))
            /\ Serve(c, "command", NoName, 0)
    /\ UNCHANGED received

(* UTAKE: the words of the first line count, what arrived after it is lost; a
   negative size is refused. *)
TakesFile(c, request) ==
    LET f == FileIn(request[1].file)
        n == SizeIn(request[1])
    IN  /\ request[1].kind = "UTAKE"
        /\ \/ /\ n >= 0
              /\ received' = [received EXCEPT ![f] = <<>>]
              /\ Reply(c, Word("READY"))
              /\ Serve(c, "receiving", f, n)
           \/ /\ n < 0 \/ "create" \in Faults
              /\ Reply(c, Word("ERROR"))
              /\ Serve(c, "command", NoName, 0)
              /\ UNCHANGED received

(* Anything else: an answer is prepared and never sent. *)
NoCommand(c, request) == /\ request[1].kind \notin {"IWANT", "UTAKE"}
                         /\ UNCHANGED <<toClient, srv, job, received>>

(* Not one whole line, or an upload whose header is misread. *)
Garbled(request) == \/ request # Line(request[1])
                    \/ request[1].kind = "UTAKE" /\ Misread(request[1].file)

(* Mutant: a request that is refused is left in the stream. *)
Request_keeps_newline(c) ==
    /\ srv[c] = "command"
    /\ \E k \in Arrived(c) :
          LET request == SubSeq(toServer[c], 1, k)
          IN  /\ toServer' = [toServer EXCEPT ![c] = SubSeq(@, k, Len(@))]
              /\ broken' = [broken EXCEPT ![c] = @ \/ Garbled(request)]
              /\ \/ WantsFile(c, request)
                 \/ TakesFile(c, request)
                 \/ NoCommand(c, request)
    /\ UNCHANGED client

Request(c) ==
    /\ srv[c] = "command"
    /\ \E k \in Arrived(c) :
          LET request == SubSeq(toServer[c], 1, k)
          IN  /\ toServer' = [toServer EXCEPT ![c] = SubSeq(@, k + 1, Len(@))]
              /\ broken' = [broken EXCEPT ![c] = @ \/ Garbled(request)]
              /\ \/ WantsFile(c, request)
                 \/ TakesFile(c, request)
                 \/ NoCommand(c, request)
    /\ UNCHANGED client

(* The reply to FILE: a line other than READY is dropped, whatever it is. *)
ReadyOrNot(c) ==
    LET ready == LineOf(toServer[c]) = <<Word("READY")>>
    IN  /\ srv[c] = "ready?" /\ HasLine(toServer[c])
        /\ toServer' = [toServer EXCEPT ![c] = AfterLine(@)]
        /\ \/ /\ ready
              /\ srv' = [srv EXCEPT ![c] = "sending"]
              /\ UNCHANGED <<job, toClient, broken>>
           \/ /\ ready /\ "open" \in Faults    \* the client takes the line for data
              /\ Reply(c, Word("ERROR"))
              /\ Serve(c, "command", NoName, 0)
              /\ broken' = [broken EXCEPT ![c] = TRUE]
           \/ /\ ~ready
              /\ Serve(c, "command", NoName, 0)
              /\ UNCHANGED <<toClient, broken>>
        /\ UNCHANGED <<received, client>>

(* Mutant: the file is read from the start of the buffer each time. *)
ServeData_without_advance(c) ==
    /\ srv[c] = "sending" /\ job[c].left > 0
    /\ toClient' = Send(toClient, c, <<Data(Store, job[c].file)[1]>>)
    /\ job' = [job EXCEPT ![c].left = @ - 1]
    /\ UNCHANGED <<toServer, srv, received, client, broken>>

ServeData(c) ==
    /\ srv[c] = "sending" /\ job[c].left > 0
    /\ toClient' = Send(toClient, c, <<Data(Store, job[c].file)[job[c].total - job[c].left + 1]>>)
    /\ job' = [job EXCEPT ![c].left = @ - 1]
    /\ UNCHANGED <<toServer, srv, received, client, broken>>

Served(c) == /\ srv[c] = "sending" /\ job[c].left = 0
             /\ Serve(c, "command", NoName, 0)
             /\ UNCHANGED <<chan, received, client, broken>>

(* A write at this thread's own position in a file that others may truncate:
   the gap, if there is one, reads as zeros. *)
WriteAt(s, k, x) == [j \in 1 .. (IF k > Len(s) THEN k ELSE Len(s)) |->
                        IF j = k THEN x ELSE IF j <= Len(s) THEN s[j] ELSE Word("zero")]

(* Mutant: the loop goes on while there is data, whatever the length. *)
TakeData_past_end(c) ==
    /\ srv[c] = "receiving" /\ toServer[c] # <<>>
    /\ received' = [received EXCEPT ![job[c].file] =
                       WriteAt(@, job[c].total - job[c].left + 1, Head(toServer[c]))]
    /\ toServer' = [toServer EXCEPT ![c] = Tail(@)]
    /\ job' = [job EXCEPT ![c].left = @ - 1]
    /\ UNCHANGED <<toClient, srv, client, broken>>

TakeData(c) ==
    /\ srv[c] = "receiving" /\ job[c].left > 0 /\ toServer[c] # <<>>
    /\ received' = [received EXCEPT ![job[c].file] =
                       WriteAt(@, job[c].total - job[c].left + 1, Head(toServer[c]))]
    /\ toServer' = [toServer EXCEPT ![c] = Tail(@)]
    /\ job' = [job EXCEPT ![c].left = @ - 1]
    /\ UNCHANGED <<toClient, srv, client, broken>>

(* Mutant: SUCCESS is left out, as the commented-out send of other answers is. *)
Taken_without_reply(c) == /\ srv[c] = "receiving" /\ job[c].left = 0
                          /\ Serve(c, "command", NoName, 0)
                          /\ UNCHANGED <<chan, received, client, broken>>

Taken(c) == /\ srv[c] = "receiving" /\ job[c].left = 0
            /\ Reply(c, Word("SUCCESS"))
            /\ Serve(c, "command", NoName, 0)
            /\ UNCHANGED <<toServer, received, client, broken>>

(* Mutant: a failed recv inside a transfer is tried again. *)
ServerSeesEnd_in_command_only(c) == /\ pc[c] = "gone" /\ srv[c] = "command"
                                    /\ Serve(c, "closed", NoName, 0)
                                    /\ UNCHANGED <<chan, received, client, broken>>

(* recv ends: the client has gone, and what it sent last may be lost with it. *)
ServerSeesEnd(c) == /\ pc[c] = "gone" /\ srv[c] # "closed"
                    /\ Serve(c, "closed", NoName, 0)
                    /\ UNCHANGED <<chan, received, client, broken>>

(* SIGPIPE is not ignored: it takes the process, and every other thread. *)
ServerDies == /\ "reset" \in Faults
              /\ \E c \in Clients :
                    /\ pc[c] = "gone"
                    /\ \/ srv[c] = "sending"
                       \/ srv[c] = "receiving" /\ job[c].left = 0
                       \/ srv[c] \in {"command", "ready?"} /\ toServer[c] # <<>>
              /\ srv' = [c \in Clients |-> "closed"]
              /\ job' = [c \in Clients |-> [file |-> NoName, left |-> 0, total |-> 0]]
              /\ UNCHANGED <<chan, received, client, broken>>

-----------------------------------------------------------------------------
UserStep(c) == \/ \E f \in Names : IWant(c, f) \/ UTake(c, f)
               \/ CommandInVain(c) \/ Leave(c)
ClientStep(c) == \/ FileHeader(c) \/ ReceiveData(c) \/ Downloaded(c)
                 \/ ReadyHeard(c) \/ SendData(c) \/ FinalReply(c) \/ Disconnected(c)
ServerStep(c) == \/ Request(c) \/ ReadyOrNot(c) \/ ServeData(c) \/ Served(c)
                 \/ TakeData(c) \/ Taken(c) \/ ServerSeesEnd(c)

(* The last client has gone, or every client is at its prompt: it may stay so. *)
Quiet == (\A c \in Clients : pc[c] \in {"prompt", "gone"}) /\ UNCHANGED vars

Next == \/ \E c \in Clients : UserStep(c) \/ ClientStep(c) \/ ServerStep(c)
        \/ ServerDies \/ Quiet

Spec == Init /\ [][Next]_vars

(* A thread that can run is run; users and failures are free. *)
FairSpec == Spec /\ \A c \in Clients : WF_vars(ClientStep(c)) /\ WF_vars(ServerStep(c))

-----------------------------------------------------------------------------
Symbols == [kind : Kinds \cup Origins, file : Names \cup {NoName}, n : Nat]

(* TypeOK: streams and files are sequences of symbols, the rest is control. *)
TypeOK ==
    /\ toServer \in [Clients -> Seq(Symbols)]
    /\ toClient \in [Clients -> Seq(Symbols)]
    /\ pc \in [Clients -> {"prompt", "iWant", "receiving", "uTake", "sending", "gone"}]
    /\ name \in [Clients -> Names \cup {NoName}]
    /\ left \in [Clients -> Nat]
    /\ srv \in [Clients -> {"command", "ready?", "sending", "receiving", "closed"}]
    /\ job \in [Clients -> [file : Names \cup {NoName}, left : Nat, total : Nat]]
    /\ saved \in [Clients -> [Names -> Seq(Symbols) \cup {NoFile}]]
    /\ received \in [Names -> Seq(Symbols) \cup {NoFile}]
    /\ told \in [Clients -> {"nothing", "failed", "downloaded", "uploaded"}]
    /\ broken \in [Clients -> BOOLEAN]
    /\ commands \in 0 .. MaxCommands

(* The server is, or will be without being told more, where it reads s: after an
   empty file, the client has its prompt back before READY has been read. *)
Ready(c) == srv[c] = "command" \/ (srv[c] = "sending" /\ job[c].left = 0)
Expects(c, s) == \/ Ready(c) /\ toServer[c] = s
                 \/ /\ srv[c] = "ready?" /\ job[c].total = 0
                    /\ toServer[c] = Line(Word("READY")) \o s

(* The two ends of a connection take turns: as long as neither has returned
   silently from the middle of a transfer, no command line came in two parts and
   no header named a file with a space, a command line, a header, READY, the
   data of the file and the last reply are each read by what waits for them,
   and nothing is left over when the prompt comes back. *)
InStepAt(c) ==
    LET up == toServer[c]
        down == toClient[c]
    IN  CASE pc[c] = "prompt" -> Expects(c, <<>>) /\ down = <<>>
          [] pc[c] = "iWant" ->
                \/ Expects(c, Line(Symbol("IWANT", name[c], 0))) /\ down = <<>>
                \/ srv[c] = "command" /\ up = <<>> /\ down = Line(Word("ERROR"))
                \/ srv[c] = "ready?" /\ up = <<>>
                   /\ down = Line(Symbol("FILE", name[c], Size[Store][name[c]]))
          [] pc[c] = "receiving" ->
                \/ srv[c] = "ready?" /\ up = Line(Word("READY")) /\ down = <<>>
                   /\ left[c] = job[c].total
                \/ srv[c] = "sending" /\ up = <<>> /\ left[c] = Len(down) + job[c].left
                \/ srv[c] = "command" /\ up = <<>> /\ left[c] = Len(down)
          [] pc[c] = "uTake" ->
                \/ /\ Expects(c, Line(Symbol("UTAKE", name[c], Size[c][name[c]])))
                   /\ down = <<>>
                \/ srv[c] = "command" /\ up = <<>> /\ down = Line(Word("ERROR"))
                \/ srv[c] = "receiving" /\ up = <<>> /\ down = Line(Word("READY"))
                \/ /\ srv[c] = "command" /\ up = <<>> /\ Size[c][name[c]] = 0
                   /\ down = Line(Word("READY")) \o Line(Word("SUCCESS"))
          [] pc[c] = "sending" ->
                \/ srv[c] = "receiving" /\ down = <<>> /\ job[c].left = Len(up) + left[c]
                \/ srv[c] = "command" /\ up = <<>> /\ left[c] = 0
                   /\ down = Line(Word("SUCCESS"))
          [] OTHER -> TRUE
InStep == \A c \in Clients : broken[c] \/ srv[c] = "closed" \/ InStepAt(c)

(* When a client says that a transfer is complete, the copy is the file: for a
   download the one under store/, for an upload the client's own, in
   received_file/ (for names that no other client uploads to).  It is not so on
   a connection that has lost step: a download that meets a late ERROR line, and
   either transfer of a file whose name holds a space, are reported complete
   too. *)
Stored(c) == {FileIn(f) : f \in DOMAIN Size[c]}
Sole(c, f) == \A d \in Clients \ {c} : f \notin Stored(d)
CompleteMeansCopied ==
    \A c \in Clients : ~broken[c] =>
        /\ told[c] = "downloaded" => saved[c][name[c]] = Data(Store, name[c])
        /\ told[c] = "uploaded" /\ Sole(c, name[c]) =>
                received[name[c]] = Data(c, name[c])

(* "file transfer of N bytes complete" (Lab02/Client/client.cc:211-212), said of
   every download.  It does not hold: the line "ERROR Cannot open file" that
   the server sends after READY is saved as the file's data. *)
DownloadedIsTheFile ==
    \A c \in Clients : told[c] = "downloaded" => saved[c][name[c]] = Data(Store, name[c])

(* "received file saved to ..." (Lab02/Server/server.cc:234): a file that no
   thread is receiving is the file of some client.  It does not hold: two
   threads that receive files of one name write into one file. *)
ReceivedIsAFile ==
    \A f \in Names :
        received[f] # NoFile /\ (\A c \in Clients : job[c].file # f)
            => \E c \in Clients : f \in DOMAIN Size[c] /\ received[f] = Data(c, f)

(* A command brings its prompt back, whatever happens to the server and to the
   other clients, unless the two ends of its own connection have lost step. *)
CommandReturns ==
    \A c \in Clients : pc[c] \notin {"prompt", "gone"} ~> (pc[c] \in {"prompt", "gone"} \/ broken[c])

(* The thread of a client that has gone ends, in step or not. *)
ThreadEnds == \A c \in Clients : pc[c] = "gone" ~> srv[c] = "closed"
=============================================================================
