# Formal models of the CSSE432 network programs

TLA+ modules, TLC configurations and TLAPS proofs for the programs of this
repository. The largest program, the C++ version of the peer-to-peer project
(`P2P_Project/cpp_version`), is the core; its Python version, the Lab02 file
server, the Lab03 HTTP proxy and the small BitTorrent (`Simple_BitTorroent`) are
modelled beside it.

    tlc -workers 2 -config MCPeerSwarmFaults.cfg MCPeerSwarm.tla
    tlapm PeerSwarmProofs.tla

## 1. Inventory

| Component | State it keeps | Operations | Hard behaviour | What makes it correct |
| --- | --- | --- | --- | --- |
| C++ tracker (`tracker_state`, `tracker.cpp`) | peer addresses; per file: piece count, owners of each piece | REGISTER, ADD_FILE, HAVE, QUERY, LIST; one thread per request, one mutex | order of requests of many peers; state dies with the process; nothing is ever removed | every piece has an owner; what it answers stays true; listed peers can serve |
| C++ peer (`peer.cpp`) | nothing but the disk between commands; an unfinished command; futures of piece downloads | add, download-file, download-pieces, have, quit (query, list, files, help print); GET_FILE and GET_PIECE in upload threads | command thread, upload threads and download jobs share directories without a lock; sources and tracker vanish; the first failed job ends a command; a peer registers whether or not its upload server listens | pieces served are genuine; announcements follow the data; commands end; downloads complete |
| C++ file manager (`file_manager.cpp`) | `shared/`, `downloads/`, `downloads/.parts` | import, read_file, read_piece, write_piece, complete_piece_ids, assemble | files seen truncated and half-written; a part counts as soon as it exists | as above |
| Lab02 server and client | one connection and one thread per client; `store/`, `received_file/` | iWant (IWANT, FILE, READY, data), uTake (UTAKE, READY, data, SUCCESS) | both ends must take turns on one byte stream; failures on one side only; a name with a space is sent whole and read word by word; two uploads of one name | ends stay in step; "complete" means copied; one client's trouble stays its own |
| Simple_BitTorroent | tracker: list of owners per file, in order; peer: folder of files | register (at start), query, update; GET in upload threads | a peer may be its own source; a file is served while it is rewritten; refused connections end processes; a line that is no single word is answered with an ERROR that the peer does not know | listed peers have the file, and all of it |
| Python P2P version | tracker: addresses, owners per file; peer: `shared/`, `downloads/`, the command under way | REGISTER, ADD_FILE, HAVE, QUERY, LIST; add, have, list, download, quit; GET_FILE in upload threads | calls time out while the tracker still serves them; non-atomic file writes against GET_FILE; LIST in two lock sections; a process ends only when its upload threads have | owners have a copy, and all of it; answers are complete; commands and quit end |
| Lab03 HTTP proxy | per connection: two sockets; a counter of threads; the process's descriptors | accept, read request, resolve and connect, forward, relay, error, close | client or server ends, fails or stalls at any stage; the descriptors run out; an early close resets a connection | one answer per request, whole unless an end broke it; each descriptor closed once on every path; silent ends do not keep others |
| Lab01 echo servers | message counter | TCP and UDP echo in upper case | counter shared by threads; one recv is one message | numbers and messages match |
| Lab0, CPractice | a word list; the longest word | add_word; scan | none (sequential) | sorted and stable; longest word reported |
| Socket examples, build files, data | none | | | |

How they interact: peers call the tracker, one connection per request, and each
other, one connection per file or piece; they share no memory. Inside a peer
the threads meet in the file system. Lab02's threads meet in `received_file/`.
The hazards, with their lines, are in `PROJECT.json`.

## 2. Plan

1. `TrackerState`, with its proofs (done).
2. `PieceDirectory`, what the swarm promises, with its proofs (done).
3. `PeerSwarm`, which composes tracker, peers, file managers, network and
   faults and implements `PieceDirectory`; `PeerSwarmProofs` for every workload
   and `PeerSwarmOrderlyProofs` for orderly ones, the refinement included (done).
4. `FileTransfer`, Lab02, with its proofs (done).
5. `SimpleTorrent`, with its proofs (done).
6. `Proxy` for Lab03, with its proofs (done).
7. `WholeFileSwarm` for the Python version, which implements `PieceDirectory`,
   with its proofs, the refinement included (done).
8. The promises of `PieceDirectory` carried over to both swarms (done). Every
   safety property and refinement that a passing run checks has a proof; what is
   left to TLC is liveness.

## 3. The modules

**TrackerState** is class `TrackerState`. Each member function locks the mutex
for its whole body, so each is one action. An absent map key is `NoEndpoint` or
`NoInfo`; `piece_owners` is a set of pairs. File size and piece size are stored
and echoed, decide nothing, and are left out. QUERY is the function `query`;
LIST reads only.

**PieceDirectory** is the abstract specification: pieces enter at seeds, are
copied from holder to peer, and may be listed for holders only; a directory may
forget.

**PeerSwarm** instantiates both. A peer's command thread is `pc` with the
variables it keeps across steps (`todo`, `want`, `at`); `disk` and `parts` are
its directories; `jobs[p]` are its outstanding downloads, each with the state of
the upload thread that serves it (a socket per job, so the two are one record).
Files are sequences of piece-sized chunks: a copy or save truncates first and
then appends chunk by chunk; an upload chooses path and size in one step
(`ServeOpen`) and reads in another (`ServeRead`), with zeros where a shrunken
file leaves the buffer unfilled. The model follows one file name: the programs
keep nothing across names.

| Code | Actions |
| --- | --- |
| start, REGISTER | `Start` |
| upload server | `Listen` (at any later time, or never) |
| `add` | `Add`, `AddInPlace`, `WriteChunk`, `Announce` |
| `download-file` | `DownloadFile`, `QueryFile` or `QueryFails`, `Fetched`, `WriteChunk`, `Announce` |
| `download-pieces` | `DownloadPieces`, `QueryPieces` or `QueryFails`, (`Collect`, `PartWritten`, `HavePart`)*, `Collected`, `AppendPart`*, `Announce` |
| exceptions | `CallRefused`, `Fetched` and `Collect` on a failed job, `Drained` (futures joined by their destructors) |
| `have` | `Have`, `Claim`* |
| upload thread, job | `ServeOpen`, `ServeRead`, `JobFails` |
| quit, crash, tracker restart | `Quit`, `Crash`, `TrackerStop`, `TrackerStart` |

`main` detaches the thread of the upload server and registers without waiting
for it. The thread may not have bound its port yet, or may fail to and return
(port taken, a listen address that `inet_pton` refuses), while the peer
registers and announces all the same. `listening` says whether it has; until
then every connection to the peer is refused (`JobFails`).

Lost connections (`"lost"` in `Workload`) follow `tracker_request`: a request
that could not be sent passes for a served one, and a reply that breaks off for
the whole reply.

**FileTransfer** is Lab02. A direction of a connection is a sequence of
symbols: the text of a line, its newline, a buffer of a file. All have the same
length, so that a line can be taken for data and data for a line, which is what
happens once the ends have lost step. `pc` and `srv` are the positions in
`handle_iwant` and `handle_utake` on either side. `Faults` chooses the failures.
A name is sent as the rest of a line, but the receiving end of a transfer reads
the header word by word (client.cc:163-166, server.cc:280-284). `Spaced` gives,
for each name with a space, the name and the size that are read from its header:
the first word, and the number with which the second begins, or 0. `FileIn` and
`SizeIn` apply it, and the actions that read a header (`FileHeader`,
`TakesFile`) use them.
A command is cut by TCP only before its newline, and file data holds no newline.
A file may be empty: then the client has its prompt back while READY is still on
its way (`Expects`), and an upload is answered READY and SUCCESS together.
`broken` and, in SimpleTorrent, `spoiled` are history variables: they are set
by the actions where the code leaves the protocol, and no guard reads them.

**SimpleTorrent** is one file in `Simple_BitTorroent`. Since every copy is
written from the start and read in order, a copy is determined by its length.
A refused connection, which nothing catches, ends the process (`Die`). What is
typed is the file's name or a line that is no single word: that one is answered
with ERROR (`Refused`), and the command thread then reads for ever
(`"spinning"`), as it does if the tracker stops while it answers.

**Proxy** is Lab03. `pc` is the stage of each connection's detached thread in
`handle_client`; `open` is the table of descriptors that all threads share, and
a new socket takes the lowest free one, so that a descriptor closed twice or
used after its close would be another thread's. A client has one connection at a
time. What a request is answered with when no server is asked (`Verdict`) is a
function of its kind: a header that never ends, a malformed line, another method
than GET. A chunk is what one `recv` returns, and `Window` of them fit in a
connection before `send_all` blocks. `cut` is a history variable: a server
failed in the middle, or the connection was reset because it was closed with a
part of the request unread.

| Code | Actions |
| --- | --- |
| main: `accept`, thread | `Accept`, `Start` (the counter's constructor) |
| read the header, parse, reject | `ReadPart`, `ReadRest`, `ReadEnd` with `Judge` |
| `connect_to_server` | `Resolve`, (`OpenSocket`, `TryAddress`)* or `NoSocket`, `NoAddress` |
| forward and relay | `Forward`, (`Relay`, `Deliver`)*, `RelayEnd` or `RelayFails` |
| `send_error`, closes, destructor | `Refuse`, `CloseServer`, `CloseClient`, `Exit` |
| browsers | `Connect`, `ClientReceives`, `ClientDone`, `ClientLeaves` |

**WholeFileSwarm** is the Python version of the peer-to-peer project. Each
operation of `TrackerState` holds its lock, so each is one action, and LIST,
which calls two, is two. A request whose sender has timed out is in `late` and is
handled at any later moment: the tracker's thread does not see that nobody
waits. A peer has a main thread (`pc`, with its call to the tracker in `call` and
`answer`) and, for each download that it serves, an upload thread (`upload`,
`reads`, `sent`, kept with the downloader). All copies are of one file and are
written from the start, so that a copy is its length; a reader takes what is
there at each read and stops where nothing more comes. `spoiled` (a copy was
overwritten, a write broken off) and `restarted` (the tracker has lost its
tables) are history variables.

| Code | Actions |
| --- | --- |
| start, REGISTER | `Start`, `Handle`, `Return`; unanswered: `CallFails`, `End` |
| `add` | `Add`, `Import`*, then ADD_FILE |
| `have` | `Have`, then HAVE |
| `list` | `List`, `ListFiles`, `ListPeers`, `Return` |
| `download` | `Download`, `HandleQuery`, `Return` (the source is chosen), `Connect`, `Receive` or `DownloadFails`, `Write`*, then HAVE |
| GET_FILE | `Open`, `Read`*, `ReadEnd`, and `UploadEnds` once the downloader has gone |
| timeouts, late requests | `CallFails`, `DownloadFails`, `HandleLate` |
| quit, failures | `Quit`, `End`; `WriteFails`, `Stop`, `TrackerStop`, `TrackerStart` |

`MC*.tla` and `MC*.cfg` give the constants values. Definitions called "Mutant"
are faulty variants of the definition after them, for checking that the
properties can fail; no action uses them.

## 4. What the runs check

| Run | Instance | Distinct states |
| --- | --- | --- |
| `tracker` | 2 peers, 2 files, 2 addresses, 1..2 pieces | 2,916 |
| `swarm_faults` | 2 peers, 2 versions (of 1 and 2 pieces), all commands and faults, 3 commands, 1 stop | 306,931 |
| `swarm_orderly` | 3 peers, 1 seed, one version of 2 pieces; add, have, download-pieces, quit, tracker restart; 3 commands, 1 stop; under fairness | 151,288 |
| `transfer` | 2 clients with names of their own, some with a space; files of 0, 1 and 2 buffers, all failures, 2 commands | 130,328 |
| `torrent` | 3 peers, 1 seed, a file of 2 units, 2 commands, well-formed or not, 2 stops | 154,930 |
| `proxy` | 2 clients, one of whom may stall and whose server may; 3 descriptors, 2 addresses, 2 chunks, window 1, 3 requests | 94,010 |
| `whole_file_swarm` | 2 peers, 1 seed, a file of 2 units, 3 commands, 1 fault | 141,845 |

- `tracker`: `EveryPieceHasOwner` (every piece of a known file has an owner,
  although counts change) and `QueryGrows` (no request takes away what QUERY
  has told). Its requests are unbounded; the state space is finite.
- `swarm_faults`: `AdvertisedIsOnDisk`: whatever stops or is lost, a listed peer
  has something to answer with. `SwarmInv` is its inductive strengthening.
  `CommandReturns`: every command ends.
- `swarm_orderly`: without crashes, overwritten files and download-file,
  `OwnerServes` (a listed peer answers with a genuine piece, in every state,
  also while files are written), `AnnouncesWhole`, `PiecesAvailable` (each
  piece of a known file has an owner that answers with it), and
  `ImplementsDirectory` (every behaviour is one of PieceDirectory).
  `OrderlyInv` is the inductive strengthening of the first two.
  `DownloadCompletes`: a download by pieces ends with the whole file if nothing
  stops and every source listens (a source that never does is `Deaf`). The
  connections of this run do not break, since a download whose connections
  break need not complete; the safety properties hold with broken connections
  and several seeds too, as the proofs show.
- `transfer`: `InStep` (each line, header and buffer is read by what waits for
  it, and nothing is left over), `CompleteMeansCopied`, `CommandReturns` for
  each client whose own connection is in step, `ThreadEnds`. Connections lose step in
  three ways, which the properties name: an end returns silently, a command is
  split, a header names a file with a space.
- `torrent`: `ListedHasFile` (the "File not found" reply is never needed),
  `WholeUnlessSpoiled` (listed copies are whole until a peer downloads over its
  own copy or a download is cut short), `PromptReturns` (for the name of a file,
  unless the tracker stops while it answers).
- `proxy`: `DescriptorsOwned` (every open descriptor has one thread that will
  close it, and the thread counter is right), `OneAnswer` (one error with the
  right code, or a prefix of the response, never both), `WholeAnswer` (the end of
  the connection is the end of the response unless an end broke it),
  `OthersServed` (silent clients and servers do not keep the proxy from the
  others, as long as two descriptors for each of them and one more are left: with
  fewer, it does not hold) and `ThreadEnds`.
- `whole_file_swarm`: `ListedHasFile` (an owner, and whoever a late request will
  make one, has a copy), `WholeUnlessSpoiled`, `AnswersComplete` (QUERY names
  every owner, and LIST counts at least the owners as peers, although it reads at
  two moments; after a restart of the tracker it may not), `CommandReturns`
  (whatever the tracker and other peers do), `QuitEnds`, and
  `ImplementsDirectory`.

Five runs show disagreements between code and text, and end with a violation:

- `swarm_at_rest`: `download-pieces` after `download-file` destroys the copy,
  and the peer stays listed.
- `swarm_crash`: a peer that is killed between the truncation and the write of a
  part assembles the file without that piece (`AssembledIsWhole`).
- `transfer_open`: the server's late error line is saved as the file.
- `transfer_shared`: two uploads of one name become a mixture.
- `torrent_whole`: a peer that downloads a file it shares empties it and stays
  listed.

The models show further weak points, which the properties name as exceptions and
which have no run of their own. An ADD_FILE with a smaller count leaves the owners
of the pieces beyond it (`TypeOK` of TrackerState does not bound a piece by the
count). A shared file that is replaced is served while it is rewritten (`Orderly`
excludes "replace"). In Lab02 an upload or download of a file whose name holds a
space is reported complete although it was not copied, and a command whose newline
arrives in a later segment loses its last letter (`broken`). In
Simple_BitTorroent an empty line, or a name with a space, never brings the prompt
back, although the tracker is up (`PromptReturns` speaks of names of one word).

**Bounds.** `MaxCommands` bounds what users type and `MaxStops` the stops of
processes; nothing else is bounded (the constants of a run fix peers, names and
contents). Files of two chunks have a first and a last piece and a half-written
state; versions of one and two pieces make counts differ; three peers let a
piece travel over an intermediate holder (the seed of `swarm_orderly` is the last
peer, since `source_for_piece` prefers the first that lists a piece); three commands are an announcement, a
download and a further download or overwrite. In Lab02 an error line is as long
as the larger file, after an empty file a command can overtake READY, and names
with a space are misread with a size of 0 ("s t") or a negative one ("e -1"). In the proxy a second address
lets a connect fail and another succeed, a response of two chunks can be cut in
the middle, a window of one makes the sender wait, and three descriptors run out
when two connections need a server each. In the Python version three commands
are an announcement, a download and a command that meets either; the one fault is
a kill, a failed write or a tracker restart at any point, while timeouts and the
tracker's slowness are not bounded.
`transfer_open` has CHECK_DEADLOCK FALSE: there the two ends really can wait for
each other for ever, which is the hazard and not an artefact. The other models
have an action `Quiet`, enabled only where every user thread rests, so that
TLC reports a deadlock anywhere else.

**Fairness.** Weak fairness of each peer's or client's own command thread, of
its server thread, and of its download jobs, each as a whole: a thread that can
run is eventually run by the operating system, and TCP delivers what has been
sent or ends the connection. Nothing is assumed of users, crashes, restarts or
starts: a tracker that is down may stay down, and an upload server may never
listen. `DownloadCompletes` excludes behaviours with a stop and downloads with a
source that does not listen. In the proxy, threads and `accept` run, and of the
clients and servers only those that are not in `SilentClients` or
`SilentServers` are assumed to go on. In the Python version only the peers'
threads are: the tracker may be slow for ever, since the peers have timeouts.

## 5. What is proved

For every value of the constants that the named assumptions allow:

- `TrackerStateProofs`: `TypeCorrect`, `EveryPieceOwned`, `QueriesGrow`, from
  `TrackerAssumption` (counts are naturals, the sentinels are not values). The
  first two are inductive together; the third is a step property, proved per
  request from type correctness.
- `PeerSwarmProofs`: `SwarmInvariant`, and from it `TypeCorrect` and
  `AdvertisedOnDisk`, from `SwarmAssumption`, for any number of peers, versions,
  commands and stops and any workload. `AdvertisedIsOnDisk` alone is not
  inductive: an announcement is safe only because of what its thread did
  before. `SwarmInv` adds that a thread about to announce has its file or part
  on disk (`WritesExist`), that requests are outstanding only where the code
  waits for them (`JobsAwaited`, `FetchAwaited`), and that an upload thread that
  has looked at a path still finds it (`ReadsExist`). There is one lemma per
  action or group of actions, with a step for each conjunct that it can disturb.
  `TrackerIsTrackerState` ties the two models together: projected on the
  tracker's maps, each step of the swarm is a request of `TrackerState`, nothing,
  or `TrackerStop`; `EveryPieceOwned` is its `EveryPieceHasOwner` in the swarm.
- `PeerSwarmOrderlyProofs`: `OrderlyInvariant`, and from it `OwnersServe`,
  `AnnouncedWhole`, `EveryPieceAvailable` (with `EveryPieceOwned`) and
  `OrderlySwarmIsDirectory`, from `SwarmAssumption` and
  `Orderly`, for any number of peers, seeds, pieces, commands and stops of the
  tracker or, between commands, of peers, and with or without broken
  connections. `Orderly` is a condition on the constants: one version, and no
  "replace", "crash" or "download-file" in `Workload`. Without it the theorems are
  false: a replaced file is served while it is rewritten, a crash leaves a
  half-written file or an empty part that counts as complete, download-file
  leaves a whole file without the parts that a later assembly needs, and parts
  of two versions get mixed. The refinement also needs `NotEmpty`: an empty file
  is announced as one piece that nobody can hold.
  `OwnerServes` alone is not inductive: an answer is right only because of how
  the bytes came there. `OrderlyInv` adds that what has been copied and what is
  still to come make up the original (`SharedAt`), that an assembled file grows
  in order from parts which all stay (`DownloadsAt`), that every part but the one
  being written is its piece (`PartsAt`), that the loops run over the original's
  count (`LoopAt`), that pieces are asked for by a peer that has neither part nor
  file, of one that serves them, and arrive as they are (`JobsAt`), and that the
  tracker's count is right and its owners serve (`ListedServe`). `Serves` is the
  part that no step takes away (`Stable`), which is what lets a step of one peer
  leave the others' obligations alone.
  In the refinement, `WriteChunk` publishes the piece whose chunk it has copied,
  and only a seed copies (`SeedsCopy`); `PartWritten` acquires a piece from its
  source; accepted ADD_FILE and HAVE requests list; `TrackerStop` forgets; all
  else stutters, also the truncations of `Add`, `Collect` and `Collected`.
- `PieceDirectoryProofs`: the abstract promise `HeldBySeeds`, by induction over
  publishing and copying: what anyone holds, a seed holds. With the directory's
  rule for listing it gives that what is listed can be had from a seed. The
  corollaries `PiecesFromSeeds` and `CopiesFromSeeds` carry both over to the two
  swarms, where listing has no such rule but the order of writes and requests.
- `ProxyProofs`: `ProxyTypes`, `NoDescriptorLost`, `OneAnswerEach`,
  `AnswersWhole`, from `ProxyAssumption`, for any number of clients, descriptors,
  addresses and chunks. `DescriptorsOwned` needs the stages at which a thread
  holds each of its sockets, and that a connection that waits for `accept` has no
  thread yet. The answers need, per stage, what has been sent: nothing before an
  error, exactly the relayed chunks after `Deliver`, one less before it.
- `FileTransferProofs`: `TransferTypes`, `EndsInStep`, `CompleteCopies`, from
  `TransferAssumption`, for any number of clients, any files, lengths and
  failures. `InStep` alone is not inductive, nor does it speak of data. The
  invariant refines its table of pairs of positions (`JointAt`) with what has
  been copied: what is saved, followed by what is under way, is the file's
  beginning. It adds what each end can rely on by itself: what a stream can carry,
  in step or not (`StreamsAt`), that whoever sends a file has it (`ClientAt`,
  `ServerAt`), and which lines a client may still read after its server has gone
  (`HalfAt`). Uploads are whole for names that no other client has, since a
  thread writes only files of its own client (`Written`). Both theorems hold for
  connections in step: one that returned silently, was given a split command or
  a header with a space is `broken`, and they say nothing of it.
- `SimpleTorrentProofs`: `TorrentTypes`, `ListedHaveFile`, `WholeCopies`, from
  `TorrentAssumption`. `WholeUnlessSpoiled` says nothing of a copy between two
  recvs; `TorrentInv` adds that such a copy is what has been received and that no
  list and no other download names its owner (`WholeAt`), and that a thread that
  serves knows a source that has the file (`ThreadAt`).
- `WholeFileSwarmProofs`: `WholeFileTypes`, `ListedHaveFile`, `WholeCopies`,
  `CompleteAnswers` and `SwarmIsDirectory`, from `WholeFileAssumption`. The
  invariant adds to the properties where a call to the tracker can be for each
  stage (`CallAt`), the lengths of copies while they are written (`FileAt`), what
  an upload thread has read of its source (`UploadAt`), that owners, and peers
  that take commands, are registered until a restart (`OwnersOK`,
  `RegisteredAt`), and that whoever is named by an answer or asked as a source
  has a copy, which is whole while nothing is spoiled (`NamedOK`). The
  refinement follows step by step: `Add` publishes, `Receive` acquires from the
  source, handled announcements list, and a tracker that stops forgets; every
  other step stutters.

Only model-checked: liveness, which is outside the prover (`CommandReturns`,
`DownloadCompletes`, `ThreadEnds`, `PromptReturns`, `OthersServed`, `QuitEnds`).

## 6. Not modelled

- Lab01 (an echo in upper case over TCP and UDP: one request, one reply, no state
  but a printed message number), Lab0 and CPractice (sequential exercises that a
  test covers) and the socket examples.
- Address resolution of peers, printing, parsing of numbers, requests of
  hand-made clients, and failures of the file system such as a full disk
  (except for the Python peers, where a write may fail).
- Several file names in one peer or tracker are independent and are modelled once
  (`TrackerState` has several). The content of a Lab02 file that changes between
  `stat` and `read` is left out, and so are names that `get_basename` shortens,
  blanks before or after a name, and commands that TCP cuts inside a word.
- In the C++ version: two processes with one id or one port; a peer whose REGISTER
  is refused (it ends, having served nobody but those who knew its port); adding
  a file that was downloaded; `seekg` and `read` of an upload as two steps.
- In Simple_BitTorroent: files whose names hold a space, which REGISTER lists as
  several; a connection to a stopped tracker that is reset instead of closed,
  which ends the process.
- In the proxy: the descriptors that `getaddrinfo` uses itself, a full backlog, a
  client that shuts down one direction only, and `std::thread` failing, which
  ends the process.
- In the Python version: `query`, `files` and `help`, which change nothing; peer
  ids and names with spaces, which QUERY's reply does not quote and the peer
  reads with `shlex.split`; adding a downloaded copy. A
  peer starts its next download after the upload thread of the one it abandoned
  has ended; `Quit` is the moment at which the server's `shutdown` returns.
