------------------------- MODULE FileTransferProofs -------------------------
(* Proofs about FileTransfer for every number of clients, all files and lengths,
   every set of failures and any number of commands: the ends of a connection
   stay in step, and what is reported as complete is. *)
EXTENDS FileTransfer, WellFoundedInduction, SequenceTheorems, TLAPS

-----------------------------------------------------------------------------
(* The inductive invariant *)

(* What a connection can carry, in step or not: a UTAKE or FILE line tells of a
   file that its sender has, and of its length. *)
UpSymbols(c) == {x \in Symbols : x.kind = "UTAKE" =>
                    x.file \in DOMAIN Size[c] /\ x.n = Size[c][x.file]}
DownSymbols == {x \in Symbols : x.kind = "FILE" =>
                    x.file \in DOMAIN Size[Store] /\ x.n = Size[Store][x.file]}
StreamsAt(c) == toServer[c] \in Seq(UpSymbols(c)) /\ toClient[c] \in Seq(DownSymbols)

(* A client that sends has the file, and one that receives has opened it; it has
   said nothing of a command that is not over. *)
ClientAt(c) ==
    /\ pc[c] \in {"uTake", "sending"} => name[c] \in DOMAIN Size[c]
    /\ pc[c] = "sending" => left[c] <= Size[c][name[c]]
    /\ pc[c] = "receiving" => /\ name[c] \in Names /\ saved[c][name[c]] \in Seq(Symbols)
                              /\ ~broken[c] => name[c] \in DOMAIN Size[Store]
    /\ pc[c] \notin {"prompt", "gone"} => told[c] = "nothing"

(* So has a thread of the server. *)
ServerAt(c) ==
    /\ srv[c] \in {"ready?", "sending"} => /\ job[c].file \in DOMAIN Size[Store]
                                           /\ job[c].total = Size[Store][job[c].file]
    /\ srv[c] = "receiving" => /\ job[c].file \in Stored(c)
                               /\ received[job[c].file] \in Seq(Symbols)
                               /\ ~broken[c] => /\ job[c].file \in DOMAIN Size[c]
                                                /\ job[c].total = Size[c][job[c].file]
    /\ job[c].left <= job[c].total
    /\ srv[c] = "ready?" => job[c].left = job[c].total

(* The first n buffers of a file. *)
First(o, f, n) == [k \in 1 .. n |-> Symbol(o, f, k)]

(* The pairs of positions that two ends in step can be in, with what is under way
   between them and what has been copied. *)
AtPrompt(c) == Expects(c, <<>>) /\ toClient[c] = <<>>
AtWant(c) ==
    \/ Expects(c, Line(Symbol("IWANT", name[c], 0))) /\ toClient[c] = <<>>
    \/ /\ srv[c] = "command" /\ toServer[c] = <<>> /\ toClient[c] = Line(Word("ERROR"))
    \/ /\ srv[c] = "ready?" /\ job[c].file = name[c] /\ toServer[c] = <<>>
       /\ toClient[c] = Line(Symbol("FILE", name[c], Size[Store][name[c]]))
AtReceive(c) ==
    \/ /\ srv[c] = "ready?" /\ job[c].file = name[c]
       /\ toServer[c] = Line(Word("READY")) /\ toClient[c] = <<>>
       /\ left[c] = job[c].total /\ saved[c][name[c]] = <<>>
    \/ /\ srv[c] = "sending" /\ job[c].file = name[c] /\ toServer[c] = <<>>
       /\ left[c] = Len(toClient[c]) + job[c].left
       /\ saved[c][name[c]] \o toClient[c] = First(Store, name[c], job[c].total - job[c].left)
    \/ /\ srv[c] = "command" /\ toServer[c] = <<>> /\ left[c] = Len(toClient[c])
       /\ saved[c][name[c]] \o toClient[c] = Data(Store, name[c])
EmptyTaken(c) == /\ toClient[c] = Line(Word("READY")) \o Line(Word("SUCCESS"))
                 /\ Size[c][name[c]] = 0
                 /\ Sole(c, name[c]) => received[name[c]] = Data(c, name[c])
AtTake(c) ==
    \/ Expects(c, Line(Symbol("UTAKE", name[c], Size[c][name[c]]))) /\ toClient[c] = <<>>
    \/ /\ srv[c] = "command" /\ toServer[c] = <<>> /\ toClient[c] = Line(Word("ERROR"))
    \/ /\ srv[c] = "receiving" /\ job[c].file = name[c] /\ job[c].left = job[c].total
       /\ toServer[c] = <<>> /\ toClient[c] = Line(Word("READY"))
       /\ Sole(c, name[c]) => received[name[c]] = <<>>
    \/ srv[c] = "command" /\ toServer[c] = <<>> /\ EmptyTaken(c)
AtSend(c) ==
    \/ /\ srv[c] = "receiving" /\ job[c].file = name[c] /\ toClient[c] = <<>>
       /\ job[c].left = Len(toServer[c]) + left[c]
       /\ Sole(c, name[c]) =>
            received[name[c]] \o toServer[c] = First(c, name[c], job[c].total - left[c])
    \/ /\ srv[c] = "command" /\ toServer[c] = <<>> /\ left[c] = 0
       /\ toClient[c] = Line(Word("SUCCESS"))
       /\ Sole(c, name[c]) => received[name[c]] = Data(c, name[c])
JointAt(c) == CASE pc[c] = "prompt" -> AtPrompt(c)
                [] pc[c] = "iWant" -> AtWant(c)
                [] pc[c] = "receiving" -> AtReceive(c)
                [] pc[c] = "uTake" -> AtTake(c)
                [] pc[c] = "sending" -> AtSend(c)
                [] OTHER -> TRUE

(* What the client alone can rely on, also when the server has gone: which lines
   it may read, and that it copies the file from its start. *)
HalfAt(c) ==
    /\ pc[c] = "iWant" =>
        \/ toClient[c] = <<>> \/ toClient[c] = Line(Word("ERROR"))
        \/ toClient[c] = Line(Symbol("FILE", name[c], Size[Store][name[c]]))
    /\ pc[c] = "receiving" =>
        /\ left[c] = Size[Store][name[c]] - Len(saved[c][name[c]])
        /\ \E n \in 0 .. Size[Store][name[c]] :
              saved[c][name[c]] \o toClient[c] = First(Store, name[c], n)
    /\ pc[c] = "uTake" =>
        \/ toClient[c] = <<>> \/ toClient[c] = Line(Word("ERROR"))
        \/ toClient[c] = Line(Word("READY")) \/ EmptyTaken(c)
    /\ pc[c] = "sending" =>
        \/ toClient[c] = <<>>
        \/ /\ toClient[c] = Line(Word("SUCCESS")) /\ left[c] = 0
           /\ Sole(c, name[c]) => received[name[c]] = Data(c, name[c])

(* What has been said remains true: nothing is left to be done of the command. *)
ToldAt(c) ==
    /\ told[c] = "downloaded" => saved[c][name[c]] = Data(Store, name[c])
    /\ told[c] = "uploaded" =>
        /\ name[c] \in DOMAIN Size[c]
        /\ Sole(c, name[c]) => received[name[c]] = Data(c, name[c])
        /\ srv[c] = "closed" \/ (Ready(c) /\ toServer[c] = <<>>)

InStepInv(c) == broken[c] \/ (ToldAt(c) /\ HalfAt(c) /\ (srv[c] = "closed" \/ JointAt(c)))
TypesInv(c) == StreamsAt(c) /\ ClientAt(c) /\ ServerAt(c)
IInv == TypeOK /\ \A c \in Clients : TypesInv(c) /\ InStepInv(c)

-----------------------------------------------------------------------------
(* Lines *)

(* The first newline is there, if there is one. *)
LEMMA LineEndIn ==
    ASSUME NEW s, Len(s) \in Nat, HasLine(s)
    PROVE  LineEnd(s) \in 1 .. Len(s)
<1> DEFINE S == {k \in 1 .. Len(s) : s[k] = NewLine}
<1>1. S \subseteq Nat /\ S # {}
  BY DEF HasLine
<1>2. PICK k \in S : \A j \in S : ~(<<j, k>> \in OpToRel(<, Nat))
  BY <1>1, NatLessThanWellFounded, WFMin
<1>3. \A j \in S : ~(j < k)
  BY <1>1, <1>2 DEF OpToRel
<1>4. k \in 1 .. Len(s) /\ s[k] = NewLine /\ \A j \in 1 .. k - 1 : s[j] # NewLine
  BY <1>3
<1> QED
  BY <1>4 DEF LineEnd

(* A line that is read, and what remains, are made of what the stream carried. *)
LEMMA LineParts ==
    ASSUME NEW S, NEW s \in Seq(S), HasLine(s)
    PROVE  /\ LineOf(s) \in Seq(S) /\ AfterLine(s) \in Seq(S)
           /\ Len(LineOf(s)) = 1 => LineOf(s)[1] \in S
<1>1. LineEnd(s) \in 1 .. Len(s) /\ Len(s) \in Nat
  BY LineEndIn
<1>2. LineOf(s) \in Seq(S) /\ AfterLine(s) \in Seq(S)
  BY <1>1 DEF LineOf, AfterLine
<1> QED
  BY <1>2

(* Of a stream that begins with a line, that line is read. *)
LEMMA FirstLine ==
    ASSUME NEW S, NEW x \in S, NewLine \in S, x # NewLine, NEW t \in Seq(S)
    PROVE  /\ HasLine(Line(x) \o t) /\ LineOf(Line(x) \o t) = <<x>>
           /\ AfterLine(Line(x) \o t) = t
<1> DEFINE s == Line(x) \o t
<1>1. /\ s \in Seq(S) /\ Len(s) = Len(t) + 2 /\ Len(t) \in Nat /\ s[1] = x /\ s[2] = NewLine
      /\ \A i \in 1 .. Len(t) : s[i + 2] = t[i]
  BY DEF Line
<1> HIDE DEF s
<1>2. HasLine(s)
  BY <1>1 DEF HasLine
<1>3. LineEnd(s) = 2
  <2>1. LineEnd(s) \in 1 .. Len(s) /\ s[LineEnd(s)] = NewLine
        /\ \A j \in 1 .. LineEnd(s) - 1 : s[j] # NewLine
    <3>1. 2 \in 1 .. Len(s) /\ s[2] = NewLine /\ \A j \in 1 .. 2 - 1 : s[j] # NewLine
      BY <1>1
    <3> QED
      BY <3>1 DEF LineEnd
  <2> QED
    BY <1>1, <2>1
<1>4. SubSeq(s, 1, 1) = <<x>>
  <2>1. SubSeq(s, 1, 1) \in Seq(S) /\ Len(SubSeq(s, 1, 1)) = 1 /\ SubSeq(s, 1, 1)[1] = x
    BY <1>1
  <2>2. <<x>> \in Seq(S) /\ Len(<<x>>) = 1 /\ <<x>>[1] = x
    OBVIOUS
  <2>3. \A i \in 1 .. 1 : SubSeq(s, 1, 1)[i] = <<x>>[i]
    BY <2>1, <2>2
  <2> QED
    BY <2>1, <2>2, <2>3, SeqEqual
<1>5. SubSeq(s, 3, Len(s)) = t
  <2>1. SubSeq(s, 3, Len(s)) \in Seq(S) /\ Len(SubSeq(s, 3, Len(s))) = Len(t)
    BY <1>1
  <2>2. \A i \in 1 .. Len(t) : SubSeq(s, 3, Len(s))[i] = t[i]
    BY <1>1
  <2> QED
    BY <2>1, <2>2, SeqEqual
<1>6. LineOf(s) = <<x>> /\ AfterLine(s) = t
  BY <1>3, <1>4, <1>5 DEF LineOf, AfterLine
<1> QED
  BY <1>2, <1>6 DEF s

(* Of a stream that holds one line, too. *)
LEMMA OneLine ==
    ASSUME NEW x, x # NewLine
    PROVE  /\ HasLine(Line(x)) /\ LineOf(Line(x)) = <<x>> /\ AfterLine(Line(x)) = <<>>
           /\ Len(Line(x)) = 2 /\ Line(x)[1] = x /\ Line(x) # <<>>
<1>1. Line(x) \in Seq({x, NewLine}) /\ <<>> \in Seq({x, NewLine}) /\ Line(x) \o <<>> = Line(x)
  BY ConcatEmptySeq DEF Line
<1>2. /\ HasLine(Line(x) \o <<>>) /\ LineOf(Line(x) \o <<>>) = <<x>>
      /\ AfterLine(Line(x) \o <<>>) = <<>>
  BY <1>1, FirstLine, x \in {x, NewLine}, NewLine \in {x, NewLine}
<1>3. Len(Line(x)) = 2 /\ Line(x)[1] = x /\ Line(x) # <<>>
  BY DEF Line
<1> QED
  BY <1>1, <1>2, <1>3

LEMMA NoLine == ~HasLine(<<>>)
BY DEF HasLine

(* The texts of lines are no newlines, and are told apart by their words. *)
LEMMA Texts ==
    ASSUME NEW k1, NEW f1, NEW n1, NEW k2, NEW f2, NEW n2
    PROVE  /\ Symbol(k1, f1, n1).kind = k1 /\ Symbol(k1, f1, n1).file = f1 /\ Symbol(k1, f1, n1).n = n1
           /\ k1 # k2 => Symbol(k1, f1, n1) # Symbol(k2, f2, n2) /\ Word(k1) # Symbol(k2, f2, n2)
                         /\ Word(k1) # Word(k2)
           /\ Word(k1).kind = k1
BY DEF Symbol, Word

(* What a client and the server send. *)
LEMMA UpWords ==
    ASSUME NEW c \in Clients
    PROVE  /\ NewLine \in UpSymbols(c) /\ Word("READY") \in UpSymbols(c)
           /\ \A f \in Names \cup {NoName} : Symbol("IWANT", f, 0) \in UpSymbols(c)
           /\ \A f \in DOMAIN Size[c] : /\ Symbol("UTAKE", f, Size[c][f]) \in UpSymbols(c)
                                        /\ \A n \in Nat : Symbol(c, f, n) \in UpSymbols(c)
<1>1. c \in Origins /\ c \notin Kinds
  BY TransferAssumption DEF Origins
<1>2. \A f \in DOMAIN Size[c] : f \in Names /\ Size[c][f] \in Nat
  BY <1>1, TransferAssumption
<1> QED
  BY <1>1, <1>2 DEF UpSymbols, Symbols, NewLine, Word, Symbol, Kinds

LEMMA DownWords ==
    /\ NewLine \in DownSymbols
    /\ \A w \in {"READY", "ERROR", "SUCCESS"} : Word(w) \in DownSymbols
    /\ \A f \in DOMAIN Size[Store] : /\ Symbol("FILE", f, Size[Store][f]) \in DownSymbols
                                     /\ \A n \in Nat : Symbol(Store, f, n) \in DownSymbols
<1>1. Store \in Origins /\ Store \notin Kinds
  BY TransferAssumption DEF Origins
<1>2. \A f \in DOMAIN Size[Store] : f \in Names /\ Size[Store][f] \in Nat
  BY <1>1, TransferAssumption
<1> QED
  BY <1>1, <1>2 DEF DownSymbols, Symbols, NewLine, Word, Symbol, Kinds

LEMMA LineType ==
    ASSUME NEW S, NEW x \in S, NewLine \in S, NEW s \in Seq(S)
    PROVE  s \o Line(x) \in Seq(S) /\ Line(x) \in Seq(S) /\ (s = <<>> => s \o Line(x) = Line(x))
<1>1. Line(x) \in Seq(S)
  BY DEF Line
<1> QED
  BY <1>1, ConcatEmptySeq

LEMMA Carried ==
    ASSUME NEW c \in Clients
    PROVE  UpSymbols(c) \subseteq Symbols /\ DownSymbols \subseteq Symbols
BY DEF UpSymbols, DownSymbols

LEMMA SizesAre ==
    ASSUME NEW o \in Origins
    PROVE  DOMAIN Size[o] \subseteq Names /\ \A f \in DOMAIN Size[o] : Size[o][f] \in Nat
BY TransferAssumption

(* What a header makes of a name is a name. *)
LEMMA NamesRead ==
    /\ \A f \in Names : FileIn(f) \in Names /\ (Misread(f) => Spaced[f].n \in Int)
    /\ \A c \in Clients : Stored(c) \subseteq Names
    /\ \A f : ~Misread(f) => FileIn(f) = f
<1>1. \A f \in Names : FileIn(f) \in Names /\ (Misread(f) => Spaced[f].n \in Int)
  BY TransferAssumption DEF FileIn, Misread
<1>2. \A c \in Clients : DOMAIN Size[c] \subseteq Names
  BY TransferAssumption DEF Origins
<1> QED
  BY <1>1, <1>2 DEF FileIn, Stored

LEMMA ClientsAndStore == Clients \subseteq Origins /\ Store \in Origins
BY DEF Origins

-----------------------------------------------------------------------------
(* Copies *)

(* A copy grows at its end. *)
LEMMA FirstGrows ==
    ASSUME NEW o, NEW f, NEW n \in Nat
    PROVE  /\ Len(First(o, f, n)) = n
           /\ First(o, f, n) \o <<Symbol(o, f, n + 1)>> = First(o, f, n + 1)
BY DEF First

LEMMA FirstIsNothing ==
    ASSUME NEW o, NEW f
    PROVE  First(o, f, 0) = <<>>
BY DEF First

LEMMA FirstIsData ==
    ASSUME NEW o, NEW f
    PROVE  First(o, f, Size[o][f]) = Data(o, f)
BY DEF First, Data

LEMMA MovedOn ==
    ASSUME NEW S, NEW s \in Seq(S), NEW t \in Seq(S), t # <<>>
    PROVE  /\ Append(s, Head(t)) \o Tail(t) = s \o t
           /\ Len(Tail(t)) = Len(t) - 1 /\ Len(t) \in Nat \ {0} /\ Head(t) \in S /\ Tail(t) \in Seq(S)
OBVIOUS

(* A part as long as the file is the file. *)
LEMMA AllCopied ==
    ASSUME NEW o, NEW f, Size[o][f] \in Nat, NEW n \in 0 .. Size[o][f],
           NEW s \in Seq(Symbols), NEW t \in Seq(Symbols),
           s \o t = First(o, f, n), Len(s) = Size[o][f]
    PROVE  s = Data(o, f) /\ t = <<>>
<1>1. Len(s) + Len(t) = n /\ Len(t) \in Nat
  <2>1. n \in Nat
    OBVIOUS
  <2>2. Len(First(o, f, n)) = n
    BY <2>1, FirstGrows
  <2>3. Len(s \o t) = Len(s) + Len(t) /\ Len(t) \in Nat
    OBVIOUS
  <2> QED
    BY <2>2, <2>3
<1>2. n = Size[o][f] /\ Len(t) = 0
  BY <1>1
<1>3. t = <<>> /\ s \o t = s
  BY <1>2, EmptySeq, ConcatEmptySeq
<1> QED
  BY <1>2, <1>3, FirstIsData

(* A write at the end appends. *)
LEMMA WriteAtEnd ==
    ASSUME NEW s \in Seq(Symbols), NEW x \in Symbols
    PROVE  WriteAt(s, Len(s) + 1, x) = Append(s, x)
<1> DEFINE w == WriteAt(s, Len(s) + 1, x)
<1>1. Len(s) \in Nat
  OBVIOUS
<1>2. w = [j \in 1 .. Len(s) + 1 |-> IF j = Len(s) + 1 THEN x ELSE s[j]]
  BY <1>1 DEF WriteAt
<1>3. w \in Seq(Symbols) /\ Len(w) = Len(s) + 1 /\ \A j \in 1 .. Len(s) + 1 : w[j] = Append(s, x)[j]
  <2> HIDE DEF w
  <2>1. \A j \in 1 .. Len(s) + 1 : (IF j = Len(s) + 1 THEN x ELSE s[j]) \in Symbols
    OBVIOUS
  <2> QED
    BY <1>1, <1>2, <2>1
<1>4. Append(s, x) \in Seq(Symbols) /\ Len(Append(s, x)) = Len(s) + 1
  OBVIOUS
<1> HIDE DEF w
<1>5. w = Append(s, x)
  BY <1>1, <1>3, <1>4
<1> QED
  BY <1>5 DEF w

LEMMA WriteType ==
    ASSUME NEW s \in Seq(Symbols), NEW k \in Nat \ {0}, NEW x \in Symbols
    PROVE  WriteAt(s, k, x) \in Seq(Symbols)
<1>1. Word("zero") \in Symbols
  BY DEF Word, Symbol, Symbols, Kinds
<1> QED
  BY <1>1 DEF WriteAt

-----------------------------------------------------------------------------
(* What a step on one connection leaves alone *)

Others(c) ==
    \A d \in Clients \ {c} :
        /\ toServer'[d] = toServer[d] /\ toClient'[d] = toClient[d]
        /\ pc'[d] = pc[d] /\ name'[d] = name[d] /\ left'[d] = left[d]
        /\ srv'[d] = srv[d] /\ job'[d] = job[d]
        /\ saved'[d] = saved[d] /\ told'[d] = told[d] /\ broken'[d] = broken[d]

(* The server's thread writes under the names that it reads in its own client's
   headers. *)
Written(c) ==
    \A f \in Names : /\ received[f] \in Seq(Symbols) => received'[f] \in Seq(Symbols)
                     /\ f \notin Stored(c) => received'[f] = received[f]

LEMMA StepKeeps ==
    ASSUME IInv, NEW c \in Clients, Others(c), Written(c),
           TypeOK', TypesInv(c)', InStepInv(c)'
    PROVE  IInv'
<1> SUFFICES ASSUME NEW d \in Clients \ {c}
             PROVE  TypesInv(d)' /\ InStepInv(d)'
  BY DEF IInv
<1>1. TypesInv(d) /\ InStepInv(d)
  BY DEF IInv
<1>2. DOMAIN Size[d] \subseteq Names
  BY SizesAre, ClientsAndStore
<1>3. /\ toServer'[d] = toServer[d] /\ toClient'[d] = toClient[d]
      /\ pc'[d] = pc[d] /\ name'[d] = name[d] /\ left'[d] = left[d]
      /\ srv'[d] = srv[d] /\ job'[d] = job[d]
      /\ saved'[d] = saved[d] /\ told'[d] = told[d] /\ broken'[d] = broken[d]
  BY DEF Others
<1>4. TypesInv(d)'
  <2>1. StreamsAt(d)'
    BY <1>1, <1>3 DEF TypesInv, StreamsAt
  <2>2. ClientAt(d)'
    BY <1>1, <1>3 DEF TypesInv, ClientAt
  <2>3. ServerAt(d)'
    BY <1>1, <1>2, <1>3, NamesRead DEF TypesInv, ServerAt, Written
  <2> QED
    BY <2>1, <2>2, <2>3 DEF TypesInv
<1>5. \A f \in DOMAIN Size[d] : Sole(d, f) => received'[f] = received[f]
  BY <1>2 DEF Sole, Written
<1>6. ToldAt(d) => ToldAt(d)'
  BY <1>3, <1>5 DEF ToldAt, Ready
<1>7. JointAt(d) => JointAt(d)'
  <2>1. pc[d] \in {"uTake", "sending"} => name[d] \in DOMAIN Size[d]
    BY <1>1 DEF TypesInv, ClientAt
  <2>2. AtPrompt(d)' = AtPrompt(d) /\ AtWant(d)' = AtWant(d) /\ AtReceive(d)' = AtReceive(d)
    BY <1>3 DEF AtPrompt, AtWant, AtReceive, Expects, Ready
  <2>3. name[d] \in DOMAIN Size[d] => AtTake(d)' = AtTake(d) /\ AtSend(d)' = AtSend(d)
    BY <1>3, <1>5 DEF AtTake, EmptyTaken, AtSend, Expects, Ready
  <2> QED
    BY <1>3, <2>1, <2>2, <2>3 DEF JointAt
<1>8. HalfAt(d) => HalfAt(d)'
  <2>1. pc[d] \in {"uTake", "sending"} => name[d] \in DOMAIN Size[d]
    BY <1>1 DEF TypesInv, ClientAt
  <2> QED
    BY <1>3, <1>5, <2>1 DEF HalfAt, EmptyTaken
<1> QED
  BY <1>1, <1>3, <1>4, <1>6, <1>7, <1>8 DEF InStepInv

(* Nothing is received by the server. *)
LEMMA NotWritten ==
    ASSUME NEW c \in Clients, received' = received
    PROVE  Written(c)
BY DEF Written

-----------------------------------------------------------------------------
(* The steps: each keeps the types, leaves other connections alone, and takes
   its own from one pair of positions to another. *)

(* A line that follows what is expected is expected next. *)
LEMMA ExpectsNext ==
    ASSUME NEW c \in Clients, NEW x \in UpSymbols(c), Expects(c, <<>>),
           toServer'[c] = toServer[c] \o Line(x), srv' = srv, job' = job
    PROVE  Expects(c, Line(x))'
<1>0. <<>> \in Seq(UpSymbols(c)) /\ NewLine \in UpSymbols(c) /\ Word("READY") \in UpSymbols(c)
  BY UpWords
<1>1. Line(x) \in Seq(UpSymbols(c)) /\ Line(Word("READY")) \in Seq(UpSymbols(c))
  BY <1>0, LineType
<1>2. /\ <<>> \o Line(x) = Line(x)
      /\ Line(Word("READY")) \o <<>> = Line(Word("READY"))
  BY <1>1, ConcatEmptySeq
<1> QED
  BY <1>2 DEF Expects, Ready

LEMMA IWantStep ==
    ASSUME IInv, NEW c \in Clients, NEW f \in Names, IWant(c, f)
    PROVE  IInv'
<1>1. TypeOK /\ TypesInv(c) /\ InStepInv(c)
  BY DEF IInv
<1>2. /\ srv[c] # "closed"
      /\ pc[c] = "prompt" /\ pc'[c] = "iWant" /\ name'[c] = f /\ told'[c] = "nothing"
      /\ toServer'[c] = toServer[c] \o Line(Symbol("IWANT", f, 0))
      /\ UNCHANGED <<toClient, left, srv, job, saved, received, broken>>
  BY <1>1 DEF TypeOK, IWant, Command, Send, chan, client, server
<1>3. TypeOK'
  <2>1. toServer'[c] \in Seq(Symbols)
    BY <1>1, <1>2, UpWords, LineType, Carried DEF TypeOK
  <2>2. commands' \in 0 .. MaxCommands
    BY <1>1, TransferAssumption DEF TypeOK, IWant, Command
  <2> QED
    BY <1>1, <2>1, <2>2 DEF TypeOK, IWant, Command, Send, server
<1>4. Others(c)
  BY <1>1 DEF TypeOK, Others, IWant, Command, Send, chan, client, server
<1>5. Written(c)
  BY <1>2, NotWritten
<1>6. StreamsAt(c)'
  BY <1>1, <1>2, UpWords, LineType DEF TypesInv, StreamsAt
<1>7. ClientAt(c)'
  BY <1>1, <1>2 DEF TypesInv, ClientAt
<1>8. ServerAt(c)'
  BY <1>1, <1>2 DEF TypesInv, ServerAt
<1>9. ASSUME ~broken'[c] PROVE InStepInv(c)'
  <2>1. ToldAt(c)'
    BY <1>1, <1>2, <1>9 DEF InStepInv, ToldAt, Ready, TypesInv, ClientAt
  <2>2. srv'[c] = "closed" \/ JointAt(c)'
    <3>1. srv[c] = "closed" \/ AtPrompt(c)
      BY <1>1, <1>2, <1>9 DEF InStepInv, JointAt
    <3>2. AtPrompt(c) => AtWant(c)'
      <4>1. Expects(c, <<>>) => Expects(c, Line(Symbol("IWANT", f, 0)))'
        BY <1>1, <1>2, UpWords, ExpectsNext
      <4> QED
        BY <1>2, <4>1 DEF AtPrompt, AtWant
    <3> QED
      BY <1>2, <3>1, <3>2 DEF JointAt
  <2>3. HalfAt(c)'
    <3>1. AtPrompt(c)
      BY <1>1, <1>2, <1>9 DEF InStepInv, JointAt
    <3> QED
      BY <1>2, <3>1 DEF AtPrompt, HalfAt
  <2> QED
    BY <2>1, <2>2, <2>3 DEF InStepInv
<1> QED
  BY <1>3, <1>4, <1>5, <1>6, <1>7, <1>8, <1>9, StepKeeps DEF TypesInv, InStepInv

LEMMA UTakeStep ==
    ASSUME IInv, NEW c \in Clients, NEW f \in Names, UTake(c, f)
    PROVE  IInv'
<1>1. TypeOK /\ TypesInv(c) /\ InStepInv(c)
  BY DEF IInv
<1>2. /\ srv[c] # "closed"
      /\ f \in DOMAIN Size[c] /\ pc[c] = "prompt" /\ pc'[c] = "uTake" /\ name'[c] = f /\ told'[c] = "nothing"
      /\ toServer'[c] = toServer[c] \o Line(Symbol("UTAKE", f, Size[c][f]))
      /\ UNCHANGED <<toClient, left, srv, job, saved, received, broken>>
  BY <1>1 DEF TypeOK, UTake, Command, Send, chan, client, server
<1>3. TypeOK'
  <2>1. toServer'[c] \in Seq(Symbols)
    BY <1>1, <1>2, UpWords, LineType, Carried DEF TypeOK
  <2>2. commands' \in 0 .. MaxCommands
    BY <1>1, TransferAssumption DEF TypeOK, UTake, Command
  <2> QED
    BY <1>1, <2>1, <2>2 DEF TypeOK, UTake, Command, Send, server
<1>4. Others(c)
  BY <1>1 DEF TypeOK, Others, UTake, Command, Send, chan, client, server
<1>5. Written(c)
  BY <1>2, NotWritten
<1>6. StreamsAt(c)'
  BY <1>1, <1>2, UpWords, LineType DEF TypesInv, StreamsAt
<1>7. ClientAt(c)'
  BY <1>1, <1>2 DEF TypesInv, ClientAt
<1>8. ServerAt(c)'
  BY <1>1, <1>2 DEF TypesInv, ServerAt
<1>9. ASSUME ~broken'[c] PROVE InStepInv(c)'
  <2>1. ToldAt(c)'
    BY <1>1, <1>2, <1>9 DEF InStepInv, ToldAt, Ready, TypesInv, ClientAt
  <2>2. srv'[c] = "closed" \/ JointAt(c)'
    <3>1. srv[c] = "closed" \/ AtPrompt(c)
      BY <1>1, <1>2, <1>9 DEF InStepInv, JointAt
    <3>2. AtPrompt(c) => AtTake(c)'
      <4>1. Expects(c, <<>>) => Expects(c, Line(Symbol("UTAKE", f, Size[c][f])))'
        BY <1>1, <1>2, UpWords, ExpectsNext
      <4> QED
        BY <1>2, <4>1 DEF AtPrompt, AtTake
    <3> QED
      BY <1>2, <3>1, <3>2 DEF JointAt
  <2>3. HalfAt(c)'
    <3>1. AtPrompt(c)
      BY <1>1, <1>2, <1>9 DEF InStepInv, JointAt
    <3> QED
      BY <1>2, <3>1 DEF AtPrompt, HalfAt
  <2> QED
    BY <2>1, <2>2, <2>3 DEF InStepInv
<1> QED
  BY <1>3, <1>4, <1>5, <1>6, <1>7, <1>8, <1>9, StepKeeps DEF TypesInv, InStepInv

LEMMA CommandInVainStep ==
    ASSUME IInv, NEW c \in Clients, CommandInVain(c)
    PROVE  IInv'
<1>1. TypeOK /\ TypesInv(c) /\ InStepInv(c)
  BY DEF IInv
<1>2. /\ srv[c] = "closed" /\ pc[c] = "prompt" /\ pc'[c] \in {"prompt", "gone"}
      /\ UNCHANGED <<toServer, toClient, name, left, srv, job, saved, received, told, broken>>
  BY <1>1 DEF TypeOK, CommandInVain, chan, client, server
<1>3. TypeOK'
  <2>1. commands' \in 0 .. MaxCommands
    BY <1>1, TransferAssumption DEF TypeOK, CommandInVain
  <2> QED
    BY <1>1, <2>1 DEF TypeOK, CommandInVain, chan, server
<1>4. Others(c)
  BY <1>1 DEF TypeOK, Others, CommandInVain, chan, client, server
<1>5. Written(c)
  BY <1>2, NotWritten
<1>6. StreamsAt(c)'
  BY <1>1, <1>2 DEF TypesInv, StreamsAt
<1>7. ClientAt(c)'
  BY <1>1, <1>2 DEF TypesInv, ClientAt
<1>8. ServerAt(c)'
  BY <1>1, <1>2 DEF TypesInv, ServerAt
<1>9. ASSUME ~broken'[c] PROVE InStepInv(c)'
  <2>1. ToldAt(c)'
    BY <1>1, <1>2, <1>9 DEF InStepInv, ToldAt, Ready, TypesInv, ClientAt
  <2>2. srv'[c] = "closed" \/ JointAt(c)'
    BY <1>1, <1>2, <1>9 DEF InStepInv, JointAt, TypesInv, ClientAt, ServerAt
  <2>3. HalfAt(c)'
    BY <1>1, <1>2, <1>9 DEF InStepInv, HalfAt, EmptyTaken, TypesInv, ClientAt
  <2> QED
    BY <2>1, <2>2, <2>3 DEF InStepInv
<1> QED
  BY <1>3, <1>4, <1>5, <1>6, <1>7, <1>8, <1>9, StepKeeps DEF TypesInv, InStepInv

LEMMA LeaveStep ==
    ASSUME IInv, NEW c \in Clients, Leave(c)
    PROVE  IInv'
<1>1. TypeOK /\ TypesInv(c) /\ InStepInv(c)
  BY DEF IInv
<1>2. /\ pc'[c] = "gone" /\ left'[c] = 0
      /\ UNCHANGED <<toServer, toClient, name, srv, job, saved, received, told, broken, commands>>
  BY <1>1 DEF TypeOK, Leave, Step, chan, client, server
<1>3. TypeOK'
  BY <1>1, <1>2 DEF TypeOK, Leave, Step, chan, client, server
<1>4. Others(c)
  BY <1>1 DEF TypeOK, Others, Leave, Step, chan, client, server
<1>5. Written(c)
  BY <1>2, NotWritten
<1>6. StreamsAt(c)'
  BY <1>1, <1>2 DEF TypesInv, StreamsAt
<1>7. ClientAt(c)'
  BY <1>1, <1>2 DEF TypesInv, ClientAt
<1>8. ServerAt(c)'
  BY <1>1, <1>2 DEF TypesInv, ServerAt
<1>9. ASSUME ~broken'[c] PROVE InStepInv(c)'
  <2>1. ToldAt(c)'
    BY <1>1, <1>2, <1>9 DEF InStepInv, ToldAt, Ready, TypesInv, ClientAt
  <2>2. srv'[c] = "closed" \/ JointAt(c)'
    BY <1>1, <1>2, <1>9 DEF InStepInv, JointAt, TypesInv, ClientAt, ServerAt
  <2>3. HalfAt(c)'
    BY <1>1, <1>2, <1>9 DEF InStepInv, HalfAt, EmptyTaken, TypesInv, ClientAt
  <2> QED
    BY <2>1, <2>2, <2>3 DEF InStepInv
<1> QED
  BY <1>3, <1>4, <1>5, <1>6, <1>7, <1>8, <1>9, StepKeeps DEF TypesInv, InStepInv

LEMMA DisconnectedStep ==
    ASSUME IInv, NEW c \in Clients, Disconnected(c)
    PROVE  IInv'
<1>1. TypeOK /\ TypesInv(c) /\ InStepInv(c)
  BY DEF IInv
<1>2. /\ srv[c] = "closed" /\ pc[c] \notin {"prompt", "gone"} /\ pc'[c] \in {"prompt", "gone"} /\ left'[c] = 0
      /\ told'[c] \in {"failed", told[c]}
      /\ UNCHANGED <<toServer, toClient, name, srv, job, saved, received, broken, commands>>
  BY <1>1 DEF TypeOK, Disconnected, Prompt, Step, chan, client, server
<1>3. TypeOK'
  <2>1. pc' \in [Clients -> {"prompt", "iWant", "receiving", "uTake", "sending", "gone"}]
    BY <1>1 DEF TypeOK, Disconnected, Prompt, Step
  <2>2. left' \in [Clients -> Nat]
    BY <1>1, 0 \in Nat DEF TypeOK, Disconnected, Prompt, Step
  <2>3. told' \in [Clients -> {"nothing", "failed", "downloaded", "uploaded"}]
    BY <1>1 DEF TypeOK, Disconnected, Prompt, Step
  <2> QED
    BY <1>1, <1>2, <2>1, <2>2, <2>3 DEF TypeOK, Disconnected, Prompt, Step
<1>4. Others(c)
  BY <1>1 DEF TypeOK, Others, Disconnected, Prompt, Step, chan, client, server
<1>5. Written(c)
  BY <1>2, NotWritten
<1>6. StreamsAt(c)'
  BY <1>1, <1>2 DEF TypesInv, StreamsAt
<1>7. ClientAt(c)'
  BY <1>1, <1>2 DEF TypesInv, ClientAt
<1>8. ServerAt(c)'
  BY <1>1, <1>2 DEF TypesInv, ServerAt
<1>9. ASSUME ~broken'[c] PROVE InStepInv(c)'
  <2>1. ToldAt(c)'
    BY <1>1, <1>2, <1>9 DEF InStepInv, ToldAt, Ready, TypesInv, ClientAt
  <2>2. srv'[c] = "closed" \/ JointAt(c)'
    BY <1>1, <1>2, <1>9 DEF InStepInv, JointAt, TypesInv, ClientAt, ServerAt
  <2>3. HalfAt(c)'
    BY <1>1, <1>2, <1>9 DEF InStepInv, HalfAt, EmptyTaken, TypesInv, ClientAt
  <2> QED
    BY <2>1, <2>2, <2>3 DEF InStepInv
<1> QED
  BY <1>3, <1>4, <1>5, <1>6, <1>7, <1>8, <1>9, StepKeeps DEF TypesInv, InStepInv

LEMMA DownloadedStep ==
    ASSUME IInv, NEW c \in Clients, Downloaded(c)
    PROVE  IInv'
<1>1. TypeOK /\ TypesInv(c) /\ InStepInv(c)
  BY DEF IInv
<1>2. /\ pc[c] = "receiving" /\ left[c] = 0 /\ pc'[c] = "prompt" /\ left'[c] = 0 /\ told'[c] = "downloaded"
      /\ UNCHANGED <<toServer, toClient, name, srv, job, saved, received, broken, commands>>
  BY <1>1 DEF TypeOK, Downloaded, Prompt, chan, client, server
<1>3. TypeOK'
  BY <1>1, <1>2 DEF TypeOK, Downloaded, Prompt, chan, client, server
<1>4. Others(c)
  BY <1>1 DEF TypeOK, Others, Downloaded, Prompt, chan, client, server
<1>5. Written(c)
  BY <1>2, NotWritten
<1>6. StreamsAt(c)'
  BY <1>1, <1>2 DEF TypesInv, StreamsAt
<1>7. ClientAt(c)'
  BY <1>1, <1>2 DEF TypesInv, ClientAt
<1>8. ServerAt(c)'
  BY <1>1, <1>2 DEF TypesInv, ServerAt
<1>9. ASSUME ~broken'[c] PROVE InStepInv(c)'
  <2>1. ToldAt(c)'
    <3>1. /\ name[c] \in DOMAIN Size[Store] /\ Size[Store][name[c]] \in Nat
          /\ saved[c][name[c]] \in Seq(Symbols) /\ toClient[c] \in Seq(Symbols)
      BY <1>1, <1>2, <1>9, SizesAre, ClientsAndStore DEF TypeOK, TypesInv, ClientAt
    <3>2. PICK n \in 0 .. Size[Store][name[c]] :
             saved[c][name[c]] \o toClient[c] = First(Store, name[c], n)
      BY <1>1, <1>2, <1>9 DEF InStepInv, HalfAt
    <3>3. Len(saved[c][name[c]]) = Size[Store][name[c]]
      <4>1. 0 = Size[Store][name[c]] - Len(saved[c][name[c]])
        BY <1>1, <1>2, <1>9 DEF InStepInv, HalfAt
      <4>2. Len(saved[c][name[c]]) \in Nat
        BY <3>1
      <4> QED
        BY <3>1, <4>1, <4>2
    <3>4. saved[c][name[c]] = Data(Store, name[c])
      BY <3>1, <3>2, <3>3, FirstIsData, FirstGrows, AllCopied
    <3> QED
      BY <1>2, <3>4 DEF ToldAt
  <2>2. srv'[c] = "closed" \/ JointAt(c)'
    <3>1. srv[c] = "closed" \/ AtReceive(c)
      BY <1>1, <1>2, <1>9 DEF InStepInv, JointAt
    <3>2. AtReceive(c) => AtPrompt(c)'
      <4>1. /\ Len(toClient[c]) \in Nat /\ (Len(toClient[c]) = 0 => toClient[c] = <<>>)
            /\ job[c].left \in Nat
        BY <1>1, EmptySeq DEF TypeOK
      <4>2. Line(Word("READY")) \o <<>> = Line(Word("READY"))
        BY UpWords, LineType, ConcatEmptySeq
      <4>3. CASE srv[c] = "ready?" /\ toServer[c] = Line(Word("READY")) /\ toClient[c] = <<>>
                 /\ left[c] = job[c].total
        <5>1. Expects(c, <<>>)'
          BY <1>2, <4>2, <4>3 DEF Expects
        <5> QED
          BY <1>2, <4>3, <5>1 DEF AtPrompt
      <4>4. CASE srv[c] \in {"sending", "command"} /\ toServer[c] = <<>>
                 /\ (srv[c] = "sending" => left[c] = Len(toClient[c]) + job[c].left)
                 /\ (srv[c] = "command" => left[c] = Len(toClient[c]))
        <5>1. toClient[c] = <<>> /\ (srv[c] = "sending" => job[c].left = 0)
          BY <1>2, <4>1, <4>4
        <5>2. Expects(c, <<>>)'
          BY <1>2, <4>4, <5>1 DEF Expects, Ready
        <5> QED
          BY <1>2, <5>1, <5>2 DEF AtPrompt
      <4> QED
        BY <4>3, <4>4 DEF AtReceive
    <3> QED
      BY <1>2, <3>1, <3>2 DEF JointAt
  <2>3. HalfAt(c)'
    BY <1>1, <1>2, <1>9 DEF InStepInv, HalfAt, EmptyTaken, TypesInv, ClientAt
  <2> QED
    BY <2>1, <2>2, <2>3 DEF InStepInv
<1> QED
  BY <1>3, <1>4, <1>5, <1>6, <1>7, <1>8, <1>9, StepKeeps DEF TypesInv, InStepInv

LEMMA ServedStep ==
    ASSUME IInv, NEW c \in Clients, Served(c)
    PROVE  IInv'
<1>1. TypeOK /\ TypesInv(c) /\ InStepInv(c)
  BY DEF IInv
<1>2. /\ srv[c] = "sending" /\ job[c].left = 0 /\ srv'[c] = "command"
      /\ job'[c] = [file |-> NoName, left |-> 0, total |-> 0]
      /\ UNCHANGED <<toServer, toClient, pc, name, left, saved, received, told, broken, commands>>
  BY <1>1 DEF TypeOK, Served, Serve, chan, client, server
<1>3. TypeOK'
  BY <1>1, <1>2 DEF TypeOK, Served, Serve, chan, client, server
<1>4. Others(c)
  BY <1>1 DEF TypeOK, Others, Served, Serve, chan, client, server
<1>5. Written(c)
  BY <1>2, NotWritten
<1>6. StreamsAt(c)'
  BY <1>1, <1>2 DEF TypesInv, StreamsAt
<1>7. ClientAt(c)'
  BY <1>1, <1>2 DEF TypesInv, ClientAt
<1>8. ServerAt(c)'
  BY <1>1, <1>2 DEF TypesInv, ServerAt
<1>9. ASSUME ~broken'[c] PROVE InStepInv(c)'
  <2>1. ToldAt(c)'
    BY <1>1, <1>2, <1>9 DEF InStepInv, ToldAt, Ready, TypesInv, ClientAt
  <2>2. srv'[c] = "closed" \/ JointAt(c)'
    <3>1. JointAt(c) /\ Ready(c)
      BY <1>1, <1>2, <1>9 DEF InStepInv, Ready
    <3>2. \A s : Expects(c, s) => Expects(c, s)'
      BY <1>2 DEF Expects, Ready
    <3>3. AtReceive(c) => AtReceive(c)'
      <4>1. pc[c] = "receiving" => Size[Store][name[c]] \in Nat
        BY <1>1, <1>2, <1>9, SizesAre, ClientsAndStore DEF TypesInv, ClientAt
      <4> QED
        BY <1>1, <1>2, FirstIsData DEF AtReceive, TypesInv, ServerAt, TypeOK, StreamsAt
    <3> QED
      BY <1>2, <3>1, <3>2, <3>3 DEF JointAt, AtPrompt, AtWant, AtTake, EmptyTaken, AtSend
  <2>3. HalfAt(c)'
    BY <1>1, <1>2, <1>9 DEF InStepInv, HalfAt, EmptyTaken, TypesInv, ClientAt
  <2> QED
    BY <2>1, <2>2, <2>3 DEF InStepInv
<1> QED
  BY <1>3, <1>4, <1>5, <1>6, <1>7, <1>8, <1>9, StepKeeps DEF TypesInv, InStepInv

LEMMA ServerSeesEndStep ==
    ASSUME IInv, NEW c \in Clients, ServerSeesEnd(c)
    PROVE  IInv'
<1>1. TypeOK /\ TypesInv(c) /\ InStepInv(c)
  BY DEF IInv
<1>2. /\ pc[c] = "gone" /\ srv'[c] = "closed"
      /\ job'[c] = [file |-> NoName, left |-> 0, total |-> 0]
      /\ UNCHANGED <<toServer, toClient, pc, name, left, saved, received, told, broken, commands>>
  BY <1>1 DEF TypeOK, ServerSeesEnd, Serve, chan, client, server
<1>3. TypeOK'
  BY <1>1, <1>2 DEF TypeOK, ServerSeesEnd, Serve, chan, client, server
<1>4. Others(c)
  BY <1>1 DEF TypeOK, Others, ServerSeesEnd, Serve, chan, client, server
<1>5. Written(c)
  BY <1>2, NotWritten
<1>6. StreamsAt(c)'
  BY <1>1, <1>2 DEF TypesInv, StreamsAt
<1>7. ClientAt(c)'
  BY <1>1, <1>2 DEF TypesInv, ClientAt
<1>8. ServerAt(c)'
  BY <1>1, <1>2 DEF TypesInv, ServerAt
<1>9. ASSUME ~broken'[c] PROVE InStepInv(c)'
  <2>1. ToldAt(c)'
    BY <1>1, <1>2, <1>9 DEF InStepInv, ToldAt, Ready, TypesInv, ClientAt
  <2>2. srv'[c] = "closed" \/ JointAt(c)'
    BY <1>1, <1>2, <1>9 DEF InStepInv, JointAt, TypesInv, ClientAt, ServerAt
  <2>3. HalfAt(c)'
    BY <1>1, <1>2, <1>9 DEF InStepInv, HalfAt, EmptyTaken, TypesInv, ClientAt
  <2> QED
    BY <2>1, <2>2, <2>3 DEF InStepInv
<1> QED
  BY <1>3, <1>4, <1>5, <1>6, <1>7, <1>8, <1>9, StepKeeps DEF TypesInv, InStepInv

(* What a client reads is one line of those that it can expect. *)
LEMMA LinesRead ==
    /\ \A w \in {"READY", "ERROR", "SUCCESS"} :
          /\ HasLine(Line(Word(w))) /\ LineOf(Line(Word(w))) = <<Word(w)>>
          /\ AfterLine(Line(Word(w))) = <<>>
    /\ \A f, n : \A w \in {"FILE", "IWANT", "UTAKE"} :
          /\ HasLine(Line(Symbol(w, f, n))) /\ LineOf(Line(Symbol(w, f, n))) = <<Symbol(w, f, n)>>
          /\ AfterLine(Line(Symbol(w, f, n))) = <<>>
<1>1. ASSUME NEW w \in {"READY", "ERROR", "SUCCESS"} PROVE Word(w) # NewLine
  BY Texts DEF NewLine
<1>2. ASSUME NEW f, NEW n, NEW w \in {"FILE", "IWANT", "UTAKE"} PROVE Symbol(w, f, n) # NewLine
  BY Texts DEF NewLine, Word
<1> QED
  BY <1>1, <1>2, OneLine

LEMMA TwoLines ==
    ASSUME NEW c \in Clients, NEW s \in Seq(UpSymbols(c))
    PROVE  /\ HasLine(Line(Word("READY")) \o s) /\ LineOf(Line(Word("READY")) \o s) = <<Word("READY")>>
           /\ AfterLine(Line(Word("READY")) \o s) = s
<1>1. Word("READY") # NewLine /\ Word("READY") \in UpSymbols(c) /\ NewLine \in UpSymbols(c)
  BY UpWords, Texts DEF NewLine
<1> QED
  BY <1>1, FirstLine

LEMMA ReadyAndSuccess ==
    LET s == Line(Word("READY")) \o Line(Word("SUCCESS"))
    IN  /\ HasLine(s) /\ LineOf(s) = <<Word("READY")>> /\ AfterLine(s) = Line(Word("SUCCESS"))
<1>1. Line(Word("SUCCESS")) \in Seq(DownSymbols) /\ Word("READY") # NewLine
  BY DownWords, Texts DEF Line, NewLine
<1> QED
  BY <1>1, DownWords, FirstLine

LEMMA WordsDiffer ==
    /\ <<Word("READY")>> # <<Word("ERROR")>> /\ <<Word("READY")>> # <<Word("SUCCESS")>>
    /\ Len(<<Word("ERROR")>>) = 1 /\ <<Word("ERROR")>>[1].kind # "FILE"
    /\ \A f, n : /\ Len(<<Symbol("FILE", f, n)>>) = 1
                 /\ <<Symbol("FILE", f, n)>>[1] = Symbol("FILE", f, n)
                 /\ Symbol("FILE", f, n).kind = "FILE"
                 /\ Symbol("FILE", f, n).file = f /\ Symbol("FILE", f, n).n = n
<1>1. \A x, y : <<x>> = <<y>> => x = y
  <2> SUFFICES ASSUME NEW x, NEW y, <<x>> = <<y>> PROVE x = y
    OBVIOUS
  <2>1. <<x>>[1] = x /\ <<y>>[1] = y
    OBVIOUS
  <2> QED
    BY <2>1
<1>2. Word("READY") # Word("ERROR") /\ Word("READY") # Word("SUCCESS")
  BY Texts
<1> QED
  BY <1>1, <1>2 DEF Word, Symbol

LEMMA FileHeaderStep ==
    ASSUME IInv, NEW c \in Clients, FileHeader(c)
    PROVE  IInv'
<1>1. TypeOK /\ TypesInv(c) /\ InStepInv(c)
  BY DEF IInv
<1> DEFINE reply == LineOf(toClient[c])
<1>a. /\ HasLine(toClient[c]) /\ AfterLine(toClient[c]) \in Seq(DownSymbols)
      /\ AfterLine(toClient[c]) \in Seq(Symbols)
      /\ Len(reply) = 1 => reply[1] \in DownSymbols
  BY <1>1, LineParts, Carried DEF FileHeader, TypesInv, StreamsAt, TypeOK
<1>b. Len(reply) = 1 /\ reply[1].kind = "FILE" =>
        /\ reply[1].file \in DOMAIN Size[Store] /\ reply[1].file \in Names
        /\ reply[1].n = Size[Store][reply[1].file] /\ reply[1].n \in Nat
  BY <1>a, SizesAre, ClientsAndStore DEF DownSymbols
<1>d. Len(reply) = 1 /\ reply[1].kind = "FILE" =>
        /\ FileIn(reply[1].file) \in Names /\ ToCome(SizeIn(reply[1])) \in Nat
        /\ ~Misread(reply[1].file) => /\ FileIn(reply[1].file) = reply[1].file
                                      /\ ToCome(SizeIn(reply[1])) = reply[1].n
  <2>1. ASSUME Len(reply) = 1, reply[1].kind = "FILE"
        PROVE  SizeIn(reply[1]) \in Int /\ (~Misread(reply[1].file) => SizeIn(reply[1]) = reply[1].n)
    BY <1>b, <2>1, NamesRead DEF SizeIn
  <2>2. \A n \in Int : ToCome(n) \in Nat /\ (n \in Nat => ToCome(n) = n)
    BY DEF ToCome
  <2> QED
    BY <1>b, <2>1, <2>2, NamesRead
<1>c. /\ toClient' = [toClient EXCEPT ![c] = AfterLine(@)]
      /\ \/ /\ Len(reply) = 1 /\ reply[1].kind = "FILE"
            /\ toServer' = [toServer EXCEPT ![c] = @ \o Line(Word("READY"))]
            /\ saved' = [saved EXCEPT ![c][FileIn(reply[1].file)] = <<>>]
            /\ name' = [name EXCEPT ![c] = FileIn(reply[1].file)]
            /\ left' = [left EXCEPT ![c] = ToCome(SizeIn(reply[1]))]
            /\ pc' = [pc EXCEPT ![c] = "receiving"]
            /\ UNCHANGED told
            /\ broken' = [broken EXCEPT ![c] = @ \/ Misread(reply[1].file)]
         \/ /\ pc' = [pc EXCEPT ![c] = "prompt"]
            /\ told' = [told EXCEPT ![c] = "failed"]
            /\ left' = [left EXCEPT ![c] = 0]
            /\ UNCHANGED <<toServer, saved, name>>
            /\ \/ broken' = [broken EXCEPT ![c] = TRUE]
               \/ broken' = broken /\ ~(Len(reply) = 1 /\ reply[1].kind = "FILE")
  BY DEF FileHeader, Prompt, Send, reply
<1> HIDE DEF reply
<1>2. /\ pc[c] = "iWant" /\ HasLine(toClient[c]) /\ toClient'[c] = AfterLine(toClient[c])
      /\ \/ /\ Len(reply) = 1 /\ reply[1].kind = "FILE"
            /\ toServer'[c] = toServer[c] \o Line(Word("READY"))
            /\ saved'[c] = [saved[c] EXCEPT ![FileIn(reply[1].file)] = <<>>]
            /\ name'[c] = FileIn(reply[1].file) /\ left'[c] = ToCome(SizeIn(reply[1]))
            /\ pc'[c] = "receiving" /\ UNCHANGED told
            /\ ~broken'[c] => ~broken[c] /\ ~Misread(reply[1].file)
         \/ /\ pc'[c] = "prompt" /\ left'[c] = 0 /\ told'[c] = "failed"
            /\ UNCHANGED <<toServer, saved, name>>
            /\ \/ broken'[c]
               \/ UNCHANGED broken /\ ~(Len(reply) = 1 /\ reply[1].kind = "FILE")
      /\ UNCHANGED <<srv, job, received, commands>>
  <2>1. pc[c] = "iWant" /\ HasLine(toClient[c]) /\ UNCHANGED <<srv, job, received, commands>>
    BY DEF FileHeader, Prompt, server
  <2>2. toClient'[c] = AfterLine(toClient[c])
    BY <1>1, <1>c DEF TypeOK
  <2>3. CASE /\ Len(reply) = 1 /\ reply[1].kind = "FILE"
             /\ toServer' = [toServer EXCEPT ![c] = @ \o Line(Word("READY"))]
             /\ saved' = [saved EXCEPT ![c][FileIn(reply[1].file)] = <<>>]
             /\ name' = [name EXCEPT ![c] = FileIn(reply[1].file)]
             /\ left' = [left EXCEPT ![c] = ToCome(SizeIn(reply[1]))]
             /\ pc' = [pc EXCEPT ![c] = "receiving"]
             /\ UNCHANGED told
             /\ broken' = [broken EXCEPT ![c] = @ \/ Misread(reply[1].file)]
    <3>1. /\ toServer'[c] = toServer[c] \o Line(Word("READY"))
          /\ saved'[c] = [saved[c] EXCEPT ![FileIn(reply[1].file)] = <<>>]
      BY <1>1, <2>3 DEF TypeOK
    <3>2. name'[c] = FileIn(reply[1].file) /\ left'[c] = ToCome(SizeIn(reply[1])) /\ pc'[c] = "receiving"
      BY <1>1, <2>3 DEF TypeOK
    <3>3. ~broken'[c] => ~broken[c] /\ ~Misread(reply[1].file)
      BY <1>1, <2>3 DEF TypeOK
    <3> QED
      BY <2>1, <2>2, <2>3, <3>1, <3>2, <3>3
  <2>4. CASE /\ pc' = [pc EXCEPT ![c] = "prompt"]
             /\ told' = [told EXCEPT ![c] = "failed"]
             /\ left' = [left EXCEPT ![c] = 0]
             /\ UNCHANGED <<toServer, saved, name>>
             /\ \/ broken' = [broken EXCEPT ![c] = TRUE]
                \/ broken' = broken /\ ~(Len(reply) = 1 /\ reply[1].kind = "FILE")
    <3>1. pc'[c] = "prompt" /\ told'[c] = "failed" /\ left'[c] = 0
      BY <1>1, <2>4 DEF TypeOK
    <3>2. \/ broken'[c]
          \/ UNCHANGED broken /\ ~(Len(reply) = 1 /\ reply[1].kind = "FILE")
      BY <1>1, <2>4 DEF TypeOK
    <3> QED
      BY <2>1, <2>2, <2>4, <3>1, <3>2
  <2> QED
    BY <1>c, <2>3, <2>4
<1>3. TypeOK'
  <2>1. toServer[c] \in Seq(Symbols) /\ toServer[c] \o Line(Word("READY")) \in Seq(Symbols)
    BY <1>1, UpWords, LineType, Carried DEF TypeOK
  <2>2. toServer' \in [Clients -> Seq(Symbols)] /\ toClient' \in [Clients -> Seq(Symbols)]
    <3>1. toServer' = toServer \/ toServer' = [toServer EXCEPT ![c] = @ \o Line(Word("READY"))]
      BY <1>c
    <3>2. toServer' \in [Clients -> Seq(Symbols)]
      <4>1. CASE toServer' = [toServer EXCEPT ![c] = @ \o Line(Word("READY"))]
        BY <1>1, <2>1, <4>1 DEF TypeOK
      <4> QED
        BY <1>1, <3>1, <4>1 DEF TypeOK
    <3>3. toClient' \in [Clients -> Seq(Symbols)]
      BY <1>1, <1>a, <1>c DEF TypeOK
    <3> QED
      BY <3>2, <3>3
  <2>3. saved' \in [Clients -> [Names -> Seq(Symbols) \cup {NoFile}]]
    <3>1. CASE Len(reply) = 1 /\ reply[1].kind = "FILE"
               /\ saved' = [saved EXCEPT ![c][FileIn(reply[1].file)] = <<>>]
      BY <1>1, <1>d, <3>1, <<>> \in Seq(Symbols) DEF TypeOK
    <3> QED
      BY <1>1, <1>c, <3>1 DEF TypeOK
  <2>4. /\ pc' \in [Clients -> {"prompt", "iWant", "receiving", "uTake", "sending", "gone"}]
        /\ name' \in [Clients -> Names \cup {NoName}] /\ left' \in [Clients -> Nat]
    <3>1. pc' = [pc EXCEPT ![c] = "receiving"] \/ pc' = [pc EXCEPT ![c] = "prompt"]
      BY <1>c
    <3>2. \/ UNCHANGED name
          \/ name' = [name EXCEPT ![c] = FileIn(reply[1].file)] /\ FileIn(reply[1].file) \in Names
      BY <1>c, <1>d
    <3>3. \/ left' = [left EXCEPT ![c] = 0]
          \/ left' = [left EXCEPT ![c] = ToCome(SizeIn(reply[1]))] /\ ToCome(SizeIn(reply[1])) \in Nat
      BY <1>c, <1>d
    <3>4. pc' \in [Clients -> {"prompt", "iWant", "receiving", "uTake", "sending", "gone"}]
      BY <1>1, <3>1 DEF TypeOK
    <3>5. name' \in [Clients -> Names \cup {NoName}]
      BY <1>1, <3>2 DEF TypeOK
    <3>6. left' \in [Clients -> Nat]
      BY <1>1, <3>3, 0 \in Nat DEF TypeOK
    <3> QED
      BY <3>4, <3>5, <3>6
  <2>5. /\ told' \in [Clients -> {"nothing", "failed", "downloaded", "uploaded"}]
        /\ broken' \in [Clients -> BOOLEAN]
    BY <1>1, <1>c DEF TypeOK
  <2> QED
    BY <1>1, <1>2, <2>2, <2>3, <2>4, <2>5 DEF TypeOK
<1>4. Others(c)
  BY <1>1 DEF TypeOK, Others, FileHeader, Prompt, Send, chan, client, server
<1>5. Written(c)
  BY <1>2, NotWritten
<1>6. StreamsAt(c)'
  <2>1. toServer[c] \o Line(Word("READY")) \in Seq(UpSymbols(c))
    BY <1>1, UpWords, LineType DEF TypesInv, StreamsAt
  <2> QED
    BY <1>1, <1>2, <1>a, <2>1 DEF TypesInv, StreamsAt
<1>7. ClientAt(c)'
  <2>1. CASE pc'[c] = "prompt"
    BY <1>2, <2>1 DEF ClientAt
  <2>2. CASE pc'[c] = "receiving"
    <3>1. /\ name'[c] = FileIn(reply[1].file) /\ told'[c] = told[c]
          /\ saved'[c] = [saved[c] EXCEPT ![FileIn(reply[1].file)] = <<>>]
          /\ FileIn(reply[1].file) \in Names
          /\ ~broken'[c] => FileIn(reply[1].file) \in DOMAIN Size[Store]
      BY <1>2, <1>b, <1>d, <2>2
    <3>2. saved'[c][name'[c]] = <<>> /\ <<>> \in Seq(Symbols)
      BY <1>1, <3>1 DEF TypeOK
    <3>3. told[c] = "nothing"
      BY <1>1, <1>2 DEF TypesInv, ClientAt
    <3> QED
      BY <2>2, <3>1, <3>2, <3>3 DEF ClientAt
  <2> QED
    BY <1>2, <2>1, <2>2
<1>8. ServerAt(c)'
  BY <1>1, <1>2 DEF TypesInv, ServerAt
<1>9. ASSUME ~broken'[c] PROVE InStepInv(c)'
  <2>1. ToldAt(c)'
    BY <1>1, <1>2 DEF ToldAt, TypesInv, ClientAt
  <2>2. srv'[c] = "closed" \/ JointAt(c)'
    <3>1. srv[c] = "closed" \/ AtWant(c)
      BY <1>1, <1>2, <1>9 DEF InStepInv, JointAt
    <3>2. CASE /\ srv[c] = "command" /\ toServer[c] = <<>> /\ toClient[c] = Line(Word("ERROR"))
      <4>1. ~(Len(reply) = 1 /\ reply[1].kind = "FILE") /\ toClient'[c] = <<>>
        BY <1>2, <3>2, LinesRead, WordsDiffer DEF reply
      <4>2. AtPrompt(c)'
        BY <1>2, <3>2, <4>1 DEF AtPrompt, Expects, Ready
      <4> QED
        BY <1>2, <4>1, <4>2 DEF JointAt
    <3>3. CASE /\ srv[c] = "ready?" /\ job[c].file = name[c] /\ toServer[c] = <<>>
               /\ toClient[c] = Line(Symbol("FILE", name[c], Size[Store][name[c]]))
      <4>1. /\ Len(reply) = 1 /\ reply[1].kind = "FILE" /\ toClient'[c] = <<>>
            /\ reply[1].file = name[c] /\ reply[1].n = Size[Store][name[c]]
        BY <1>2, <3>3, LinesRead, WordsDiffer DEF reply
      <4>2. toServer'[c] = Line(Word("READY"))
        BY <1>1, <1>2, <1>9, <3>3, <4>1, UpWords, LineType DEF TypesInv, StreamsAt
      <4>3. saved'[c][name'[c]] = <<>> /\ name'[c] = name[c] /\ left'[c] = job[c].total
        BY <1>1, <1>2, <1>9, <1>b, <1>d, <3>3, <4>1 DEF TypesInv, ServerAt, TypeOK
      <4>4. AtReceive(c)'
        BY <1>2, <3>3, <4>1, <4>2, <4>3 DEF AtReceive
      <4> QED
        BY <1>2, <1>9, <4>1, <4>4 DEF JointAt
    <3> QED
      BY <1>2, <3>1, <3>2, <3>3, NoLine DEF AtWant
  <2>3. HalfAt(c)'
    <3>1. CASE pc'[c] = "receiving"
      <4>1. saved'[c][name'[c]] = <<>> /\ left'[c] = Size[Store][name'[c]]
        BY <1>1, <1>2, <1>9, <1>b, <1>d, <3>1 DEF TypeOK
      <4>2. toClient'[c] = <<>>
        <5>1. \/ toClient[c] = Line(Word("ERROR"))
              \/ toClient[c] = Line(Symbol("FILE", name[c], Size[Store][name[c]]))
          BY <1>1, <1>2, <1>9, <3>1, NoLine DEF InStepInv, HalfAt
        <5> QED
          BY <1>2, <5>1, LinesRead
      <4>3. /\ 0 \in 0 .. Size[Store][name'[c]] /\ <<>> \o <<>> = First(Store, name'[c], 0)
            /\ Size[Store][name'[c]] = Size[Store][name'[c]] - Len(<<>>)
        BY <1>2, <1>9, <1>b, <1>d, <3>1, FirstIsNothing
      <4> QED
        BY <3>1, <4>1, <4>2, <4>3 DEF HalfAt
    <3> QED
      BY <1>2, <3>1 DEF HalfAt
  <2> QED
    BY <2>1, <2>2, <2>3 DEF InStepInv
<1> QED
  BY <1>3, <1>4, <1>5, <1>6, <1>7, <1>8, <1>9, StepKeeps DEF TypesInv, InStepInv

LEMMA ReceiveDataStep ==
    ASSUME IInv, NEW c \in Clients, ReceiveData(c)
    PROVE  IInv'
<1>1. TypeOK /\ TypesInv(c) /\ InStepInv(c)
  BY DEF IInv
<1>a. /\ pc[c] = "receiving" /\ name[c] \in Names /\ saved[c][name[c]] \in Seq(Symbols)
      /\ ~broken[c] => name[c] \in DOMAIN Size[Store]
  BY <1>1 DEF ReceiveData, TypesInv, ClientAt
<1>b. /\ Head(toClient[c]) \in Symbols /\ Tail(toClient[c]) \in Seq(Symbols)
      /\ Tail(toClient[c]) \in Seq(DownSymbols)
  BY <1>1, MovedOn DEF ReceiveData, TypesInv, StreamsAt, TypeOK
<1>c. /\ Append(saved[c][name[c]], Head(toClient[c])) \in Seq(Symbols)
      /\ Append(saved[c][name[c]], Head(toClient[c])) \o Tail(toClient[c]) = saved[c][name[c]] \o toClient[c]
      /\ Len(Append(saved[c][name[c]], Head(toClient[c]))) = Len(saved[c][name[c]]) + 1
      /\ Len(saved[c][name[c]]) \in Nat
      /\ Len(Tail(toClient[c])) = Len(toClient[c]) - 1 /\ Len(toClient[c]) \in Nat \ {0}
  <2>1. toClient[c] \in Seq(Symbols) /\ toClient[c] # <<>>
    BY <1>1 DEF ReceiveData, TypeOK
  <2>2. \A s \in Seq(Symbols), y \in Symbols : /\ Append(s, y) \in Seq(Symbols)
                                               /\ Len(Append(s, y)) = Len(s) + 1 /\ Len(s) \in Nat
    OBVIOUS
  <2>3. \A s, t \in Seq(Symbols) : t # <<>> => /\ Append(s, Head(t)) \o Tail(t) = s \o t
                                               /\ Len(Tail(t)) = Len(t) - 1
                                               /\ Len(t) \in Nat \ {0}
    BY MovedOn
  <2>4. /\ Append(saved[c][name[c]], Head(toClient[c])) \in Seq(Symbols)
        /\ Len(Append(saved[c][name[c]], Head(toClient[c]))) = Len(saved[c][name[c]]) + 1
        /\ Len(saved[c][name[c]]) \in Nat
    BY <1>a, <1>b, <2>2
  <2>5. /\ Append(saved[c][name[c]], Head(toClient[c])) \o Tail(toClient[c]) = saved[c][name[c]] \o toClient[c]
        /\ Len(Tail(toClient[c])) = Len(toClient[c]) - 1 /\ Len(toClient[c]) \in Nat \ {0}
    BY <1>a, <2>1, <2>3
  <2> QED
    BY <2>4, <2>5
<1>2. /\ pc[c] = "receiving" /\ pc'[c] = "receiving"
      /\ left[c] \in Nat /\ left[c] > 0 /\ left'[c] = left[c] - 1
      /\ name[c] \in Names /\ saved[c][name[c]] \in Seq(Symbols)
      /\ toClient[c] # <<>> /\ toClient'[c] = Tail(toClient[c])
      /\ saved'[c][name[c]] = Append(saved[c][name[c]], Head(toClient[c]))
      /\ UNCHANGED <<toServer, name, srv, job, received, told, broken, commands>>
  BY <1>1, <1>a DEF TypeOK, ReceiveData, Step, server
<1>3. TypeOK'
  <2>1. toClient' \in [Clients -> Seq(Symbols)]
    BY <1>1, <1>b DEF TypeOK, ReceiveData
  <2>2. saved' \in [Clients -> [Names -> Seq(Symbols) \cup {NoFile}]]
    BY <1>1, <1>a, <1>c DEF TypeOK, ReceiveData
  <2>3. left[c] - 1 \in Nat
    BY <1>2
  <2>4. left' \in [Clients -> Nat] /\ pc' = pc
    BY <1>1, <1>2, <2>3 DEF TypeOK, ReceiveData, Step
  <2> QED
    BY <1>1, <1>2, <2>1, <2>2, <2>4 DEF TypeOK
<1>4. Others(c)
  BY <1>1 DEF TypeOK, Others, ReceiveData, Step, chan, client, server
<1>5. Written(c)
  BY <1>2, NotWritten
<1>6. StreamsAt(c)'
  BY <1>1, <1>2, <1>b DEF TypesInv, StreamsAt
<1>7. ClientAt(c)'
  BY <1>1, <1>2, <1>c DEF TypesInv, ClientAt
<1>8. ServerAt(c)'
  BY <1>1, <1>2 DEF TypesInv, ServerAt
<1>9. ASSUME ~broken'[c] PROVE InStepInv(c)'
  <2>1. ToldAt(c)'
    BY <1>1, <1>2, <1>9 DEF InStepInv, ToldAt, Ready, TypesInv, ClientAt
  <2>2. srv'[c] = "closed" \/ JointAt(c)'
    <3>1. srv[c] = "closed" \/ AtReceive(c)
      BY <1>1, <1>2, <1>9 DEF InStepInv, JointAt
    <3>2. job[c].left \in Nat
      BY <1>1 DEF TypeOK
    <3>3. AtReceive(c) => AtReceive(c)'
      <4>1. \A k, l, m : l \in Nat /\ m \in Nat /\ k = l + m => k - 1 = (l - 1) + m
        OBVIOUS
      <4>2. CASE srv[c] = "sending"
        <5>1. AtReceive(c) => left'[c] = Len(toClient'[c]) + job[c].left
          <6>1. AtReceive(c) => left[c] = Len(toClient[c]) + job[c].left
            BY <1>2, <4>2 DEF AtReceive
          <6>2. Len(toClient'[c]) = Len(toClient[c]) - 1 /\ left'[c] = left[c] - 1
            BY <1>2, <1>c
          <6> QED
            BY <1>c, <3>2, <4>1, <6>1, <6>2
        <5>2. saved'[c][name[c]] \o toClient'[c] = saved[c][name[c]] \o toClient[c]
          BY <1>2, <1>c
        <5> QED
          BY <1>2, <4>2, <5>1, <5>2 DEF AtReceive
      <4>3. CASE srv[c] # "sending"
        BY <1>2, <1>c, <4>3 DEF AtReceive
      <4> QED
        BY <4>2, <4>3
    <3> QED
      BY <1>2, <3>1, <3>3 DEF JointAt
  <2>3. HalfAt(c)'
    <3>1. Size[Store][name[c]] \in Nat
      BY <1>2, <1>9, <1>a, SizesAre, ClientsAndStore
    <3>2. /\ left[c] = Size[Store][name[c]] - Len(saved[c][name[c]])
          /\ \E n \in 0 .. Size[Store][name[c]] :
                saved[c][name[c]] \o toClient[c] = First(Store, name[c], n)
      BY <1>1, <1>2, <1>9 DEF InStepInv, HalfAt
    <3>3. left[c] - 1 = Size[Store][name[c]] - (Len(saved[c][name[c]]) + 1)
      <4>1. \A k, l, m : l \in Nat /\ m \in Nat /\ k = l - m => k - 1 = l - (m + 1)
        OBVIOUS
      <4> QED
        BY <1>c, <3>1, <3>2, <4>1
    <3> QED
      BY <1>2, <1>c, <3>2, <3>3 DEF HalfAt
  <2> QED
    BY <2>1, <2>2, <2>3 DEF InStepInv
<1> QED
  BY <1>3, <1>4, <1>5, <1>6, <1>7, <1>8, <1>9, StepKeeps DEF TypesInv, InStepInv

LEMMA ReadyHeardStep ==
    ASSUME IInv, NEW c \in Clients, ReadyHeard(c)
    PROVE  IInv'
<1>1. TypeOK /\ TypesInv(c) /\ InStepInv(c)
  BY DEF IInv
<1>a. HasLine(toClient[c]) /\ AfterLine(toClient[c]) \in Seq(DownSymbols)
      /\ AfterLine(toClient[c]) \in Seq(Symbols)
  BY <1>1, LineParts, Carried DEF ReadyHeard, TypesInv, StreamsAt, TypeOK
<1>b. name[c] \in DOMAIN Size[c] /\ Size[c][name[c]] \in Nat
  BY <1>1, SizesAre, ClientsAndStore DEF ReadyHeard, TypesInv, ClientAt
<1>2. /\ pc[c] = "uTake" /\ HasLine(toClient[c]) /\ toClient'[c] = AfterLine(toClient[c])
      /\ \/ /\ LineOf(toClient[c]) = <<Word("READY")>>
            /\ pc'[c] = "sending" /\ left'[c] = Size[c][name[c]] /\ UNCHANGED <<told, broken>>
         \/ /\ pc'[c] = "prompt" /\ left'[c] = 0 /\ told'[c] = "failed"
            /\ \/ broken'[c]
               \/ UNCHANGED broken /\ LineOf(toClient[c]) # <<Word("READY")>>
      /\ UNCHANGED <<toServer, name, srv, job, saved, received, commands>>
  BY <1>1 DEF TypeOK, ReadyHeard, Prompt, Step, chan, client, server
<1>3. TypeOK'
  <2>0. /\ toClient' = [toClient EXCEPT ![c] = AfterLine(@)]
        /\ pc' = [pc EXCEPT ![c] = "sending"] \/ pc' = [pc EXCEPT ![c] = "prompt"]
        /\ left' = [left EXCEPT ![c] = Size[c][name[c]]] \/ left' = [left EXCEPT ![c] = 0]
        /\ told' = told \/ told' = [told EXCEPT ![c] = "failed"]
        /\ broken' = broken \/ broken' = [broken EXCEPT ![c] = TRUE]
    BY DEF ReadyHeard, Prompt, Step
  <2>1. toClient' \in [Clients -> Seq(Symbols)]
    BY <1>1, <1>a, <2>0 DEF TypeOK
  <2>2. pc' \in [Clients -> {"prompt", "iWant", "receiving", "uTake", "sending", "gone"}]
    BY <1>1, <2>0 DEF TypeOK
  <2>3. left' \in [Clients -> Nat]
    <3>1. CASE left' = [left EXCEPT ![c] = Size[c][name[c]]]
      BY <1>1, <1>b, <3>1 DEF TypeOK
    <3>2. CASE left' = [left EXCEPT ![c] = 0]
      BY <1>1, <3>2, 0 \in Nat DEF TypeOK
    <3> QED
      BY <2>0, <3>1, <3>2
  <2>4. /\ told' \in [Clients -> {"nothing", "failed", "downloaded", "uploaded"}]
        /\ broken' \in [Clients -> BOOLEAN]
    BY <1>1, <2>0 DEF TypeOK
  <2> QED
    BY <1>1, <1>2, <2>1, <2>2, <2>3, <2>4 DEF TypeOK
<1>4. Others(c)
  BY <1>1 DEF TypeOK, Others, ReadyHeard, Prompt, Step, chan, client, server
<1>5. Written(c)
  BY <1>2, NotWritten
<1>6. StreamsAt(c)'
  BY <1>1, <1>2, <1>a DEF TypesInv, StreamsAt
<1>7. ClientAt(c)'
  BY <1>1, <1>2, <1>b DEF TypesInv, ClientAt
<1>8. ServerAt(c)'
  BY <1>1, <1>2 DEF TypesInv, ServerAt
<1>9. ASSUME ~broken'[c] PROVE InStepInv(c)'
  <2>1. ToldAt(c)'
    BY <1>1, <1>2 DEF ToldAt, TypesInv, ClientAt
  <2>2. srv'[c] = "closed" \/ JointAt(c)'
    <3>1. srv[c] = "closed" \/ AtTake(c)
      BY <1>1, <1>2, <1>9 DEF InStepInv, JointAt
    <3>2. CASE srv[c] = "command" /\ toServer[c] = <<>> /\ toClient[c] = Line(Word("ERROR"))
      <4>1. LineOf(toClient[c]) # <<Word("READY")>> /\ toClient'[c] = <<>>
        BY <1>2, <3>2, LinesRead, WordsDiffer
      <4>2. AtPrompt(c)'
        BY <1>2, <3>2, <4>1 DEF AtPrompt, Expects, Ready
      <4> QED
        BY <1>2, <4>1, <4>2 DEF JointAt
    <3>3. CASE /\ srv[c] = "receiving" /\ job[c].file = name[c] /\ job[c].left = job[c].total
               /\ toServer[c] = <<>> /\ toClient[c] = Line(Word("READY"))
               /\ Sole(c, name[c]) => received[name[c]] = <<>>
      <4>1. LineOf(toClient[c]) = <<Word("READY")>> /\ toClient'[c] = <<>>
        BY <1>2, <3>3, LinesRead
      <4>2. pc'[c] = "sending" /\ left'[c] = job[c].total /\ job[c].total \in Nat
        BY <1>1, <1>2, <1>9, <3>3, <4>1 DEF TypesInv, ServerAt, TypeOK
      <4>3. <<>> \o <<>> = First(c, name[c], job[c].total - job[c].total) /\ Len(<<>>) = 0
        <5>1. job[c].total - job[c].total = 0 /\ <<>> \o <<>> = <<>>
          BY <4>2
        <5> QED
          BY <5>1, FirstIsNothing
      <4>4. AtSend(c)'
        BY <1>2, <3>3, <4>1, <4>2, <4>3 DEF AtSend
      <4> QED
        BY <4>2, <4>4 DEF JointAt
    <3>4. CASE srv[c] = "command" /\ toServer[c] = <<>> /\ EmptyTaken(c)
      <4>1. LineOf(toClient[c]) = <<Word("READY")>> /\ toClient'[c] = Line(Word("SUCCESS"))
        BY <1>2, <3>4, ReadyAndSuccess DEF EmptyTaken
      <4>2. pc'[c] = "sending" /\ left'[c] = 0
        BY <1>2, <1>9, <3>4, <4>1 DEF EmptyTaken
      <4>3. AtSend(c)'
        BY <1>2, <3>4, <4>1, <4>2 DEF AtSend, EmptyTaken
      <4> QED
        BY <4>2, <4>3 DEF JointAt
    <3> QED
      BY <1>2, <3>1, <3>2, <3>3, <3>4, NoLine DEF AtTake
  <2>3. HalfAt(c)'
    <3>1. CASE pc'[c] = "sending"
      <4>1. toClient[c] = Line(Word("READY")) \/ EmptyTaken(c)
        <5>1. \/ toClient[c] = Line(Word("ERROR"))
              \/ toClient[c] = Line(Word("READY")) \/ EmptyTaken(c)
          BY <1>1, <1>2, <1>9, NoLine DEF InStepInv, HalfAt
        <5> QED
          BY <1>2, <3>1, <5>1, LinesRead, WordsDiffer
      <4>2. CASE toClient[c] = Line(Word("READY"))
        BY <1>2, <3>1, <4>2, LinesRead DEF HalfAt
      <4>3. CASE EmptyTaken(c)
        <5>1. toClient'[c] = Line(Word("SUCCESS")) /\ left'[c] = 0
          BY <1>2, <3>1, <4>3, ReadyAndSuccess DEF EmptyTaken
        <5> QED
          BY <1>2, <3>1, <4>3, <5>1 DEF HalfAt, EmptyTaken
      <4> QED
        BY <4>1, <4>2, <4>3
    <3> QED
      BY <1>2, <3>1 DEF HalfAt
  <2> QED
    BY <2>1, <2>2, <2>3 DEF InStepInv
<1> QED
  BY <1>3, <1>4, <1>5, <1>6, <1>7, <1>8, <1>9, StepKeeps DEF TypesInv, InStepInv

LEMMA SendDataStep ==
    ASSUME IInv, NEW c \in Clients, SendData(c)
    PROVE  IInv'
<1>1. TypeOK /\ TypesInv(c) /\ InStepInv(c)
  BY DEF IInv
<1> DEFINE x == Symbol(c, name[c], Size[c][name[c]] - left[c] + 1)
<1>a. /\ pc[c] = "sending" /\ name[c] \in DOMAIN Size[c] /\ Size[c][name[c]] \in Nat
      /\ left[c] \in Nat /\ left[c] <= Size[c][name[c]]
  BY <1>1, SizesAre, ClientsAndStore DEF SendData, TypesInv, ClientAt, TypeOK
<1>b. x \in UpSymbols(c) /\ x \in Symbols
  <2>1. Size[c][name[c]] - left[c] + 1 \in Nat
    BY <1>a
  <2> QED
    BY <1>a, <2>1, UpWords, Carried
<1>c. toServer[c] \o <<x>> \in Seq(UpSymbols(c)) /\ toServer[c] \o <<x>> \in Seq(Symbols)
  BY <1>1, <1>b DEF TypesInv, StreamsAt, TypeOK
<1>2. /\ pc[c] = "sending" /\ pc'[c] = "sending"
      /\ left[c] \in Nat /\ left[c] > 0 /\ left'[c] = left[c] - 1
      /\ toServer'[c] = toServer[c] \o <<x>>
      /\ UNCHANGED <<toClient, name, srv, job, saved, received, told, broken, commands>>
  BY <1>1, <1>a DEF TypeOK, SendData, Send, Step, server
<1>3. TypeOK'
  <2>1. toServer' \in [Clients -> Seq(Symbols)]
    BY <1>1, <1>c DEF TypeOK, SendData, Send
  <2>2. left[c] - 1 \in Nat
    BY <1>2
  <2>3. left' \in [Clients -> Nat] /\ pc' = pc
    BY <1>1, <1>2, <2>2 DEF TypeOK, SendData, Step
  <2> QED
    BY <1>1, <1>2, <2>1, <2>3 DEF TypeOK
<1>4. Others(c)
  BY <1>1, <1>2 DEF TypeOK, Others, SendData, Send, Step
<1>5. Written(c)
  BY <1>2, NotWritten
<1>6. StreamsAt(c)'
  BY <1>1, <1>2, <1>c DEF TypesInv, StreamsAt
<1>7. ClientAt(c)'
  BY <1>1, <1>2, <1>a DEF TypesInv, ClientAt
<1>8. ServerAt(c)'
  BY <1>1, <1>2 DEF TypesInv, ServerAt
<1>9. ASSUME ~broken'[c] PROVE InStepInv(c)'
  <2>1. ToldAt(c)'
    BY <1>1, <1>2, <1>9 DEF InStepInv, ToldAt, Ready, TypesInv, ClientAt
  <2>2. srv'[c] = "closed" \/ JointAt(c)'
    <3>1. srv[c] = "closed" \/ AtSend(c)
      BY <1>1, <1>2, <1>9 DEF InStepInv, JointAt
    <3>2. CASE /\ srv[c] = "receiving" /\ job[c].file = name[c] /\ toClient[c] = <<>>
               /\ job[c].left = Len(toServer[c]) + left[c]
               /\ Sole(c, name[c]) =>
                    received[name[c]] \o toServer[c] = First(c, name[c], job[c].total - left[c])
      <4>1. /\ job[c].total = Size[c][name[c]] /\ received[name[c]] \in Seq(Symbols)
            /\ toServer[c] \in Seq(Symbols) /\ Len(toServer[c]) \in Nat
        BY <1>1, <1>2, <1>9, <3>2 DEF TypesInv, ServerAt, TypeOK
      <4>2. Len(toServer[c] \o <<x>>) = Len(toServer[c]) + 1
        BY <4>1
      <4>3. received[name[c]] \o (toServer[c] \o <<x>>) = (received[name[c]] \o toServer[c]) \o <<x>>
        <5>1. <<x>> \in Seq(Symbols)
          BY <1>b
        <5>2. \A r, s, t \in Seq(Symbols) : r \o (s \o t) = (r \o s) \o t
          BY ConcatAssociative
        <5> HIDE DEF x
        <5> QED
          BY <4>1, <5>1, <5>2
      <4>4. First(c, name[c], job[c].total - left[c]) \o <<x>>
               = First(c, name[c], job[c].total - (left[c] - 1))
        <5>1. /\ job[c].total - left[c] \in Nat
              /\ job[c].total - (left[c] - 1) = (job[c].total - left[c]) + 1
          BY <1>a, <4>1
        <5> QED
          BY <4>1, <5>1, FirstGrows
      <4>5. job[c].left = Len(toServer'[c]) + left'[c]
        BY <1>2, <3>2, <4>1, <4>2
      <4>6. AtSend(c)'
        BY <1>2, <3>2, <4>3, <4>4, <4>5 DEF AtSend
      <4> QED
        BY <1>2, <4>6 DEF JointAt
    <3>3. left[c] # 0
      BY <1>2
    <3> QED
      BY <1>2, <3>1, <3>2, <3>3 DEF AtSend
  <2>3. HalfAt(c)'
    BY <1>1, <1>2, <1>9 DEF InStepInv, HalfAt
  <2> QED
    BY <2>1, <2>2, <2>3 DEF InStepInv
<1> QED
  BY <1>3, <1>4, <1>5, <1>6, <1>7, <1>8, <1>9, StepKeeps DEF TypesInv, InStepInv

LEMMA FinalReplyStep ==
    ASSUME IInv, NEW c \in Clients, FinalReply(c)
    PROVE  IInv'
<1>1. TypeOK /\ TypesInv(c) /\ InStepInv(c)
  BY DEF IInv
<1>a. HasLine(toClient[c]) /\ AfterLine(toClient[c]) \in Seq(DownSymbols)
      /\ AfterLine(toClient[c]) \in Seq(Symbols)
  BY <1>1, LineParts, Carried DEF FinalReply, TypesInv, StreamsAt, TypeOK
<1>2. /\ pc[c] = "sending" /\ left[c] = 0 /\ HasLine(toClient[c])
      /\ toClient'[c] = AfterLine(toClient[c])
      /\ pc'[c] = "prompt" /\ left'[c] = 0
      /\ told'[c] = IF LineOf(toClient[c]) = <<Word("SUCCESS")>> THEN "uploaded" ELSE "failed"
      /\ UNCHANGED <<toServer, name, srv, job, saved, received, broken, commands>>
  BY <1>1 DEF TypeOK, FinalReply, Prompt, chan, client, server
<1>3. TypeOK'
  BY <1>1, <1>2, <1>a, 0 \in Nat DEF TypeOK, FinalReply, Prompt, server
<1>4. Others(c)
  BY <1>1 DEF TypeOK, Others, FinalReply, Prompt, chan, client, server
<1>5. Written(c)
  BY <1>2, NotWritten
<1>6. StreamsAt(c)'
  BY <1>1, <1>2, <1>a DEF TypesInv, StreamsAt
<1>7. ClientAt(c)'
  BY <1>1, <1>2 DEF TypesInv, ClientAt
<1>8. ServerAt(c)'
  BY <1>1, <1>2 DEF TypesInv, ServerAt
<1>9. ASSUME ~broken'[c] PROVE InStepInv(c)'
  <2>1. ToldAt(c)'
    <3>1. Sole(c, name[c]) => received[name[c]] = Data(c, name[c])
      BY <1>1, <1>2, <1>9, NoLine DEF InStepInv, HalfAt
    <3>2. name[c] \in DOMAIN Size[c]
      BY <1>1, <1>2 DEF TypesInv, ClientAt
    <3>3. srv[c] = "closed" \/ AtSend(c)
      BY <1>1, <1>2, <1>9 DEF InStepInv, JointAt
    <3>4. srv[c] = "closed" \/ (Ready(c) /\ toServer[c] = <<>>)
      BY <1>2, <3>3, NoLine DEF AtSend, Ready
    <3> QED
      BY <1>2, <3>1, <3>2, <3>4 DEF ToldAt, Ready
  <2>2. srv'[c] = "closed" \/ JointAt(c)'
    <3>1. srv[c] = "closed" \/ AtSend(c)
      BY <1>1, <1>2, <1>9 DEF InStepInv, JointAt
    <3>2. AtSend(c) => AtPrompt(c)'
      BY <1>2, NoLine, LinesRead DEF AtSend, AtPrompt, Expects, Ready
    <3> QED
      BY <1>2, <3>1, <3>2 DEF JointAt
  <2>3. HalfAt(c)'
    BY <1>1, <1>2, <1>9 DEF InStepInv, HalfAt, EmptyTaken, TypesInv, ClientAt
  <2> QED
    BY <2>1, <2>2, <2>3 DEF InStepInv
<1> QED
  BY <1>3, <1>4, <1>5, <1>6, <1>7, <1>8, <1>9, StepKeeps DEF TypesInv, InStepInv

(* What is common to the handling of every request of k symbols. *)
Reads(c, k) ==
    /\ srv[c] = "command"
    /\ toServer' = [toServer EXCEPT ![c] = SubSeq(@, k + 1, Len(@))]
    /\ broken' = [broken EXCEPT ![c] = @ \/ Garbled(SubSeq(toServer[c], 1, k))]
    /\ UNCHANGED client

(* A request that is one line is the command that the client waits for. *)
LEMMA RequestRead ==
    ASSUME IInv, NEW c \in Clients, NEW k \in Arrived(c), Reads(c, k)
    PROVE  LET r == SubSeq(toServer[c], 1, k)
           IN  /\ r[1] \in UpSymbols(c) /\ r[1] \in Symbols
               /\ toServer'[c] \in Seq(UpSymbols(c)) /\ toServer'[c] \in Seq(Symbols)
               /\ broken'[c] \in BOOLEAN
               /\ ~broken'[c] =>
                    /\ r[1].kind = "UTAKE" => ~Misread(r[1].file)
                    /\ ~broken[c] /\ r = Line(r[1]) /\ told[c] # "uploaded"
                    /\ \/ pc[c] = "gone"
                       \/ /\ pc[c] = "iWant" /\ r[1] = Symbol("IWANT", name[c], 0)
                          /\ toServer'[c] = <<>> /\ toClient[c] = <<>>
                       \/ /\ pc[c] = "uTake" /\ r[1] = Symbol("UTAKE", name[c], Size[c][name[c]])
                          /\ toServer'[c] = <<>> /\ toClient[c] = <<>>
<1> DEFINE s == toServer[c]
           r == SubSeq(s, 1, k)
<1>1. TypeOK /\ TypesInv(c) /\ InStepInv(c)
  BY DEF IInv
<1>2. s \in Seq(UpSymbols(c)) /\ k \in 1 .. Len(s) /\ Len(s) \in Nat /\ s # <<>>
  BY <1>1 DEF TypesInv, StreamsAt, Arrived
<1>3. r[1] = s[1] /\ s[1] \in UpSymbols(c) /\ SubSeq(s, k + 1, Len(s)) \in Seq(UpSymbols(c)) /\ Len(r) = k
  BY <1>2
<1>4. toServer'[c] = SubSeq(s, k + 1, Len(s))
  BY <1>1 DEF Reads, TypeOK
<1>5. /\ broken'[c] \in BOOLEAN
      /\ ~broken'[c] => /\ ~broken[c] /\ r = Line(r[1])
                        /\ r[1].kind = "UTAKE" => ~Misread(r[1].file)
  <2>1. broken'[c] = (broken[c] \/ Garbled(r))
    BY <1>1 DEF Reads, TypeOK
  <2>2. broken[c] \in BOOLEAN /\ Garbled(r) \in BOOLEAN
    BY <1>1 DEF TypeOK, Garbled
  <2>3. ~Garbled(r) => r = Line(r[1]) /\ (r[1].kind = "UTAKE" => ~Misread(r[1].file))
    BY DEF Garbled
  <2> HIDE DEF r
  <2> QED
    BY <2>1, <2>2, <2>3
<1>6. toServer'[c] \in Seq(Symbols)
  BY <1>1, <1>2, <1>4 DEF TypeOK
<1>7. \A x : s = Line(x) /\ r = Line(r[1]) => r[1] = x /\ toServer'[c] = <<>>
  <2> SUFFICES ASSUME NEW x, s = Line(x), r = Line(r[1]) PROVE r[1] = x /\ toServer'[c] = <<>>
    OBVIOUS
  <2>1. Len(s) = 2 /\ s[1] = x /\ Len(r) = 2
    <3> HIDE DEF r, s
    <3> QED
      BY DEF Line
  <2>2. Len(SubSeq(s, k + 1, Len(s))) = 0
    BY <1>2, <1>3, <2>1
  <2> QED
    BY <1>3, <1>4, <2>1, <2>2, EmptySeq
<1>8. ASSUME ~broken'[c]
      PROVE  /\ told[c] # "uploaded"
             /\ \/ pc[c] = "gone"
                \/ /\ pc[c] = "iWant" /\ r[1] = Symbol("IWANT", name[c], 0)
                   /\ toServer'[c] = <<>> /\ toClient[c] = <<>>
                \/ /\ pc[c] = "uTake" /\ r[1] = Symbol("UTAKE", name[c], Size[c][name[c]])
                   /\ toServer'[c] = <<>> /\ toClient[c] = <<>>
  <2> HIDE DEF r
  <2>1. srv[c] = "command" /\ r = Line(r[1]) /\ ToldAt(c) /\ JointAt(c)
    BY <1>1, <1>5, <1>8 DEF InStepInv, Reads
  <2>2. told[c] # "uploaded"
    BY <1>2, <2>1 DEF ToldAt
  <2>3. pc[c] # "prompt"
    BY <1>2, <2>1 DEF JointAt, AtPrompt, Expects
  <2>4. pc[c] # "receiving"
    BY <1>2, <2>1 DEF JointAt, AtReceive
  <2>5. pc[c] # "sending"
    BY <1>2, <2>1 DEF JointAt, AtSend
  <2>6. pc[c] = "iWant" => s = Line(Symbol("IWANT", name[c], 0)) /\ toClient[c] = <<>>
    BY <1>2, <2>1 DEF JointAt, AtWant, Expects
  <2>7. pc[c] = "uTake" => s = Line(Symbol("UTAKE", name[c], Size[c][name[c]])) /\ toClient[c] = <<>>
    BY <1>2, <2>1 DEF JointAt, AtTake, Expects
  <2>8. pc[c] \in {"prompt", "iWant", "receiving", "uTake", "sending", "gone"}
    BY <1>1 DEF TypeOK
  <2> QED
    BY <1>7, <2>1, <2>2, <2>3, <2>4, <2>5, <2>6, <2>7, <2>8
<1> QED
  BY <1>3, <1>4, <1>5, <1>6, <1>8, Carried

(* The client is answered. *)
LEMMA Answered ==
    ASSUME NEW c \in Clients, TypeOK, StreamsAt(c), NEW x \in DownSymbols
    PROVE  /\ toClient[c] \o Line(x) \in Seq(Symbols) /\ toClient[c] \o Line(x) \in Seq(DownSymbols)
           /\ toClient[c] = <<>> => toClient[c] \o Line(x) = Line(x)
<1>1. /\ x \in Symbols /\ NewLine \in Symbols /\ NewLine \in DownSymbols
      /\ toClient[c] \in Seq(Symbols) /\ toClient[c] \in Seq(DownSymbols)
  BY DownWords, Carried DEF TypeOK, StreamsAt
<1> QED
  BY <1>1, LineType

LEMMA JobTypes ==
    ASSUME NEW f \in Names \cup {NoName}, NEW n \in Nat
    PROVE  [file |-> f, left |-> n, total |-> n] \in [file : Names \cup {NoName}, left : Nat, total : Nat]
OBVIOUS

LEMMA WantsFileStep ==
    ASSUME IInv, NEW c \in Clients, NEW k \in Arrived(c), Reads(c, k), WantsFile(c, SubSeq(toServer[c], 1, k))
    PROVE  IInv'
<1>1. TypeOK /\ TypesInv(c) /\ InStepInv(c)
  BY DEF IInv
<1> DEFINE r == SubSeq(toServer[c], 1, k)
<1>a. /\ r[1] \in UpSymbols(c) /\ r[1] \in Symbols
      /\ toServer'[c] \in Seq(UpSymbols(c)) /\ toServer'[c] \in Seq(Symbols)
      /\ broken'[c] \in BOOLEAN
      /\ ~broken'[c] =>
           /\ ~broken[c] /\ r = Line(r[1]) /\ told[c] # "uploaded"
           /\ \/ pc[c] = "gone"
              \/ /\ pc[c] = "iWant" /\ r[1] = Symbol("IWANT", name[c], 0)
                 /\ toServer'[c] = <<>> /\ toClient[c] = <<>>
              \/ /\ pc[c] = "uTake" /\ r[1] = Symbol("UTAKE", name[c], Size[c][name[c]])
                 /\ toServer'[c] = <<>> /\ toClient[c] = <<>>
  BY RequestRead
<1>b. r[1].file \in DOMAIN Size[Store] => Size[Store][r[1].file] \in Nat /\ r[1].file \in Names
  BY SizesAre, ClientsAndStore
<1>c. /\ Word("ERROR") \in DownSymbols
      /\ r[1].file \in DOMAIN Size[Store] => Symbol("FILE", r[1].file, Size[Store][r[1].file]) \in DownSymbols
  BY DownWords
<1> HIDE DEF r
<1>2. /\ srv[c] = "command" /\ r[1].kind = "IWANT"
      /\ \/ /\ r = Line(r[1]) /\ r[1].file \in DOMAIN Size[Store]
            /\ toClient'[c] = toClient[c] \o Line(Symbol("FILE", r[1].file, Size[Store][r[1].file]))
            /\ srv'[c] = "ready?"
            /\ job'[c] = [file |-> r[1].file, left |-> Size[Store][r[1].file], total |-> Size[Store][r[1].file]]
         \/ /\ ~(r = Line(r[1]) /\ r[1].file \in DOMAIN Size[Store])
            /\ toClient'[c] = toClient[c] \o Line(Word("ERROR"))
            /\ srv'[c] = "command" /\ job'[c] = [file |-> NoName, left |-> 0, total |-> 0]
      /\ UNCHANGED <<pc, name, left, saved, received, told, commands>>
  BY <1>1 DEF TypeOK, Reads, WantsFile, Reply, Send, Serve, client, r
<1>3. TypeOK'
    <2>1. toServer' \in [Clients -> Seq(Symbols)] /\ broken' \in [Clients -> BOOLEAN]
    BY <1>1, <1>a DEF TypeOK, Reads
  <2>2. toClient'[c] \in Seq(Symbols)
    BY <1>1, <1>2, <1>c, Answered DEF TypesInv
  <2>3. toClient' \in [Clients -> Seq(Symbols)]
    BY <1>1, <2>2 DEF TypeOK, WantsFile, Reply, Send
  <2>4. job'[c] \in [file : Names \cup {NoName}, left : Nat, total : Nat]
    <3>1. [file |-> NoName, left |-> 0, total |-> 0] \in [file : Names \cup {NoName}, left : Nat, total : Nat]
      BY JobTypes, 0 \in Nat
    <3>2. r[1].file \in DOMAIN Size[Store] =>
            [file |-> r[1].file, left |-> Size[Store][r[1].file], total |-> Size[Store][r[1].file]]
               \in [file : Names \cup {NoName}, left : Nat, total : Nat]
      BY <1>b, JobTypes
    <3> QED
      BY <1>2, <3>1, <3>2
  <2>5. /\ job' \in [Clients -> [file : Names \cup {NoName}, left : Nat, total : Nat]]
        /\ srv' \in [Clients -> {"command", "ready?", "sending", "receiving", "closed"}]
    BY <1>1, <2>4 DEF TypeOK, WantsFile, Serve
  <2> QED
    BY <1>1, <1>2, <2>1, <2>3, <2>5 DEF TypeOK
<1>4. Others(c)
  <2>1. \A d \in Clients \ {c} : toServer'[d] = toServer[d] /\ broken'[d] = broken[d]
    BY <1>1 DEF TypeOK, Reads
  <2>2. \A d \in Clients \ {c} : toClient'[d] = toClient[d] /\ srv'[d] = srv[d] /\ job'[d] = job[d]
    BY <1>1 DEF TypeOK, WantsFile, Reply, Send, Serve
  <2> QED
    BY <1>2, <2>1, <2>2 DEF Others
<1>5. Written(c)
  BY <1>2, NotWritten
<1>6. StreamsAt(c)'
  <2>1. toClient'[c] \in Seq(DownSymbols)
    BY <1>1, <1>2, <1>c, Answered DEF TypesInv
  <2> QED
    BY <1>a, <2>1 DEF StreamsAt
<1>7. ClientAt(c)'
  BY <1>1, <1>2, <1>a DEF TypesInv, ClientAt
<1>8. ServerAt(c)'
  <2>1. CASE srv'[c] = "command"
    BY <1>2, <2>1 DEF ServerAt
  <2>2. CASE srv'[c] = "ready?"
    BY <1>2, <1>b, <2>2 DEF ServerAt
  <2> QED
    BY <1>2, <2>1, <2>2
<1>9. ASSUME ~broken'[c] PROVE InStepInv(c)'
  <2>1. ToldAt(c)'
    BY <1>1, <1>2, <1>9, <1>a DEF InStepInv, ToldAt
  <2>2. srv'[c] = "closed" \/ JointAt(c)'
    <3>1. CASE pc[c] = "gone"
      BY <1>2, <3>1 DEF JointAt
    <3>2. CASE /\ pc[c] = "iWant" /\ r[1] = Symbol("IWANT", name[c], 0)
               /\ toServer'[c] = <<>> /\ toClient[c] = <<>>
      <4>1. r[1].file = name[c]
        BY <3>2, Texts
      <4>2. /\ Line(Word("ERROR")) \in Seq(DownSymbols) /\ <<>> \o Line(Word("ERROR")) = Line(Word("ERROR"))
            /\ \A x \in DownSymbols : <<>> \o Line(x) = Line(x)
        BY DownWords, <<>> \in Seq(DownSymbols), LineType
      <4>3. AtWant(c)'
        BY <1>2, <3>2, <4>1, <4>2, DownWords DEF AtWant
      <4> QED
        BY <1>2, <3>2, <4>3 DEF JointAt
    <3>3. CASE pc[c] = "uTake" /\ r[1] = Symbol("UTAKE", name[c], Size[c][name[c]])
      <4>1. r[1].kind # "IWANT"
        BY <3>3 DEF Symbol
      <4> QED
        BY <1>2, <4>1
    <3> QED
      BY <1>9, <1>a, <3>1, <3>2, <3>3
  <2>3. HalfAt(c)'
    <3>1. CASE pc[c] = "gone"
      BY <1>2, <3>1 DEF HalfAt
    <3>2. CASE pc[c] = "iWant"
      <4>1. AtWant(c)'
        BY <2>2, <1>2, <3>2 DEF JointAt
      <4> QED
        BY <1>2, <3>2, <4>1 DEF AtWant, HalfAt
    <3>3. CASE pc[c] = "uTake" /\ r[1] = Symbol("UTAKE", name[c], Size[c][name[c]])
      <4>1. r[1].kind # "IWANT"
        BY <3>3 DEF Symbol
      <4> QED
        BY <1>2, <4>1
    <3> QED
      BY <1>9, <1>a, <3>1, <3>2, <3>3
  <2> QED
    BY <2>1, <2>2, <2>3 DEF InStepInv
<1> QED
  BY <1>3, <1>4, <1>5, <1>6, <1>7, <1>8, <1>9, StepKeeps DEF TypesInv, InStepInv

LEMMA TakesFileStep ==
    ASSUME IInv, NEW c \in Clients, NEW k \in Arrived(c), Reads(c, k), TakesFile(c, SubSeq(toServer[c], 1, k))
    PROVE  IInv'
<1>1. TypeOK /\ TypesInv(c) /\ InStepInv(c)
  BY DEF IInv
<1> DEFINE r == SubSeq(toServer[c], 1, k)
<1>a. /\ r[1] \in UpSymbols(c) /\ r[1] \in Symbols
      /\ toServer'[c] \in Seq(UpSymbols(c)) /\ toServer'[c] \in Seq(Symbols)
      /\ broken'[c] \in BOOLEAN
      /\ ~broken'[c] =>
           /\ r[1].kind = "UTAKE" => ~Misread(r[1].file)
           /\ ~broken[c] /\ r = Line(r[1]) /\ told[c] # "uploaded"
           /\ \/ pc[c] = "gone"
              \/ /\ pc[c] = "iWant" /\ r[1] = Symbol("IWANT", name[c], 0)
                 /\ toServer'[c] = <<>> /\ toClient[c] = <<>>
              \/ /\ pc[c] = "uTake" /\ r[1] = Symbol("UTAKE", name[c], Size[c][name[c]])
                 /\ toServer'[c] = <<>> /\ toClient[c] = <<>>
  BY RequestRead
<1> HIDE DEF r
<1>b. r[1].kind = "UTAKE" => /\ r[1].file \in DOMAIN Size[c] /\ r[1].n = Size[c][r[1].file]
                           /\ r[1].n \in Nat /\ r[1].file \in Names
  BY <1>a, SizesAre, ClientsAndStore DEF UpSymbols
<1>f. r[1].kind = "UTAKE" =>
        /\ FileIn(r[1].file) \in Stored(c) /\ FileIn(r[1].file) \in Names
        /\ SizeIn(r[1]) \in Int
        /\ ~broken'[c] => FileIn(r[1].file) = r[1].file /\ SizeIn(r[1]) = r[1].n
  <2>1. ASSUME r[1].kind = "UTAKE"
        PROVE  FileIn(r[1].file) \in Stored(c) /\ FileIn(r[1].file) \in Names
    BY <1>b, <2>1, NamesRead DEF Stored
  <2>2. ASSUME r[1].kind = "UTAKE"
        PROVE  SizeIn(r[1]) \in Int
    <3>1. r[1].n \in Nat /\ r[1].file \in Names
      BY <1>b, <2>2
    <3>2. Misread(r[1].file) => Spaced[r[1].file].n \in Int
      BY <3>1, NamesRead
    <3>3. r[1].n \in Int
      BY <3>1
    <3> QED
      BY <3>2, <3>3 DEF SizeIn
  <2>3. ASSUME r[1].kind = "UTAKE", ~broken'[c]
        PROVE  FileIn(r[1].file) = r[1].file /\ SizeIn(r[1]) = r[1].n
    BY <1>a, <2>3 DEF FileIn, SizeIn
  <2> QED
    BY <2>1, <2>2, <2>3
<1>c. Word("ERROR") \in DownSymbols /\ Word("READY") \in DownSymbols
  BY DownWords
<1>2. /\ srv[c] = "command" /\ r[1].kind = "UTAKE"
      /\ \/ /\ received' = [received EXCEPT ![FileIn(r[1].file)] = <<>>] /\ SizeIn(r[1]) >= 0
            /\ toClient'[c] = toClient[c] \o Line(Word("READY"))
            /\ srv'[c] = "receiving"
            /\ job'[c] = [file |-> FileIn(r[1].file), left |-> SizeIn(r[1]), total |-> SizeIn(r[1])]
         \/ /\ UNCHANGED received
            /\ toClient'[c] = toClient[c] \o Line(Word("ERROR"))
            /\ srv'[c] = "command" /\ job'[c] = [file |-> NoName, left |-> 0, total |-> 0]
      /\ UNCHANGED <<pc, name, left, saved, told, commands>>
  BY <1>1 DEF TypeOK, Reads, TakesFile, Reply, Send, Serve, client, r
<1>3. TypeOK'
    <2>1. toServer' \in [Clients -> Seq(Symbols)] /\ broken' \in [Clients -> BOOLEAN]
    BY <1>1, <1>a DEF TypeOK, Reads
  <2>2. toClient'[c] \in Seq(Symbols)
    BY <1>1, <1>2, <1>c, Answered DEF TypesInv
  <2>3. toClient' \in [Clients -> Seq(Symbols)]
    BY <1>1, <2>2 DEF TypeOK, TakesFile, Reply, Send
  <2>4. job'[c] \in [file : Names \cup {NoName}, left : Nat, total : Nat]
    <3>1. SizeIn(r[1]) >= 0 => SizeIn(r[1]) \in Nat
      BY <1>2, <1>f
    <3> QED
      BY <1>2, <1>f, <3>1, JobTypes, 0 \in Nat
  <2>5. /\ job' \in [Clients -> [file : Names \cup {NoName}, left : Nat, total : Nat]]
        /\ srv' \in [Clients -> {"command", "ready?", "sending", "receiving", "closed"}]
    BY <1>1, <2>4 DEF TypeOK, TakesFile, Serve
  <2>6. received' \in [Names -> Seq(Symbols) \cup {NoFile}]
    BY <1>1, <1>2, <1>f, <<>> \in Seq(Symbols) DEF TypeOK
  <2> QED
    BY <1>1, <1>2, <2>1, <2>3, <2>5, <2>6 DEF TypeOK
<1>4. Others(c)
  <2>1. \A d \in Clients \ {c} : toServer'[d] = toServer[d] /\ broken'[d] = broken[d]
    BY <1>1 DEF TypeOK, Reads
  <2>2. \A d \in Clients \ {c} : toClient'[d] = toClient[d] /\ srv'[d] = srv[d] /\ job'[d] = job[d]
    BY <1>1 DEF TypeOK, TakesFile, Reply, Send, Serve
  <2> QED
    BY <1>2, <2>1, <2>2 DEF Others
<1>5. Written(c)
  BY <1>1, <1>2, <1>f, <<>> \in Seq(Symbols) DEF Written, TypeOK
<1>6. StreamsAt(c)'
  <2>1. toClient'[c] \in Seq(DownSymbols)
    BY <1>1, <1>2, <1>c, Answered DEF TypesInv
  <2> QED
    BY <1>a, <2>1 DEF StreamsAt
<1>7. ClientAt(c)'
  BY <1>1, <1>2, <1>a DEF TypesInv, ClientAt
<1>8. ServerAt(c)'
  <2>1. CASE srv'[c] = "command"
    BY <1>2, <2>1 DEF ServerAt
  <2>2. CASE srv'[c] = "receiving"
    <3>1. received'[FileIn(r[1].file)] = <<>> /\ <<>> \in Seq(Symbols)
      BY <1>1, <1>2, <1>f, <2>2 DEF TypeOK
    <3>2. /\ job'[c].file = FileIn(r[1].file) /\ job'[c].left = SizeIn(r[1])
          /\ job'[c].total = SizeIn(r[1]) /\ SizeIn(r[1]) \in Int
          /\ FileIn(r[1].file) \in Stored(c)
          /\ ~broken'[c] => /\ FileIn(r[1].file) \in DOMAIN Size[c]
                            /\ SizeIn(r[1]) = Size[c][FileIn(r[1].file)]
      BY <1>2, <1>b, <1>f, <2>2
    <3>3. received'[job'[c].file] \in Seq(Symbols)
      BY <3>1, <3>2
    <3>4. job'[c].left <= job'[c].total
      BY <3>2
    <3> QED
      BY <2>2, <3>2, <3>3, <3>4 DEF ServerAt
  <2> QED
    BY <1>2, <2>1, <2>2
<1>9. ASSUME ~broken'[c] PROVE InStepInv(c)'
  <2>1. ToldAt(c)'
    BY <1>1, <1>2, <1>9, <1>a DEF InStepInv, ToldAt
  <2>2. srv'[c] = "closed" \/ JointAt(c)'
    <3>1. CASE pc[c] = "gone"
      BY <1>2, <3>1 DEF JointAt
    <3>2. CASE /\ pc[c] = "uTake" /\ r[1] = Symbol("UTAKE", name[c], Size[c][name[c]])
               /\ toServer'[c] = <<>> /\ toClient[c] = <<>>
      <4>1. r[1].file = name[c] /\ name[c] \in Names
        BY <1>2, <1>b, <3>2, Texts
      <4>2. \A x \in DownSymbols : <<>> \o Line(x) = Line(x)
        BY DownWords, <<>> \in Seq(DownSymbols), LineType
      <4>3. srv'[c] = "receiving" =>
              received'[name[c]] = <<>> /\ job'[c].left = job'[c].total /\ job'[c].file = name[c]
        BY <1>1, <1>2, <1>9, <1>f, <4>1 DEF TypeOK
      <4>4. AtTake(c)'
        BY <1>2, <3>2, <4>1, <4>2, <4>3, DownWords DEF AtTake
      <4> QED
        BY <1>2, <3>2, <4>4 DEF JointAt
    <3>3. CASE pc[c] = "iWant" /\ r[1] = Symbol("IWANT", name[c], 0)
      <4>1. r[1].kind # "UTAKE"
        BY <3>3 DEF Symbol
      <4> QED
        BY <1>2, <4>1
    <3> QED
      BY <1>9, <1>a, <3>1, <3>2, <3>3
  <2>3. HalfAt(c)'
    <3>1. CASE pc[c] = "gone"
      BY <1>2, <3>1 DEF HalfAt
    <3>2. CASE pc[c] = "uTake" /\ toClient[c] = <<>>
      <4>1. toClient'[c] \in {Line(Word("READY")), Line(Word("ERROR"))}
        BY <1>2, <3>2, DownWords, <<>> \in Seq(DownSymbols), LineType
      <4> QED
        BY <1>2, <3>2, <4>1 DEF HalfAt
    <3>3. CASE pc[c] = "iWant" /\ r[1] = Symbol("IWANT", name[c], 0)
      <4>1. r[1].kind # "UTAKE"
        BY <3>3 DEF Symbol
      <4> QED
        BY <1>2, <4>1
    <3> QED
      BY <1>9, <1>a, <3>1, <3>2, <3>3
  <2> QED
    BY <2>1, <2>2, <2>3 DEF InStepInv
<1> QED
  BY <1>3, <1>4, <1>5, <1>6, <1>7, <1>8, <1>9, StepKeeps DEF TypesInv, InStepInv

LEMMA NoCommandStep ==
    ASSUME IInv, NEW c \in Clients, NEW k \in Arrived(c), Reads(c, k), NoCommand(c, SubSeq(toServer[c], 1, k))
    PROVE  IInv'
<1>1. TypeOK /\ TypesInv(c) /\ InStepInv(c)
  BY DEF IInv
<1> DEFINE r == SubSeq(toServer[c], 1, k)
<1>a. /\ r[1] \in UpSymbols(c) /\ r[1] \in Symbols
      /\ toServer'[c] \in Seq(UpSymbols(c)) /\ toServer'[c] \in Seq(Symbols)
      /\ broken'[c] \in BOOLEAN
      /\ ~broken'[c] =>
           /\ ~broken[c] /\ r = Line(r[1]) /\ told[c] # "uploaded"
           /\ \/ pc[c] = "gone"
              \/ /\ pc[c] = "iWant" /\ r[1] = Symbol("IWANT", name[c], 0)
                 /\ toServer'[c] = <<>> /\ toClient[c] = <<>>
              \/ /\ pc[c] = "uTake" /\ r[1] = Symbol("UTAKE", name[c], Size[c][name[c]])
                 /\ toServer'[c] = <<>> /\ toClient[c] = <<>>
  BY RequestRead
<1> HIDE DEF r
<1>2. /\ srv[c] = "command" /\ r[1].kind \notin {"IWANT", "UTAKE"}
      /\ UNCHANGED <<toClient, pc, name, left, srv, job, saved, received, told, commands>>
  BY DEF Reads, NoCommand, client, r
<1>3. TypeOK'
    <2>1. toServer' \in [Clients -> Seq(Symbols)] /\ broken' \in [Clients -> BOOLEAN]
    BY <1>1, <1>a DEF TypeOK, Reads
  <2> QED
    BY <1>1, <1>2, <2>1 DEF TypeOK
<1>4. Others(c)
  BY <1>1, <1>2 DEF TypeOK, Others, Reads
<1>5. Written(c)
  BY <1>2, NotWritten
<1>6. StreamsAt(c)'
  BY <1>1, <1>2, <1>a DEF TypesInv, StreamsAt
<1>7. ClientAt(c)'
  BY <1>1, <1>2, <1>a DEF TypesInv, ClientAt
<1>8. ServerAt(c)'
  BY <1>1, <1>2 DEF TypesInv, ServerAt
<1>9. ASSUME ~broken'[c] PROVE InStepInv(c)'
  <2>1. ToldAt(c)'
    BY <1>1, <1>2, <1>9, <1>a DEF InStepInv, ToldAt
  <2>2. srv'[c] = "closed" \/ JointAt(c)'
    <3>1. pc[c] = "gone"
      BY <1>2, <1>9, <1>a, Texts
    <3> QED
      BY <1>2, <3>1 DEF JointAt
  <2>3. HalfAt(c)'
    <3>1. pc[c] = "gone"
      BY <1>2, <1>9, <1>a, Texts
    <3> QED
      BY <1>2, <3>1 DEF HalfAt
  <2> QED
    BY <2>1, <2>2, <2>3 DEF InStepInv
<1> QED
  BY <1>3, <1>4, <1>5, <1>6, <1>7, <1>8, <1>9, StepKeeps DEF TypesInv, InStepInv

LEMMA RequestStep ==
    ASSUME IInv, NEW c \in Clients, Request(c)
    PROVE  IInv'
<1>1. PICK k \in Arrived(c) :
        /\ Reads(c, k)
        /\ \/ WantsFile(c, SubSeq(toServer[c], 1, k))
           \/ TakesFile(c, SubSeq(toServer[c], 1, k))
           \/ NoCommand(c, SubSeq(toServer[c], 1, k))
  BY DEF Request, Reads
<1> QED
  BY <1>1, WantsFileStep, TakesFileStep, NoCommandStep

LEMMA ReadyOrNotStep ==
    ASSUME IInv, NEW c \in Clients, ReadyOrNot(c)
    PROVE  IInv'
<1>1. TypeOK /\ TypesInv(c) /\ InStepInv(c)
  BY DEF IInv
<1>a. /\ HasLine(toServer[c]) /\ AfterLine(toServer[c]) \in Seq(UpSymbols(c))
      /\ AfterLine(toServer[c]) \in Seq(Symbols)
  BY <1>1, LineParts DEF ReadyOrNot, TypesInv, StreamsAt, TypeOK
<1>b. /\ toClient[c] \o Line(Word("ERROR")) \in Seq(Symbols)
      /\ toClient[c] \o Line(Word("ERROR")) \in Seq(DownSymbols)
  BY <1>1, DownWords, Answered DEF TypesInv
<1>2. /\ srv[c] = "ready?" /\ HasLine(toServer[c]) /\ toServer'[c] = AfterLine(toServer[c])
      /\ \/ /\ LineOf(toServer[c]) = <<Word("READY")>> /\ srv'[c] = "sending"
            /\ UNCHANGED <<job, toClient, broken>>
         \/ /\ broken'[c] \/ LineOf(toServer[c]) # <<Word("READY")>>
            /\ broken'[c] \in BOOLEAN /\ (~broken'[c] => ~broken[c])
            /\ toClient'[c] \in {toClient[c], toClient[c] \o Line(Word("ERROR"))}
            /\ ~broken'[c] => toClient'[c] = toClient[c]
            /\ srv'[c] = "command" /\ job'[c] = [file |-> NoName, left |-> 0, total |-> 0]
      /\ UNCHANGED <<pc, name, left, saved, received, told, commands>>
  BY <1>1 DEF TypeOK, ReadyOrNot, Serve, Reply, Send, client
<1>3. TypeOK'
  <2>1. toServer' \in [Clients -> Seq(Symbols)]
    BY <1>1, <1>a DEF TypeOK, ReadyOrNot
  <2>2. toClient' = toClient \/ toClient' = [toClient EXCEPT ![c] = @ \o Line(Word("ERROR"))]
    BY DEF ReadyOrNot, Reply, Send
  <2>3. toClient' \in [Clients -> Seq(Symbols)]
    BY <1>1, <1>b, <2>2 DEF TypeOK
  <2>4. [file |-> NoName, left |-> 0, total |-> 0] \in [file : Names \cup {NoName}, left : Nat, total : Nat]
    BY JobTypes, 0 \in Nat
  <2>5. /\ job' \in [Clients -> [file : Names \cup {NoName}, left : Nat, total : Nat]]
        /\ srv' \in [Clients -> {"command", "ready?", "sending", "receiving", "closed"}]
        /\ broken' \in [Clients -> BOOLEAN]
    <3>1. \/ job' = job /\ srv' = [srv EXCEPT ![c] = "sending"]
          \/ /\ job' = [job EXCEPT ![c] = [file |-> NoName, left |-> 0, total |-> 0]]
             /\ srv' = [srv EXCEPT ![c] = "command"]
      BY DEF ReadyOrNot, Serve
    <3>2. broken' = broken \/ broken' = [broken EXCEPT ![c] = TRUE]
      BY DEF ReadyOrNot
    <3>3. job' \in [Clients -> [file : Names \cup {NoName}, left : Nat, total : Nat]]
      BY <1>1, <2>4, <3>1 DEF TypeOK
    <3> QED
      BY <1>1, <3>1, <3>2, <3>3 DEF TypeOK
  <2> QED
    BY <1>1, <1>2, <2>1, <2>3, <2>5 DEF TypeOK
<1>4. Others(c)
  BY <1>1 DEF TypeOK, Others, ReadyOrNot, Serve, Reply, Send, chan, client, server
<1>5. Written(c)
  BY <1>2, NotWritten
<1>6. StreamsAt(c)'
  BY <1>1, <1>2, <1>a, <1>b DEF TypesInv, StreamsAt
<1>7. ClientAt(c)'
  BY <1>1, <1>2 DEF TypesInv, ClientAt
<1>8. ServerAt(c)'
  <2>1. CASE srv'[c] = "command"
    BY <1>2, <2>1 DEF ServerAt
  <2>2. CASE srv'[c] = "sending"
    BY <1>1, <1>2, <2>2 DEF TypesInv, ServerAt
  <2> QED
    BY <1>2, <2>1, <2>2
<1>9. ASSUME ~broken'[c] PROVE InStepInv(c)'
  <2>1. ToldAt(c)'
    <3>1. told[c] # "uploaded"
      BY <1>1, <1>2, <1>9 DEF InStepInv, ToldAt, Ready
    <3> QED
      BY <1>1, <1>2, <1>9, <3>1 DEF InStepInv, ToldAt
  <2>2. srv'[c] = "closed" \/ JointAt(c)'
    <3>1. ~broken[c] /\ JointAt(c) /\ job[c].left = job[c].total
      BY <1>1, <1>2, <1>9 DEF InStepInv, TypesInv, ServerAt
    <3>2. pc[c] \in {"prompt", "iWant", "receiving", "uTake", "sending", "gone"}
      BY <1>1 DEF TypeOK
    <3>3. ASSUME NEW s \in Seq(UpSymbols(c)), Expects(c, s)
          PROVE  srv'[c] = "sending" /\ job'[c].left = 0 /\ toServer'[c] = s
      <4>1. job[c].total = 0 /\ toServer[c] = Line(Word("READY")) \o s
        BY <1>2, <3>3 DEF Expects, Ready
      <4>2. LineOf(toServer[c]) = <<Word("READY")>> /\ toServer'[c] = s
        BY <1>2, <4>1, TwoLines
      <4>3. srv'[c] = "sending" /\ job'[c].left = 0
        BY <1>2, <1>9, <3>1, <4>1, <4>2
      <4> QED
        BY <4>2, <4>3
    <3>4. CASE pc[c] = "prompt"
      <4>1. <<>> \in Seq(UpSymbols(c)) /\ AtPrompt(c)
        BY <3>1, <3>4 DEF JointAt
      <4>2. Expects(c, <<>>)'
        BY <3>3, <4>1 DEF AtPrompt, Expects, Ready
      <4>3. Expects(c, <<>>) /\ toClient[c] = <<>>
        BY <4>1 DEF AtPrompt
      <4> QED
        BY <1>2, <1>9, <3>4, <4>2, <4>3 DEF AtPrompt, JointAt
    <3>5. CASE pc[c] = "iWant"
      <4>1. Line(Symbol("IWANT", name[c], 0)) \in Seq(UpSymbols(c))
        BY <1>1, UpWords, LineType, <<>> \in Seq(UpSymbols(c)) DEF TypeOK
      <4>2. Expects(c, Line(Symbol("IWANT", name[c], 0))) /\ toClient[c] = <<>>
        BY <1>2, <3>1, <3>5, NoLine DEF JointAt, AtWant
      <4>3. Expects(c, Line(Symbol("IWANT", name[c], 0)))'
        BY <1>1, <1>2, <3>3, <4>1, <4>2 DEF Expects, Ready, TypeOK
      <4> QED
        BY <1>2, <1>9, <3>5, <4>2, <4>3 DEF AtWant, JointAt
    <3>6. CASE pc[c] = "receiving"
      <4>1. /\ job[c].file = name[c] /\ toServer[c] = Line(Word("READY")) /\ toClient[c] = <<>>
            /\ left[c] = job[c].total /\ saved[c][name[c]] = <<>>
        BY <1>2, <3>1, <3>6 DEF JointAt, AtReceive
      <4>2. LineOf(toServer[c]) = <<Word("READY")>> /\ toServer'[c] = <<>>
        BY <1>2, <4>1, LinesRead
      <4>3. srv'[c] = "sending" /\ job' = job /\ toClient'[c] = <<>>
        BY <1>2, <1>9, <4>1, <4>2
      <4>4. /\ <<>> \o <<>> = First(Store, name[c], job[c].total - job[c].left)
            /\ job[c].total = Len(<<>>) + job[c].left
        <5>1. job[c].total - job[c].left = 0 /\ job[c].total = 0 + job[c].left /\ Len(<<>>) = 0
          BY <1>1, <3>1 DEF TypeOK
        <5>2. First(Store, name[c], 0) = <<>> /\ <<>> \o <<>> = <<>>
          BY FirstIsNothing
        <5> QED
          BY <5>1, <5>2
      <4>5. AtReceive(c)'
        BY <1>2, <4>1, <4>2, <4>3, <4>4 DEF AtReceive
      <4> QED
        BY <1>2, <3>6, <4>5 DEF JointAt
    <3>7. CASE pc[c] = "uTake"
      <4>1. Line(Symbol("UTAKE", name[c], Size[c][name[c]])) \in Seq(UpSymbols(c))
        BY <1>1, <3>7, UpWords, LineType, <<>> \in Seq(UpSymbols(c)) DEF TypesInv, ClientAt
      <4>2. Expects(c, Line(Symbol("UTAKE", name[c], Size[c][name[c]]))) /\ toClient[c] = <<>>
        BY <1>2, <3>1, <3>7, NoLine DEF JointAt, AtTake
      <4>3. Expects(c, Line(Symbol("UTAKE", name[c], Size[c][name[c]])))'
        BY <1>1, <1>2, <3>3, <4>1, <4>2 DEF Expects, Ready, TypeOK
      <4> QED
        BY <1>2, <1>9, <3>7, <4>2, <4>3 DEF AtTake, JointAt
    <3>8. CASE pc[c] = "sending"
      BY <1>2, <3>1, <3>8 DEF JointAt, AtSend
    <3>9. CASE pc[c] = "gone"
      BY <1>2, <3>9 DEF JointAt
    <3> QED
      BY <3>2, <3>4, <3>5, <3>6, <3>7, <3>8, <3>9
  <2>3. HalfAt(c)'
    BY <1>1, <1>2, <1>9 DEF InStepInv, HalfAt, EmptyTaken, TypesInv, ClientAt
  <2> QED
    BY <2>1, <2>2, <2>3 DEF InStepInv
<1> QED
  BY <1>3, <1>4, <1>5, <1>6, <1>7, <1>8, <1>9, StepKeeps DEF TypesInv, InStepInv

LEMMA ServeDataStep ==
    ASSUME IInv, NEW c \in Clients, ServeData(c)
    PROVE  IInv'
<1>1. TypeOK /\ TypesInv(c) /\ InStepInv(c)
  BY DEF IInv
<1> DEFINE n == job[c].total - job[c].left
           x == Symbol(Store, job[c].file, n + 1)
<1>a. /\ srv[c] = "sending" /\ job[c].left > 0 /\ job[c].left <= job[c].total
      /\ job[c].file \in DOMAIN Size[Store] /\ job[c].total = Size[Store][job[c].file]
      /\ job[c].left \in Nat /\ job[c].total \in Nat
  BY <1>1 DEF ServeData, TypesInv, ServerAt, TypeOK
<1>b. n \in Nat /\ n + 1 \in 1 .. Size[Store][job[c].file] /\ job[c].left - 1 \in Nat
  BY <1>a
<1>c. x = Data(Store, job[c].file)[n + 1] /\ x \in DownSymbols /\ x \in Symbols
  <2>1. n + 1 \in Nat
    BY <1>b
  <2>2. x \in DownSymbols
    BY <1>a, <2>1, DownWords
  <2> QED
    BY <1>b, <2>2, Carried DEF Data
<1>d. toClient[c] \o <<x>> \in Seq(DownSymbols) /\ toClient[c] \o <<x>> \in Seq(Symbols)
  BY <1>1, <1>c DEF TypesInv, StreamsAt, TypeOK
<1>e. toClient' = [toClient EXCEPT ![c] = @ \o <<x>>]
  BY <1>c DEF ServeData, Send
<1> HIDE DEF x
<1>2. /\ srv[c] = "sending" /\ srv'[c] = "sending" /\ job[c].left > 0
      /\ toClient'[c] = toClient[c] \o <<x>>
      /\ job'[c] = [job[c] EXCEPT !.left = job[c].left - 1]
      /\ UNCHANGED <<toServer, pc, name, left, srv, saved, received, told, broken, commands>>
  BY <1>1, <1>a, <1>e DEF TypeOK, ServeData, client
<1>3. TypeOK'
  <2>1. toClient' \in [Clients -> Seq(Symbols)]
    BY <1>1, <1>d, <1>e DEF TypeOK
  <2>2. job' \in [Clients -> [file : Names \cup {NoName}, left : Nat, total : Nat]]
    BY <1>1, <1>b DEF TypeOK, ServeData
  <2> QED
    BY <1>1, <1>2, <2>1, <2>2 DEF TypeOK
<1>4. Others(c)
  BY <1>1, <1>2, <1>e DEF TypeOK, Others, ServeData
<1>5. Written(c)
  BY <1>2, NotWritten
<1>6. StreamsAt(c)'
  BY <1>1, <1>2, <1>d DEF TypesInv, StreamsAt
<1>7. ClientAt(c)'
  BY <1>1, <1>2 DEF TypesInv, ClientAt
<1>8. ServerAt(c)'
  BY <1>1, <1>2, <1>a, <1>b DEF TypesInv, ServerAt, TypeOK
<1>9. ASSUME ~broken'[c] PROVE InStepInv(c)'
  <2>1. ToldAt(c)'
    <3>1. told[c] # "uploaded"
      BY <1>1, <1>2, <1>9 DEF InStepInv, ToldAt, Ready
    <3> QED
      BY <1>1, <1>2, <1>9, <3>1 DEF InStepInv, ToldAt
  <2>2. srv'[c] = "closed" \/ JointAt(c)'
    <3>1. JointAt(c) /\ ~Ready(c) /\ pc[c] \in {"prompt", "iWant", "receiving", "uTake", "sending", "gone"}
      BY <1>1, <1>2, <1>9 DEF InStepInv, Ready, TypeOK
    <3>2. pc[c] \in {"receiving", "gone"}
      BY <1>2, <3>1 DEF JointAt, AtPrompt, AtWant, AtTake, AtSend, Expects
    <3>3. CASE pc[c] = "receiving"
      <4>1. /\ job[c].file = name[c] /\ toServer[c] = <<>>
            /\ left[c] = Len(toClient[c]) + job[c].left
            /\ saved[c][name[c]] \o toClient[c] = First(Store, name[c], n)
        BY <1>2, <3>1, <3>3 DEF JointAt, AtReceive
      <4>2. saved[c][name[c]] \in Seq(Symbols) /\ toClient[c] \in Seq(Symbols)
        BY <1>1, <3>3 DEF TypesInv, ClientAt, TypeOK
      <4>3. saved[c][name[c]] \o (toClient[c] \o <<x>>) = (saved[c][name[c]] \o toClient[c]) \o <<x>>
        <5>1. <<x>> \in Seq(Symbols)
          BY <1>c
        <5>2. \A r, s, t \in Seq(Symbols) : r \o (s \o t) = (r \o s) \o t
          BY ConcatAssociative
        <5> QED
          BY <4>2, <5>1, <5>2
      <4>4. First(Store, name[c], n) \o <<x>> = First(Store, name[c], n + 1)
        BY <1>b, <4>1, FirstGrows DEF x
      <4>5. Len(toClient[c] \o <<x>>) = Len(toClient[c]) + 1 /\ Len(toClient[c]) \in Nat
        BY <4>2
      <4>6. n + 1 = job[c].total - (job[c].left - 1) /\ left[c] = (Len(toClient[c]) + 1) + (job[c].left - 1)
        <5>1. \A t, l \in Nat : (t - l) + 1 = t - (l - 1)
          OBVIOUS
        <5>2. \A k, l \in Nat : k + l = (k + 1) + (l - 1)
          OBVIOUS
        <5> QED
          BY <1>a, <4>1, <4>5, <5>1, <5>2
      <4>7. job'[c].left = job[c].left - 1 /\ job'[c].total = job[c].total /\ job'[c].file = job[c].file
        BY <1>1, <1>2 DEF TypeOK
      <4>8. saved[c][name[c]] \o toClient'[c] = First(Store, name[c], job'[c].total - job'[c].left)
        BY <1>2, <4>1, <4>3, <4>4, <4>6, <4>7
      <4>9. left[c] = Len(toClient'[c]) + job'[c].left
        BY <1>2, <4>5, <4>6, <4>7
      <4>10. AtReceive(c)'
        BY <1>2, <4>1, <4>7, <4>8, <4>9 DEF AtReceive
      <4> QED
        BY <1>2, <3>3, <4>10 DEF JointAt
    <3>4. CASE pc[c] = "gone"
      BY <1>2, <3>4 DEF JointAt
    <3> QED
      BY <3>2, <3>3, <3>4
  <2>3. HalfAt(c)'
    <3>1. JointAt(c) /\ ~Ready(c) /\ pc[c] \in {"prompt", "iWant", "receiving", "uTake", "sending", "gone"}
      BY <1>1, <1>2, <1>9 DEF InStepInv, Ready, TypeOK
    <3>2. pc[c] \in {"receiving", "gone"}
      BY <1>2, <3>1 DEF JointAt, AtPrompt, AtWant, AtTake, AtSend, Expects
    <3>3. CASE pc[c] = "receiving"
      <4>1. AtReceive(c)'
        BY <2>2, <1>2, <3>3 DEF JointAt
      <4>2. /\ job'[c].total - job'[c].left \in 0 .. Size[Store][name[c]]
            /\ saved[c][name[c]] \o toClient'[c] = First(Store, name[c], job'[c].total - job'[c].left)
        <5>1. job'[c].file = name[c] /\ saved[c][name[c]] \o toClient'[c] = First(Store, name[c], job'[c].total - job'[c].left)
          BY <1>2, <4>1 DEF AtReceive
        <5>2. job'[c].left = job[c].left - 1 /\ job'[c].total = job[c].total /\ job'[c].file = job[c].file
          BY <1>1, <1>2 DEF TypeOK
        <5>3. \A t, l \in Nat : l > 0 /\ l <= t => t - (l - 1) \in 0 .. t
          OBVIOUS
        <5>4. job[c].total - (job[c].left - 1) \in 0 .. job[c].total
          BY <1>a, <5>3
        <5>5. job[c].total = Size[Store][name[c]]
          BY <1>a, <5>1, <5>2
        <5> QED
          BY <5>1, <5>2, <5>4, <5>5
      <4>3. left[c] = Size[Store][name[c]] - Len(saved[c][name[c]])
        BY <1>1, <1>2, <1>9, <3>3 DEF InStepInv, HalfAt
      <4> QED
        BY <1>2, <3>3, <4>2, <4>3 DEF HalfAt
    <3>4. CASE pc[c] = "gone"
      BY <1>2, <3>4 DEF HalfAt
    <3> QED
      BY <3>2, <3>3, <3>4
  <2> QED
    BY <2>1, <2>2, <2>3 DEF InStepInv
<1> QED
  BY <1>3, <1>4, <1>5, <1>6, <1>7, <1>8, <1>9, StepKeeps DEF TypesInv, InStepInv

LEMMA TakeDataStep ==
    ASSUME IInv, NEW c \in Clients, TakeData(c)
    PROVE  IInv'
<1>1. TypeOK /\ TypesInv(c) /\ InStepInv(c)
  BY DEF IInv
<1> DEFINE n == job[c].total - job[c].left
           w == WriteAt(received[job[c].file], n + 1, Head(toServer[c]))
<1>a. /\ srv[c] = "receiving" /\ job[c].left > 0 /\ job[c].left <= job[c].total
      /\ job[c].file \in Stored(c)
      /\ ~broken[c] => job[c].file \in DOMAIN Size[c] /\ job[c].total = Size[c][job[c].file]
      /\ job[c].left \in Nat /\ job[c].total \in Nat
      /\ received[job[c].file] \in Seq(Symbols) /\ job[c].file \in Names
  BY <1>1, NamesRead DEF TakeData, TypesInv, ServerAt, TypeOK
<1>b. n \in Nat /\ n + 1 \in Nat \ {0} /\ job[c].left - 1 \in Nat
  BY <1>a
<1>c. /\ toServer[c] \in Seq(Symbols) /\ toServer[c] # <<>>
      /\ Head(toServer[c]) \in Symbols /\ Tail(toServer[c]) \in Seq(Symbols)
      /\ Tail(toServer[c]) \in Seq(UpSymbols(c))
      /\ Len(Tail(toServer[c])) = Len(toServer[c]) - 1 /\ Len(toServer[c]) \in Nat \ {0}
  BY <1>1, MovedOn DEF TakeData, TypesInv, StreamsAt, TypeOK
<1>d. w \in Seq(Symbols)
  BY <1>a, <1>b, <1>c, WriteType
<1>e. received' = [received EXCEPT ![job[c].file] = w]
  BY DEF TakeData
<1> HIDE DEF w
<1>2. /\ srv[c] = "receiving" /\ srv'[c] = "receiving"
      /\ toServer'[c] = Tail(toServer[c])
      /\ job'[c] = [job[c] EXCEPT !.left = job[c].left - 1]
      /\ received' = [received EXCEPT ![job[c].file] = w]
      /\ UNCHANGED <<toClient, pc, name, left, srv, saved, told, broken, commands>>
  BY <1>1, <1>a, <1>e DEF TypeOK, TakeData, client
<1>3. TypeOK'
  <2>1. toServer' \in [Clients -> Seq(Symbols)]
    BY <1>1, <1>c DEF TypeOK, TakeData
  <2>2. job' \in [Clients -> [file : Names \cup {NoName}, left : Nat, total : Nat]]
    BY <1>1, <1>b DEF TypeOK, TakeData
  <2>3. received' \in [Names -> Seq(Symbols) \cup {NoFile}]
    BY <1>1, <1>d, <1>e DEF TypeOK
  <2> QED
    BY <1>1, <1>2, <2>1, <2>2, <2>3 DEF TypeOK
<1>4. Others(c)
  BY <1>1, <1>2 DEF TypeOK, Others, TakeData
<1>5. Written(c)
  BY <1>1, <1>a, <1>d, <1>e DEF Written, TypeOK
<1>6. StreamsAt(c)'
  BY <1>1, <1>2, <1>c DEF TypesInv, StreamsAt
<1>7. ClientAt(c)'
  BY <1>1, <1>2 DEF TypesInv, ClientAt
<1>8. ServerAt(c)'
  <2>1. job'[c].left = job[c].left - 1 /\ job'[c].total = job[c].total /\ job'[c].file = job[c].file
    BY <1>1, <1>2 DEF TypeOK
  <2>2. received'[job'[c].file] \in Seq(Symbols)
    BY <1>1, <1>a, <1>d, <1>e, <2>1 DEF TypeOK
  <2>3. job'[c].left <= job'[c].total
    BY <1>a, <2>1
  <2> QED
    BY <1>2, <1>a, <2>1, <2>2, <2>3 DEF ServerAt
<1>9. ASSUME ~broken'[c] PROVE InStepInv(c)'
  <2>1. ToldAt(c)'
    <3>1. told[c] # "uploaded"
      BY <1>1, <1>2, <1>9 DEF InStepInv, ToldAt, Ready
    <3> QED
      BY <1>1, <1>2, <1>9, <3>1 DEF InStepInv, ToldAt
  <2>2. srv'[c] = "closed" \/ JointAt(c)'
    <3>1. JointAt(c) /\ ~Ready(c) /\ pc[c] \in {"prompt", "iWant", "receiving", "uTake", "sending", "gone"}
      BY <1>1, <1>2, <1>9 DEF InStepInv, Ready, TypeOK
    <3>2. pc[c] \in {"sending", "gone"}
      BY <1>2, <1>c, <3>1 DEF JointAt, AtPrompt, AtWant, AtTake, AtReceive, Expects
    <3>3. CASE pc[c] = "sending"
      <4>1. /\ job[c].file = name[c] /\ toClient[c] = <<>>
            /\ job[c].left = Len(toServer[c]) + left[c]
            /\ Sole(c, name[c]) =>
                 received[name[c]] \o toServer[c] = First(c, name[c], job[c].total - left[c])
        BY <1>2, <3>1, <3>3 DEF JointAt, AtSend
      <4>2. job'[c].left = job[c].left - 1 /\ job'[c].total = job[c].total /\ job'[c].file = job[c].file
        BY <1>1, <1>2 DEF TypeOK
      <4>3. left[c] \in Nat
        BY <1>1 DEF TypeOK
      <4>4. job'[c].left = Len(toServer'[c]) + left[c]
        <5>1. \A t, l \in Nat : (t + l) - 1 = (t - 1) + l
          OBVIOUS
        <5> QED
          BY <1>2, <1>c, <4>1, <4>2, <4>3, <5>1
      <4>5. ASSUME Sole(c, name[c])
            PROVE  received'[name[c]] \o toServer'[c] = First(c, name[c], job[c].total - left[c])
        <5>1. Len(received[name[c]]) + Len(toServer[c]) = job[c].total - left[c]
              /\ Len(received[name[c]]) \in Nat
          <6>1. received[name[c]] \in Seq(Symbols)
            BY <1>a, <4>1
          <6>2. Len(received[name[c]] \o toServer[c]) = Len(received[name[c]]) + Len(toServer[c])
                /\ Len(received[name[c]]) \in Nat
            BY <1>c, <6>1
          <6>3. job[c].total - left[c] \in Nat
            BY <1>a, <1>c, <4>1, <4>3
          <6>4. Len(First(c, name[c], job[c].total - left[c])) = job[c].total - left[c]
            BY <6>3, FirstGrows
          <6> QED
            BY <4>1, <4>5, <6>2, <6>4
        <5>2. n = Len(received[name[c]])
          <6>1. \A t, l, k, m \in Nat : k + m = t - l => t - (m + l) = k
            OBVIOUS
          <6> QED
            <7>1. /\ job[c].total \in Nat /\ left[c] \in Nat
                  /\ Len(received[name[c]]) \in Nat /\ Len(toServer[c]) \in Nat
              BY <1>a, <1>c, <4>3, <5>1
            <7>2. job[c].total - (Len(toServer[c]) + left[c]) = Len(received[name[c]])
              BY <5>1, <6>1, <7>1
            <7> QED
              BY <4>1, <7>2
        <5>3. received'[name[c]] = Append(received[name[c]], Head(toServer[c]))
          <6>1. received'[name[c]] = w
            BY <1>1, <1>a, <1>e, <4>1 DEF TypeOK
          <6>2. w = WriteAt(received[name[c]], Len(received[name[c]]) + 1, Head(toServer[c]))
            BY <4>1, <5>2 DEF w
          <6> QED
            BY <1>a, <1>c, <4>1, <6>1, <6>2, WriteAtEnd
        <5>4. Append(received[name[c]], Head(toServer[c])) \o Tail(toServer[c])
                 = received[name[c]] \o toServer[c]
          <6>1. \A s, t \in Seq(Symbols) : t # <<>> => Append(s, Head(t)) \o Tail(t) = s \o t
            BY MovedOn
          <6>2. received[name[c]] \in Seq(Symbols)
            BY <1>a, <4>1
          <6> QED
            BY <1>c, <6>1, <6>2
        <5> QED
          BY <1>2, <4>1, <4>5, <5>3, <5>4
      <4>6. AtSend(c)'
        BY <1>2, <4>1, <4>2, <4>4, <4>5 DEF AtSend, Sole
      <4> QED
        BY <1>2, <3>3, <4>6 DEF JointAt
    <3>4. CASE pc[c] = "gone"
      BY <1>2, <3>4 DEF JointAt
    <3> QED
      BY <3>2, <3>3, <3>4
  <2>3. HalfAt(c)'
    <3>1. JointAt(c) /\ ~Ready(c) /\ pc[c] \in {"prompt", "iWant", "receiving", "uTake", "sending", "gone"}
      BY <1>1, <1>2, <1>9 DEF InStepInv, Ready, TypeOK
    <3>2. pc[c] \in {"sending", "gone"} /\ (pc[c] = "sending" => toClient[c] = <<>>)
      BY <1>2, <1>c, <3>1 DEF JointAt, AtPrompt, AtWant, AtTake, AtReceive, AtSend, Expects
    <3> QED
      BY <1>2, <3>2 DEF HalfAt
  <2> QED
    BY <2>1, <2>2, <2>3 DEF InStepInv
<1> QED
  BY <1>3, <1>4, <1>5, <1>6, <1>7, <1>8, <1>9, StepKeeps DEF TypesInv, InStepInv

LEMMA TakenStep ==
    ASSUME IInv, NEW c \in Clients, Taken(c)
    PROVE  IInv'
<1>1. TypeOK /\ TypesInv(c) /\ InStepInv(c)
  BY DEF IInv
<1>a. /\ toClient[c] \o Line(Word("SUCCESS")) \in Seq(Symbols)
      /\ toClient[c] \o Line(Word("SUCCESS")) \in Seq(DownSymbols)
      /\ toClient[c] = <<>> => toClient[c] \o Line(Word("SUCCESS")) = Line(Word("SUCCESS"))
  BY <1>1, DownWords, Answered DEF TypesInv
<1>2. /\ srv[c] = "receiving" /\ job[c].left = 0 /\ srv'[c] = "command"
      /\ job'[c] = [file |-> NoName, left |-> 0, total |-> 0]
      /\ toClient'[c] = toClient[c] \o Line(Word("SUCCESS"))
      /\ UNCHANGED <<toServer, pc, name, left, saved, received, told, broken, commands>>
  BY <1>1 DEF TypeOK, Taken, Serve, Reply, Send, chan, client, server
<1>3. TypeOK'
  <2>1. toClient' \in [Clients -> Seq(Symbols)]
    BY <1>1, <1>a DEF TypeOK, Taken, Reply, Send
  <2>2. [file |-> NoName, left |-> 0, total |-> 0] \in [file : Names \cup {NoName}, left : Nat, total : Nat]
    BY JobTypes, 0 \in Nat
  <2>3. /\ job' \in [Clients -> [file : Names \cup {NoName}, left : Nat, total : Nat]]
        /\ srv' \in [Clients -> {"command", "ready?", "sending", "receiving", "closed"}]
    BY <1>1, <2>2 DEF TypeOK, Taken, Serve
  <2> QED
    BY <1>1, <1>2, <2>1, <2>3 DEF TypeOK
<1>4. Others(c)
  BY <1>1 DEF TypeOK, Others, Taken, Serve, Reply, Send, chan, client, server
<1>5. Written(c)
  BY <1>2, NotWritten
<1>6. StreamsAt(c)'
  BY <1>1, <1>2, <1>a DEF TypesInv, StreamsAt
<1>7. ClientAt(c)'
  BY <1>1, <1>2 DEF TypesInv, ClientAt
<1>8. ServerAt(c)'
  BY <1>1, <1>2 DEF TypesInv, ServerAt
<1>9. ASSUME ~broken'[c] PROVE InStepInv(c)'
  <2>1. ToldAt(c)'
    <3>1. told[c] # "uploaded"
      BY <1>1, <1>2, <1>9 DEF InStepInv, ToldAt, Ready
    <3> QED
      BY <1>1, <1>2, <1>9, <3>1 DEF InStepInv, ToldAt
  <2>2. srv'[c] = "closed" \/ JointAt(c)'
    <3>1. JointAt(c) /\ ~Ready(c) /\ pc[c] \in {"prompt", "iWant", "receiving", "uTake", "sending", "gone"}
      BY <1>1, <1>2, <1>9 DEF InStepInv, Ready, TypeOK
    <3>2. pc[c] \in {"uTake", "sending", "gone"}
      BY <1>2, <3>1 DEF JointAt, AtPrompt, AtWant, AtReceive, Expects
    <3>3. CASE pc[c] = "uTake"
      <4>1. /\ job[c].file = name[c] /\ job[c].left = job[c].total
            /\ toServer[c] = <<>> /\ toClient[c] = Line(Word("READY"))
            /\ Sole(c, name[c]) => received[name[c]] = <<>>
        BY <1>2, <3>1, <3>3 DEF JointAt, AtTake, Expects
      <4>2. Size[c][name[c]] = 0
        BY <1>1, <1>2, <1>9, <4>1 DEF TypesInv, ServerAt
      <4>3. Data(c, name[c]) = <<>>
        BY <4>2, FirstIsData, FirstIsNothing
      <4>4. AtTake(c)'
        BY <1>2, <4>1, <4>2, <4>3 DEF AtTake, EmptyTaken, Sole
      <4> QED
        BY <1>2, <3>3, <4>4 DEF JointAt
    <3>4. CASE pc[c] = "sending"
      <4>1. /\ job[c].file = name[c] /\ toClient[c] = <<>>
            /\ job[c].left = Len(toServer[c]) + left[c]
            /\ Sole(c, name[c]) =>
                 received[name[c]] \o toServer[c] = First(c, name[c], job[c].total - left[c])
        BY <1>2, <3>1, <3>4 DEF JointAt, AtSend
      <4>2. /\ job[c].total = Size[c][name[c]] /\ received[name[c]] \in Seq(Symbols)
            /\ toServer[c] \in Seq(Symbols) /\ Len(toServer[c]) \in Nat /\ left[c] \in Nat
            /\ job[c].total \in Nat
        BY <1>1, <1>2, <1>9, <4>1 DEF TypesInv, ServerAt, TypeOK
      <4>3. toServer[c] = <<>> /\ left[c] = 0
        BY <1>2, <4>1, <4>2, EmptySeq
      <4>4. Sole(c, name[c]) => received[name[c]] = Data(c, name[c])
        <5>1. received[name[c]] \o <<>> = received[name[c]] /\ job[c].total - 0 = Size[c][name[c]]
          BY <4>2, ConcatEmptySeq
        <5> QED
          BY <4>1, <4>3, <5>1, FirstIsData
      <4>5. AtSend(c)'
        BY <1>2, <1>a, <4>1, <4>3, <4>4 DEF AtSend, Sole
      <4> QED
        BY <1>2, <3>4, <4>5 DEF JointAt
    <3>5. CASE pc[c] = "gone"
      BY <1>2, <3>5 DEF JointAt
    <3> QED
      BY <3>2, <3>3, <3>4, <3>5
  <2>3. HalfAt(c)'
    <3>1. JointAt(c)' /\ pc[c] \in {"prompt", "iWant", "receiving", "uTake", "sending", "gone"}
          /\ JointAt(c) /\ ~Ready(c)
      BY <2>2, <1>1, <1>2, <1>9 DEF InStepInv, Ready, TypeOK
    <3>2. pc[c] \in {"uTake", "sending", "gone"}
      BY <1>2, <3>1 DEF JointAt, AtPrompt, AtWant, AtReceive, Expects
    <3>3. CASE pc[c] = "uTake"
      <4>1. AtTake(c)' /\ AtTake(c)
        BY <1>2, <3>1, <3>3 DEF JointAt
      <4>2. toClient[c] = Line(Word("READY"))
        BY <1>2, <4>1 DEF AtTake, Expects, Ready
      <4>3. toClient'[c] # <<>>
        <5>1. \A s \in Seq(DownSymbols) : s \o Line(Word("SUCCESS")) # <<>>
          BY DownWords DEF Line
        <5> QED
          BY <1>1, <1>2, <5>1 DEF TypesInv, StreamsAt
      <4>4. EmptyTaken(c)' \/ toClient'[c] = Line(Word("ERROR"))
        BY <1>2, <4>1, <4>3 DEF AtTake
      <4> QED
        BY <1>2, <3>3, <4>4 DEF HalfAt
    <3>4. CASE pc[c] = "sending"
      <4>1. AtSend(c)'
        BY <1>2, <3>1, <3>4 DEF JointAt
      <4> QED
        BY <1>2, <3>4, <4>1 DEF AtSend, HalfAt
    <3>5. CASE pc[c] = "gone"
      BY <1>2, <3>5 DEF HalfAt
    <3> QED
      BY <3>2, <3>3, <3>4, <3>5
  <2> QED
    BY <2>1, <2>2, <2>3 DEF InStepInv
<1> QED
  BY <1>3, <1>4, <1>5, <1>6, <1>7, <1>8, <1>9, StepKeeps DEF TypesInv, InStepInv

(* With the server's process, every thread ends: what the clients rely on stays. *)
LEMMA ServerDiesStep ==
    ASSUME IInv, ServerDies
    PROVE  IInv'
<1>1. /\ TypeOK /\ UNCHANGED <<chan, received, client, broken>>
      /\ srv' = [d \in Clients |-> "closed"]
      /\ job' = [d \in Clients |-> [file |-> NoName, left |-> 0, total |-> 0]]
  BY DEF IInv, ServerDies
<1>2. TypeOK'
  <2>1. [file |-> NoName, left |-> 0, total |-> 0] \in [file : Names \cup {NoName}, left : Nat, total : Nat]
    BY JobTypes, 0 \in Nat
  <2>2. /\ job' \in [Clients -> [file : Names \cup {NoName}, left : Nat, total : Nat]]
        /\ srv' \in [Clients -> {"command", "ready?", "sending", "receiving", "closed"}]
    BY <1>1, <2>1
  <2> QED
    BY <1>1, <2>2 DEF TypeOK, chan, client
<1>3. ASSUME NEW c \in Clients PROVE TypesInv(c)' /\ InStepInv(c)'
  <2>1. TypesInv(c) /\ InStepInv(c)
    BY DEF IInv
  <2>2. srv'[c] = "closed" /\ job'[c].left = 0 /\ job'[c].total = 0
    BY <1>1
  <2>3. StreamsAt(c)' /\ ClientAt(c)'
    BY <1>1, <2>1 DEF TypesInv, StreamsAt, ClientAt, chan, client
  <2>4. ServerAt(c)'
    BY <2>2 DEF ServerAt
  <2>5. ToldAt(c) => ToldAt(c)'
    BY <1>1, <2>2 DEF ToldAt, client
  <2>6. HalfAt(c) => HalfAt(c)'
    BY <1>1 DEF HalfAt, EmptyTaken, chan, client
  <2> QED
    BY <1>1, <2>1, <2>2, <2>3, <2>4, <2>5, <2>6 DEF TypesInv, InStepInv
<1> QED
  BY <1>2, <1>3 DEF IInv

LEMMA Unmoved ==
    ASSUME IInv, UNCHANGED vars
    PROVE  IInv'
<1>1. TypeOK' /\ received' = received
  BY DEF IInv, TypeOK, vars, chan, client, server
<1>2. ASSUME NEW c \in Clients PROVE TypesInv(c)' /\ InStepInv(c)'
  <2>1. TypesInv(c) /\ InStepInv(c)
    BY DEF IInv
  <2>2. TypesInv(c)'
    BY <2>1 DEF TypesInv, StreamsAt, ClientAt, ServerAt, vars, chan, client, server
  <2>3. ToldAt(c) = ToldAt(c)' /\ HalfAt(c) = HalfAt(c)'
    BY DEF ToldAt, HalfAt, EmptyTaken, Ready, vars, chan, client, server
  <2>4. /\ AtPrompt(c) = AtPrompt(c)' /\ AtWant(c) = AtWant(c)' /\ AtTake(c) = AtTake(c)'
        /\ AtReceive(c) = AtReceive(c)' /\ AtSend(c) = AtSend(c)'
    BY DEF AtPrompt, AtWant, AtReceive, AtTake, AtSend, EmptyTaken, Expects, Ready,
           vars, chan, client, server
  <2>5. JointAt(c) => JointAt(c)'
    BY <2>4 DEF JointAt, vars, client
  <2> QED
    BY <2>1, <2>2, <2>3, <2>5 DEF InStepInv, vars, server
<1> QED
  BY <1>1, <1>2 DEF IInv

LEMMA InitIInv == Init => IInv
<1> SUFFICES ASSUME Init PROVE IInv
  OBVIOUS
<1>1. TypeOK
  BY TransferAssumption, <<>> \in Seq(Symbols), 0 \in Nat DEF Init, TypeOK
<1>2. ASSUME NEW c \in Clients PROVE TypesInv(c) /\ InStepInv(c)
  <2>1. /\ toServer[c] = <<>> /\ toClient[c] = <<>> /\ pc[c] = "prompt" /\ srv[c] = "command"
        /\ job[c].left = 0 /\ job[c].total = 0 /\ told[c] = "nothing"
    BY DEF Init
  <2>2. StreamsAt(c)
    BY <2>1, <<>> \in Seq(UpSymbols(c)), <<>> \in Seq(DownSymbols) DEF StreamsAt
  <2>3. ClientAt(c) /\ ServerAt(c)
    BY <2>1 DEF ClientAt, ServerAt
  <2>4. ToldAt(c) /\ HalfAt(c) /\ JointAt(c)
    BY <2>1 DEF ToldAt, HalfAt, JointAt, AtPrompt, Expects, Ready
  <2> QED
    BY <2>2, <2>3, <2>4 DEF TypesInv, InStepInv
<1> QED
  BY <1>1, <1>2 DEF IInv

LEMMA NextIInv == IInv /\ [Next]_vars => IInv'
<1> SUFFICES ASSUME IInv, [Next]_vars PROVE IInv'
  OBVIOUS
<1>1. ASSUME NEW c \in Clients, UserStep(c) PROVE IInv'
  BY <1>1, IWantStep, UTakeStep, CommandInVainStep, LeaveStep DEF UserStep
<1>2. ASSUME NEW c \in Clients, ClientStep(c) PROVE IInv'
  BY <1>2, FileHeaderStep, ReceiveDataStep, DownloadedStep, ReadyHeardStep, SendDataStep,
     FinalReplyStep, DisconnectedStep DEF ClientStep
<1>3. ASSUME NEW c \in Clients, ServerStep(c) PROVE IInv'
  BY <1>3, RequestStep, ReadyOrNotStep, ServeDataStep, ServedStep, TakeDataStep, TakenStep,
     ServerSeesEndStep DEF ServerStep
<1>4. CASE ServerDies
  BY <1>4, ServerDiesStep
<1>5. CASE UNCHANGED vars
  BY <1>5, Unmoved
<1> QED
  BY <1>1, <1>2, <1>3, <1>4, <1>5 DEF Next, Quiet

-----------------------------------------------------------------------------
(* Theorems *)

LEMMA Invariant == Spec => []IInv
BY InitIInv, NextIInv, PTL DEF Spec

(* TypeOK: streams and files hold nothing but symbols, and every thread and every
   client is in one of the states of its loop. *)
THEOREM TransferTypes == Spec => []TypeOK
<1>1. IInv => TypeOK
  BY DEF IInv
<1> QED
  BY <1>1, Invariant, PTL

(* InStep: whatever the clients, the files and the failures, the two ends of a
   connection agree on whose turn it is and on what is under way, as long as
   neither has returned silently from the middle of a transfer. *)
THEOREM EndsInStep == Spec => []InStep
<1>1. IInv => InStep
  <2> SUFFICES ASSUME IInv, NEW c \in Clients, ~broken[c], srv[c] # "closed"
               PROVE  InStepAt(c)
    BY DEF InStep
  <2>1. JointAt(c) /\ TypesInv(c) /\ TypeOK
    BY DEF IInv, InStepInv
  <2>2. pc[c] \in {"prompt", "iWant", "receiving", "uTake", "sending", "gone"}
    BY <2>1 DEF TypeOK
  <2>3. CASE pc[c] = "prompt"
    BY <2>1, <2>3 DEF JointAt, AtPrompt, InStepAt
  <2>4. CASE pc[c] = "iWant"
    BY <2>1, <2>4 DEF JointAt, AtWant, InStepAt
  <2>5. CASE pc[c] = "receiving"
    BY <2>1, <2>5 DEF JointAt, AtReceive, InStepAt
  <2>6. CASE pc[c] = "uTake"
    BY <2>1, <2>6 DEF JointAt, AtTake, EmptyTaken, InStepAt
  <2>7. CASE pc[c] = "sending"
    BY <2>1, <2>7 DEF JointAt, AtSend, InStepAt
  <2>8. CASE pc[c] = "gone"
    BY <2>8 DEF InStepAt
  <2> QED
    BY <2>2, <2>3, <2>4, <2>5, <2>6, <2>7, <2>8
<1> QED
  BY <1>1, Invariant, PTL

(* CompleteMeansCopied: what a client reports as complete is the whole file, for
   files of every length, also of none. *)
THEOREM CompleteCopies == Spec => []CompleteMeansCopied
<1>1. IInv => CompleteMeansCopied
  BY DEF IInv, InStepInv, ToldAt, CompleteMeansCopied
<1> QED
  BY <1>1, Invariant, PTL
=============================================================================
