--------------------------- MODULE FileSyncProofs ---------------------------
(***************************************************************************)
(* Two proofs for any number of clients, paths, edits and failures.        *)
(*                                                                         *)
(* The server reads the messages of a session in the order its handler     *)
(* expects.  The argument is about the two queues of a connection, the     *)
(* phase of the handler and the phase of the client; what the messages     *)
(* carry, the disks and the engines play no part in it.                    *)
(*                                                                         *)
(* The system is type-correct.  This argument is about what the messages   *)
(* carry: trees, entries, operations and content go from a directory to an *)
(* engine, a list of changes, a message and another host's directory.      *)
(***************************************************************************)
EXTENDS FileSync, SequenceTheorems, TLAPS

-----------------------------------------------------------------------------
(* Sequences of messages.                                                  *)

IsSeq(q) == q \in Seq({q[i] : i \in DOMAIN q})

NoHelloAck(q) == \A i \in DOMAIN q : q[i] # HelloAck

AllFiles(q) == \A i \in DOMAIN q : q[i].type \in FileMessages

\* A client's tree, then changes of files.
InitThenFiles(q) ==
  \A i \in DOMAIN q : q[i].type \in IF i = 1 THEN {"SYNC_INIT"} ELSE FileMessages

\* A sequence over any set is a sequence over its elements.
LEMMA SeqIsSeq == ASSUME NEW S, NEW q \in Seq(S) PROVE IsSeq(q)
<1>1. Len(q) \in Nat /\ q \in [1 .. Len(q) -> S] /\ DOMAIN q = 1 .. Len(q)
  BY Zenon, LenProperties
<1>2. q \in [1 .. Len(q) -> {q[i] : i \in DOMAIN q}]
  BY Zenon, <1>1
<1> QED
  BY SMTT(30), <1>1, <1>2, SeqDef DEF IsSeq

\* The indices of a queue.
LEMMA SeqDomain ==
  ASSUME NEW q, IsSeq(q)
  PROVE  /\ Len(q) \in Nat /\ DOMAIN q = 1 .. Len(q)
         /\ q # <<>> => Len(q) > 0 /\ Head(q) = q[1]
         /\ q = <<>> => Len(q) = 0
BY LenProperties, EmptySeq DEF IsSeq

\* What WriteMessage appends follows what is there.
LEMMA ConcatSeq ==
  ASSUME NEW q, NEW r, IsSeq(q), IsSeq(r)
  PROVE  /\ IsSeq(q \o r)
         /\ DOMAIN (q \o r) = 1 .. Len(q) + Len(r)
         /\ \A i \in 1 .. Len(q) + Len(r) :
              (q \o r)[i] = IF i <= Len(q) THEN q[i] ELSE r[i - Len(q)]
<1> DEFINE S == {q[i] : i \in DOMAIN q} \cup {r[i] : i \in DOMAIN r}
<1>1. q \in Seq(S) /\ r \in Seq(S)
  <2>1. q \in Seq(S)
    BY Zenon, SeqMonotonic DEF IsSeq
  <2>2. r \in Seq(S)
    BY Zenon, SeqMonotonic DEF IsSeq
  <2> QED
    BY Zenon, <2>1, <2>2
<1> HIDE DEF S
<1>2. q \o r \in Seq(S) /\ Len(q \o r) = Len(q) + Len(r)
      /\ \A i \in 1 .. Len(q) + Len(r) :
              (q \o r)[i] = IF i <= Len(q) THEN q[i] ELSE r[i - Len(q)]
  BY Zenon, <1>1, ConcatProperties
<1>3. DOMAIN (q \o r) = 1 .. Len(q \o r)
  BY Zenon, <1>2, LenProperties
<1> QED
  BY Zenon, <1>2, <1>3, SeqIsSeq

\* What ReadMessage leaves.
LEMMA TailSeq ==
  ASSUME NEW q, IsSeq(q), q # <<>>
  PROVE  /\ IsSeq(Tail(q))
         /\ DOMAIN Tail(q) = 1 .. Len(q) - 1
         /\ \A i \in 1 .. Len(q) - 1 : Tail(q)[i] = q[i + 1]
<1> DEFINE S == {q[i] : i \in DOMAIN q}
<1>1. q \in Seq(S)
  BY Zenon DEF IsSeq
<1> HIDE DEF S
<1>2. /\ Tail(q) \in Seq(S) /\ Len(Tail(q)) = Len(q) - 1
      /\ \A i \in 1 .. Len(Tail(q)) : Tail(q)[i] = q[i + 1]
  BY Zenon, <1>1, HeadTailProperties
<1>3. DOMAIN Tail(q) = 1 .. Len(Tail(q))
  BY Zenon, <1>2, LenProperties
<1> QED
  BY Zenon, <1>2, <1>3, SeqIsSeq

\* What a lost connection delivers.
LEMMA PrefixSeq ==
  ASSUME NEW q, IsSeq(q), NEW x \in Prefixes(q)
  PROVE  IsSeq(x) /\ DOMAIN x \subseteq DOMAIN q /\ \A i \in DOMAIN x : x[i] = q[i]
<1> DEFINE S == {q[i] : i \in DOMAIN q}
<1>1. Len(q) \in Nat /\ DOMAIN q = 1 .. Len(q)
  BY Zenon, SeqDomain
<1>2. PICK n \in 0 .. Len(q) : x = SubSeq(q, 1, n)
  BY Zenon DEF Prefixes
<1>3. n \in Int /\ \A i \in 1 .. n : q[i] \in S
  BY <1>1
<1> HIDE DEF S
<1>4. /\ x \in Seq(S) /\ Len(x) = IF 1 <= n THEN n - 1 + 1 ELSE 0
      /\ \A i \in 1 .. n - 1 + 1 : x[i] = q[1 + i - 1]
  BY <1>2, <1>3, SubSeqProperties
<1>5. DOMAIN x = 1 .. Len(x)
  BY Zenon, <1>4, LenProperties
<1>6. Len(x) = n
  BY <1>1, <1>4
<1> QED
  BY <1>1, <1>4, <1>5, <1>6, SeqIsSeq

\* Appending messages other than HELLO_ACK adds none.
LEMMA NoHelloAckConcat ==
  ASSUME NEW q, NEW r, IsSeq(q), IsSeq(r), NoHelloAck(q), NoHelloAck(r)
  PROVE  NoHelloAck(q \o r)
BY ConcatSeq, SeqDomain DEF NoHelloAck

\* Reading adds none.
LEMMA NoHelloAckTail ==
  ASSUME NEW q, IsSeq(q), q # <<>>, NoHelloAck(q)
  PROVE  NoHelloAck(Tail(q))
BY TailSeq, SeqDomain DEF NoHelloAck

\* Losing the end of a queue adds none.
LEMMA NoHelloAckPrefix ==
  ASSUME NEW q, IsSeq(q), NoHelloAck(q), NEW x \in Prefixes(q)
  PROVE  NoHelloAck(x)
BY Zenon, PrefixSeq DEF NoHelloAck

\* Messages about files are followed by messages about files.
LEMMA AllFilesConcat ==
  ASSUME NEW q, NEW r, IsSeq(q), IsSeq(r), AllFiles(q), AllFiles(r)
  PROVE  AllFiles(q \o r)
BY ConcatSeq, SeqDomain DEF AllFiles

\* Also when one is read.
LEMMA AllFilesTail ==
  ASSUME NEW q, IsSeq(q), q # <<>>, AllFiles(q)
  PROVE  AllFiles(Tail(q))
BY TailSeq, SeqDomain DEF AllFiles

\* And when the last ones are lost.
LEMMA AllFilesPrefix ==
  ASSUME NEW q, IsSeq(q), AllFiles(q), NEW x \in Prefixes(q)
  PROVE  AllFiles(x)
BY Zenon, PrefixSeq DEF AllFiles

\* A client's tree stays the first message until it is read.
LEMMA InitThenFilesConcat ==
  ASSUME NEW q, NEW r, IsSeq(q), IsSeq(r), InitThenFiles(q), AllFiles(r), q # <<>>
  PROVE  InitThenFiles(q \o r) /\ q \o r # <<>>
<1>1. /\ Len(q) \in Nat /\ Len(q) > 0 /\ DOMAIN q = 1 .. Len(q)
      /\ Len(r) \in Nat /\ DOMAIN r = 1 .. Len(r)
  BY Zenon, SeqDomain
<1>2. /\ DOMAIN (q \o r) = 1 .. Len(q) + Len(r)
      /\ \A i \in 1 .. Len(q) + Len(r) :
           (q \o r)[i] = IF i <= Len(q) THEN q[i] ELSE r[i - Len(q)]
  BY Zenon, ConcatSeq
<1>3. IsSeq(q \o r)
  BY Zenon, ConcatSeq
<1>4. InitThenFiles(q \o r)
  BY <1>1, <1>2 DEF InitThenFiles, AllFiles
<1>5. q \o r # <<>>
  BY <1>1, <1>2, <1>3, SeqDomain
<1> QED
  BY Zenon, <1>4, <1>5

\* When it is read, changes of files are left.
LEMMA InitThenFilesTail ==
  ASSUME NEW q, IsSeq(q), q # <<>>, InitThenFiles(q)
  PROVE  AllFiles(Tail(q))
BY TailSeq, SeqDomain DEF InitThenFiles, AllFiles

\* Losing the end of the queue does not change that.
LEMMA InitThenFilesPrefix ==
  ASSUME NEW q, IsSeq(q), InitThenFiles(q), NEW x \in Prefixes(q)
  PROVE  InitThenFiles(x)
BY Zenon, PrefixSeq DEF InitThenFiles

\* Queues of no and of one message.
LEMMA ShortSeq ==
  ASSUME NEW m
  PROVE  /\ IsSeq(<<>>) /\ IsSeq(<<m>>)
         /\ DOMAIN <<>> = {} /\ DOMAIN <<m>> = {1} /\ <<m>>[1] = m /\ <<m>> # <<>>
         /\ Head(<<m>>) = m /\ Tail(<<m>>) = <<>>
<1>1. <<>> \in Seq({m}) /\ <<m>> \in Seq({m})
  OBVIOUS
<1>2. IsSeq(<<>>) /\ IsSeq(<<m>>)
  BY Zenon, <1>1, SeqIsSeq
<1> QED
  BY <1>2

\* Messages about files are no HELLO_ACK.
LEMMA FilesNoHelloAck == ASSUME NEW q, AllFiles(q) PROVE NoHelloAck(q)
BY DEF AllFiles, NoHelloAck, HelloAck, FileMessages

\* ReadFileChunked sends a message about a file, or none.
LEMMA ContentFiles ==
  ASSUME NEW d, NEW p, NEW e
  PROVE  IsSeq(Content(d, p, e)) /\ AllFiles(Content(d, p, e))
BY ShortSeq DEF Content, AllFiles, FileData, FileMessages

\* handleLocalEvent sends messages about files.
LEMMA MessagesFiles ==
  ASSUME NEW c, NEW ch
  PROVE  IsSeq(Messages(c, ch)) /\ AllFiles(Messages(c, ch))
<1> DEFINE m == IF ch.type = "create" THEN FileCreate(ch.entry, ch.path)
                                      ELSE FileModify(ch.entry, ch.path)
           r == Content(disk[c], ch.path, ch.entry)
<1>1. CASE ch.type = "delete"
  BY <1>1, ShortSeq DEF Messages, AllFiles, FileDelete, FileMessages
<1>2. CASE ch.type # "delete"
  <2>1. Messages(c, ch) = <<m>> \o r
    BY Zenon, <1>2 DEF Messages
  <2>2. m.type \in FileMessages
    BY Zenon DEF FileCreate, FileModify, FileMessages
  <2>3. IsSeq(r) /\ AllFiles(r)
    BY Zenon, ContentFiles
  <2> HIDE DEF m, r
  <2>4. IsSeq(<<m>>) /\ AllFiles(<<m>>)
    BY Zenon, <2>2, ShortSeq DEF AllFiles
  <2> QED
    BY Zenon, <2>1, <2>3, <2>4, ConcatSeq, AllFilesConcat
<1> QED
  BY Zenon, <1>1, <1>2

-----------------------------------------------------------------------------
(* The inductive invariant.                                                *)

ServerPhases ==
  {"none", "new", "hello", "init", "tree", "diff", "stream", "live", "ended"}
ClientPhases ==
  {"start", "dial", "ack", "tree", "apply", "data", "upload", "forget", "live"}

\* A handler that waits for HELLO, for the client's tree, or has both.
Greets == {"new", "hello"}
AwaitsTree == {"init", "tree"}
Synced == {"diff", "stream", "live"}

Typed ==
  /\ sphase \in [Sessions -> ServerPhases]
  /\ cphase \in [Clients -> ClientPhases]
  /\ csess \in [Clients -> Sessions \cup {0}]
  /\ conn \in [Sessions -> {"none", "open", "closed"}]
  /\ c2s = [s \in Sessions |-> c2s[s]] /\ \A s \in Sessions : IsSeq(c2s[s])
  /\ s2c = [s \in Sessions |-> s2c[s]] /\ \A s \in Sessions : IsSeq(s2c[s])
  /\ spent \in [DOMAIN Limit -> Nat]

\* Connections are numbered as they are made, and no two clients use the same.
Numbered ==
  /\ \A c \in Clients : csess[c] <= spent["connect"]
  /\ \A c \in Clients : Connected(c) => csess[c] # 0
  /\ \A c, d \in Clients : csess[c] = csess[d] /\ csess[c] # 0 => c = d
  /\ \A s \in Sessions : s > spent["connect"] => sphase[s] = "none"

\* What is under way on a connection.
QueueInv(s) ==
  /\ sphase[s] \in Greets \cup {"none"} => NoHelloAck(s2c[s])
  /\ sphase[s] \in Greets => c2s[s] = <<>> \/ c2s[s] = <<Hello>>
  /\ sphase[s] \in AwaitsTree => InitThenFiles(c2s[s])
  /\ sphase[s] \in Synced => AllFiles(c2s[s])

\* Where the client is that uses a connection: it sends its tree after it has
\* read HELLO_ACK and files after its tree.
OwnerInv(c) ==
  Connected(c) =>
    /\ sphase[csess[c]] \in Greets => cphase[c] = "ack"
    /\ sphase[csess[c]] \in AwaitsTree /\ cphase[c] = "ack" => c2s[csess[c]] = <<>>
    /\ sphase[csess[c]] \in AwaitsTree /\ cphase[c] # "ack" /\ conn[csess[c]] = "open"
         => c2s[csess[c]] # <<>>
    /\ sphase[csess[c]] \in Synced => cphase[c] # "ack"

Inv ==
  /\ Typed /\ Numbered
  /\ \A s \in Sessions : QueueInv(s)
  /\ \A c \in Clients : OwnerInv(c)

-----------------------------------------------------------------------------
(* Kinds of steps, by what they do to the queues and the phases.           *)

\* No connection is made.
Counted == spent' \in [DOMAIN Limit -> Nat] /\ spent'["connect"] = spent["connect"]

\* Nor is a HELLO_ACK sent.
Mild ==
  /\ s2c' = [s \in Sessions |-> s2c'[s]]
  /\ \A s \in Sessions : IsSeq(s2c'[s]) /\ (NoHelloAck(s2c[s]) => NoHelloAck(s2c'[s]))
  /\ Counted

\* The handler of s takes the first message.
Takes(s) ==
  /\ c2s[s] # <<>>
  /\ c2s' = [c2s EXCEPT ![s] = Tail(@)]

AlikeOnServer(x, y) ==
  \/ x = y
  \/ x \in Greets /\ y \in Greets
  \/ x \in AwaitsTree /\ y \in AwaitsTree
  \/ x \in Synced /\ y \in Synced

Offline == {"start", "dial"}

AlikeOnClient(x, y) ==
  \/ x = y
  \/ x \in Offline /\ y \in Offline
  \/ x \notin Offline \cup {"ack"} /\ y \notin Offline \cup {"ack"}

\* Phases are left for phases that expect the same.
LEMMA AlikeStep ==
  ASSUME Inv, Mild, UNCHANGED <<c2s, csess, conn>>,
         sphase' \in [Sessions -> ServerPhases], cphase' \in [Clients -> ClientPhases],
         \A s \in Sessions : AlikeOnServer(sphase[s], sphase'[s]),
         \A c \in Clients : AlikeOnClient(cphase[c], cphase'[c])
  PROVE  Inv'
<1>1. Typed'
  BY Zenon DEF Inv, Typed, Mild, Counted
<1>2. \A c \in Clients : Connected(c)' <=> Connected(c)
  BY Zenon DEF AlikeOnClient, Connected, Offline
<1>3. \A c \in Clients : cphase'[c] = "ack" <=> cphase[c] = "ack"
  BY Zenon DEF AlikeOnClient, Offline
<1>4. \A s \in Sessions :
        /\ sphase'[s] \in Greets <=> sphase[s] \in Greets
        /\ sphase'[s] \in AwaitsTree <=> sphase[s] \in AwaitsTree
        /\ sphase'[s] \in Synced <=> sphase[s] \in Synced
        /\ sphase'[s] = "none" <=> sphase[s] = "none"
  BY Zenon DEF AlikeOnServer, Greets, AwaitsTree, Synced
<1>5. Numbered'
  BY Zenon, <1>2, <1>4 DEF Inv, Numbered, Mild, Counted
<1>6. ASSUME NEW s \in Sessions PROVE QueueInv(s)'
  BY Zenon, <1>4 DEF Inv, QueueInv, Mild
<1>7. ASSUME NEW c \in Clients PROVE OwnerInv(c)'
  <2>1. SUFFICES ASSUME Connected(c) PROVE OwnerInv(c)'
    BY Zenon, <1>2 DEF OwnerInv
  <2>2. csess[c] \in Sessions
    BY ZenonT(30), <2>1 DEF Inv, Typed, Numbered
  <2> QED
    BY Zenon, <1>3, <1>4, <2>1, <2>2 DEF Inv, OwnerInv
<1> QED
  BY Zenon, <1>1, <1>5, <1>6, <1>7 DEF Inv

\* A handler takes a message and goes where the next ones are expected.
LEMMA TakeStep ==
  ASSUME Inv, NEW s \in Sessions, Takes(s), UNCHANGED <<cphase, csess, conn>>,
         s2c' = [x \in Sessions |-> s2c'[x]], \A x \in Sessions : IsSeq(s2c'[x]),
         \A x \in Sessions \ {s} : NoHelloAck(s2c[x]) => NoHelloAck(s2c'[x]),
         UNCHANGED spent,
         NEW phase \in ServerPhases, sphase' = [sphase EXCEPT ![s] = phase],
         \/ sphase[s] \in Greets /\ phase \in AwaitsTree
         \/ sphase[s] \in AwaitsTree \cup Synced /\ phase \in Synced
  PROVE  Inv'
<1>1. /\ c2s' = [x \in Sessions |-> c2s'[x]]
      /\ \A x \in Sessions \ {s} : c2s'[x] = c2s[x] /\ sphase'[x] = sphase[x]
      /\ c2s'[s] = Tail(c2s[s]) /\ sphase'[s] = phase
  BY Zenon DEF Inv, Typed, Takes
<1>2. IsSeq(c2s[s]) /\ c2s[s] # <<>>
  BY Zenon DEF Inv, Typed, Takes
<1>3. IsSeq(Tail(c2s[s]))
  BY Zenon, <1>2, TailSeq
<1>4. Typed'
  BY Zenon, <1>1, <1>3 DEF Inv, Typed
<1>5. sphase[s] # "none" /\ phase # "none"
  BY Zenon DEF Greets, AwaitsTree, Synced
<1>6. Numbered'
  BY Zenon, <1>1, <1>5 DEF Inv, Numbered, Connected
<1>7. /\ phase \notin Greets
      /\ phase \in AwaitsTree => sphase[s] \in Greets /\ phase \notin Synced
      /\ phase \in Synced => sphase[s] \in AwaitsTree \cup Synced /\ phase \notin AwaitsTree
  BY Zenon DEF Greets, AwaitsTree, Synced
<1>8. phase \in AwaitsTree => c2s'[s] = <<>>
  <2> HAVE phase \in AwaitsTree
  <2>1. c2s[s] = <<Hello>>
    BY Zenon, <1>2, <1>7 DEF Inv, QueueInv
  <2> QED
    BY Zenon, <1>1, <2>1, ShortSeq
<1>9. phase \in Synced => AllFiles(c2s'[s])
  <2> HAVE phase \in Synced
  <2>1. InitThenFiles(c2s[s]) \/ AllFiles(c2s[s])
    BY Zenon, <1>7 DEF Inv, QueueInv
  <2> QED
    BY Zenon, <1>1, <1>2, <2>1, InitThenFilesTail, AllFilesTail
<1>10. ASSUME NEW x \in Sessions PROVE QueueInv(x)'
  <2>1. CASE x # s
    BY Zenon, <1>1, <2>1 DEF Inv, QueueInv
  <2>2. CASE x = s
    <3>1. c2s'[s] = <<>> => InitThenFiles(c2s'[s])
      BY Zenon, ShortSeq DEF InitThenFiles
    <3> QED
      BY Zenon, <1>1, <1>5, <1>7, <1>8, <1>9, <2>2, <3>1 DEF QueueInv
  <2> QED
    BY Zenon, <2>1, <2>2
<1>11. ASSUME NEW c \in Clients PROVE OwnerInv(c)'
  <2>1. SUFFICES ASSUME Connected(c) PROVE OwnerInv(c)'
    BY Zenon DEF OwnerInv, Connected
  <2>2. csess[c] \in Sessions
    BY ZenonT(30), <2>1 DEF Inv, Typed, Numbered
  <2>3. CASE csess[c] # s
    BY Zenon, <1>1, <2>1, <2>2, <2>3 DEF Inv, OwnerInv
  <2>4. CASE csess[c] = s
    <3>1. phase \in AwaitsTree => cphase[c] = "ack"
      BY Zenon, <1>7, <2>1, <2>4 DEF Inv, OwnerInv
    <3>2. phase \in Synced => cphase[c] # "ack"
      BY Zenon, <1>2, <1>7, <2>1, <2>4 DEF Inv, OwnerInv
    <3> QED
      BY Zenon, <1>1, <1>7, <1>8, <2>4, <3>1, <3>2 DEF OwnerInv
  <2> QED
    BY Zenon, <2>3, <2>4
<1> QED
  BY Zenon, <1>4, <1>6, <1>10, <1>11 DEF Inv

\* Handlers end and connections close, nothing else changes.
LEMMA EndStep ==
  ASSUME Inv, UNCHANGED <<cphase, csess, s2c>>,
         Counted,
         sphase' \in [Sessions -> ServerPhases], c2s' = [x \in Sessions |-> c2s'[x]],
         conn' \in [Sessions -> {"none", "open", "closed"}],
         \A x \in Sessions : conn'[x] = "open" => conn[x] = "open",
         \A x \in Sessions :
           \/ sphase'[x] = sphase[x] /\ c2s'[x] = c2s[x]
           \/ /\ sphase'[x] \in {"none", "ended"} /\ IsSeq(c2s'[x])
              /\ sphase'[x] = "none" <=> sphase[x] = "none"
  PROVE  Inv'
<1>1. Typed'
  BY Zenon DEF Inv, Typed, Counted
<1>2. Numbered'
  BY Zenon DEF Inv, Numbered, Connected, Counted
<1>3. \A x \in {"none", "ended"} : x \notin Greets /\ x \notin AwaitsTree /\ x \notin Synced
  BY Zenon DEF Greets, AwaitsTree, Synced
<1>4. ASSUME NEW x \in Sessions PROVE QueueInv(x)'
  BY Zenon, <1>3 DEF Inv, QueueInv
<1>5. ASSUME NEW c \in Clients PROVE OwnerInv(c)'
  <2>1. SUFFICES ASSUME Connected(c) PROVE OwnerInv(c)'
    BY Zenon DEF OwnerInv, Connected
  <2>2. csess[c] \in Sessions
    BY <2>1 DEF Inv, Typed, Numbered
  <2> QED
    BY ZenonT(30), <1>3, <2>1, <2>2 DEF Inv, OwnerInv
<1> QED
  BY Zenon, <1>1, <1>2, <1>4, <1>5 DEF Inv

\* The prefixes that a lost connection and a closed one leave.
LEMMA PrefixCases ==
  ASSUME NEW q, IsSeq(q)
  PROVE  /\ q \in Prefixes(q) /\ <<>> \in Prefixes(q)
         /\ \A x \in Prefixes(<<>>) : x = <<>>
         /\ \A m : \A x \in Prefixes(<<m>>) : x = <<>> \/ x = <<m>>
<1>1. q \in Prefixes(q)
  <2>1. Len(q) \in 0 .. Len(q)
    BY SeqDomain
  <2>2. SubSeq(q, 1, Len(q)) = q
    BY Zenon, SubSeqFull DEF IsSeq
  <2> QED
    BY Zenon, <2>1, <2>2 DEF Prefixes
<1>2. <<>> \in Prefixes(q)
  <2>1. 0 \in 0 .. Len(q)
    BY SeqDomain
  <2>2. SubSeq(q, 1, 0) = <<>>
    BY SubSeqEmpty
  <2> QED
    BY Zenon, <2>1, <2>2 DEF Prefixes
<1>3. ASSUME NEW x \in Prefixes(<<>>) PROVE x = <<>>
  <2>1. IsSeq(x) /\ DOMAIN x \subseteq DOMAIN <<>>
    BY Zenon, ShortSeq, PrefixSeq
  <2> QED
    BY <2>1, ShortSeq, SeqDomain
<1>4. ASSUME NEW m, NEW x \in Prefixes(<<m>>) PROVE x = <<>> \/ x = <<m>>
  <2>1. PICK n \in 0 .. 1 : x = SubSeq(<<m>>, 1, n)
    BY Zenon DEF Prefixes
  <2>2. <<m>> \in Seq({m}) /\ Len(<<m>>) = 1
    OBVIOUS
  <2>3. n = 0 => x = <<>>
    BY <2>1, SubSeqEmpty
  <2>4. n = 1 => x = <<m>>
    BY Zenon, <2>1, <2>2, SubSeqFull
  <2> QED
    BY <2>3, <2>4
<1> QED
  BY Zenon, <1>1, <1>2, <1>3, <1>4

\* Connections close and lose messages, sessions of clients end.
LEMMA CutStep ==
  ASSUME Inv, UNCHANGED <<sphase, csess>>,
         Counted,
         cphase' \in [Clients -> ClientPhases],
         \A c \in Clients : cphase'[c] = cphase[c] \/ cphase'[c] = "start",
         conn' \in [Sessions -> {"none", "open", "closed"}],
         \A x \in Sessions : conn'[x] = "open" => conn[x] = "open" /\ c2s'[x] = c2s[x],
         c2s' = [x \in Sessions |-> c2s'[x]], s2c' = [x \in Sessions |-> s2c'[x]],
         \A x \in Sessions : c2s'[x] \in Prefixes(c2s[x]) /\ s2c'[x] \in Prefixes(s2c[x])
  PROVE  Inv'
<1>1. \A x \in Sessions : IsSeq(c2s[x]) /\ IsSeq(s2c[x])
  BY Zenon DEF Inv, Typed, Counted
<1>2. \A x \in Sessions : IsSeq(c2s'[x]) /\ IsSeq(s2c'[x])
  BY Zenon, <1>1, PrefixSeq
<1>3. Typed'
  BY Zenon, <1>2 DEF Inv, Typed, Counted
<1>4. \A c \in Clients : Connected(c)' => Connected(c) /\ cphase'[c] = cphase[c]
  BY Zenon DEF Connected
<1>5. Numbered'
  BY Zenon, <1>4 DEF Inv, Numbered, Counted
<1>6. ASSUME NEW x \in Sessions PROVE QueueInv(x)'
  <2>1. NoHelloAck(s2c[x]) => NoHelloAck(s2c'[x])
    BY Zenon, <1>1, NoHelloAckPrefix
  <2>2. AllFiles(c2s[x]) => AllFiles(c2s'[x])
    BY Zenon, <1>1, AllFilesPrefix
  <2>3. InitThenFiles(c2s[x]) => InitThenFiles(c2s'[x])
    BY Zenon, <1>1, InitThenFilesPrefix
  <2>4. c2s[x] = <<>> \/ c2s[x] = <<Hello>> => c2s'[x] = <<>> \/ c2s'[x] = <<Hello>>
    BY Zenon, ShortSeq, PrefixCases
  <2> QED
    BY Zenon, <2>1, <2>2, <2>3, <2>4 DEF Inv, QueueInv
<1>7. ASSUME NEW c \in Clients PROVE OwnerInv(c)'
  <2>1. SUFFICES ASSUME Connected(c), cphase'[c] = cphase[c] PROVE OwnerInv(c)'
    BY Zenon, <1>4 DEF OwnerInv
  <2>2. csess[c] \in Sessions
    BY <2>1 DEF Inv, Typed, Numbered
  <2>3. c2s[csess[c]] = <<>> => c2s'[csess[c]] = <<>>
    BY Zenon, <2>2, ShortSeq, PrefixCases
  <2> QED
    BY Zenon, <2>1, <2>2, <2>3 DEF Inv, OwnerInv
<1> QED
  BY Zenon, <1>3, <1>5, <1>6, <1>7 DEF Inv

\* A client's connection takes messages: its tree after HELLO_ACK, files later.
LEMMA SendStep ==
  ASSUME Inv, NEW c \in Clients, Connected(c), NEW r, IsSeq(r), r # <<>>,
         UNCHANGED <<sphase, csess, conn>>, Mild,
         c2s' = Send(c2s, csess[c], r),
         NEW phase \in ClientPhases, cphase' = [cphase EXCEPT ![c] = phase],
         phase \notin Offline \cup {"ack"},
         \/ cphase[c] # "ack" /\ AllFiles(r)
         \/ /\ cphase[c] = "ack" /\ InitThenFiles(r)
            /\ ~ NoHelloAck(s2c[csess[c]])
  PROVE  Inv'
<1>1. PICK t \in Sessions : t = csess[c]
  BY Zenon DEF Inv, Typed, Numbered
<1>2. /\ c2s' = [x \in Sessions |-> c2s'[x]]
      /\ \A x \in Sessions \ {t} : c2s'[x] = c2s[x]
      /\ c2s'[t] = IF conn[t] = "open" THEN c2s[t] \o r ELSE c2s[t]
  BY Zenon, <1>1 DEF Inv, Typed, Send
<1>3. IsSeq(c2s[t])
  BY Zenon, <1>1 DEF Inv, Typed
<1>4. Typed'
  <2>1. IsSeq(c2s'[t])
    BY <1>2, <1>3, ConcatSeq
  <2> QED
    BY Zenon, <1>2, <2>1 DEF Inv, Typed, Mild, Counted
<1>5. \A d \in Clients : (Connected(d)' <=> Connected(d)) /\ (d # c => cphase'[d] = cphase[d])
  BY Zenon DEF Inv, Typed, Connected, Offline
<1>6. Numbered'
  BY Zenon, <1>5 DEF Inv, Numbered, Mild, Counted
<1>7. sphase[t] \notin Greets
  BY Zenon, <1>1 DEF Inv, QueueInv, OwnerInv
<1>8. sphase[t] \in Synced => AllFiles(c2s'[t])
  <2> HAVE sphase[t] \in Synced
  <2>1. AllFiles(c2s[t]) /\ AllFiles(r)
    BY Zenon, <1>1 DEF Inv, QueueInv, OwnerInv
  <2> QED
    BY <1>2, <1>3, <2>1, AllFilesConcat
<1>9. sphase[t] \in AwaitsTree =>
        InitThenFiles(c2s'[t]) /\ (conn[t] = "open" => c2s'[t] # <<>>)
  <2> HAVE sphase[t] \in AwaitsTree
  <2>1. InitThenFiles(c2s[t])
    BY Zenon, <1>1 DEF Inv, QueueInv
  <2>2. CASE conn[t] # "open"
    BY Zenon, <1>2, <2>1, <2>2
  <2>3. CASE conn[t] = "open" /\ cphase[c] # "ack"
    <3>1. c2s[t] # <<>> /\ AllFiles(r)
      BY Zenon, <1>1, <2>3 DEF Inv, OwnerInv
    <3> QED
      BY ZenonT(30), <1>2, <1>3, <2>1, <2>3, <3>1, InitThenFilesConcat
  <2>4. CASE conn[t] = "open" /\ cphase[c] = "ack"
    <3>1. c2s[t] = <<>> /\ InitThenFiles(r)
      BY Zenon, <1>1, <2>4 DEF Inv, OwnerInv
    <3>2. <<>> \o r = r
      BY Zenon, ConcatEmptySeq DEF IsSeq
    <3> QED
      BY Zenon, <1>2, <2>4, <3>1, <3>2
  <2> QED
    BY Zenon, <2>2, <2>3, <2>4
<1>10. ASSUME NEW x \in Sessions PROVE QueueInv(x)'
  <2>1. CASE x # t
    BY Zenon, <1>2, <2>1 DEF Inv, QueueInv, Mild
  <2>2. CASE x = t
    <3>1. sphase[t] \in Greets \cup {"none"} => NoHelloAck(s2c'[t])
      BY Zenon DEF Inv, QueueInv, Mild
    <3> QED
      BY Zenon, <1>7, <1>8, <1>9, <2>2, <3>1 DEF QueueInv
  <2> QED
    BY Zenon, <2>1, <2>2
<1>11. ASSUME NEW d \in Clients PROVE OwnerInv(d)'
  <2>1. CASE d # c
    <3>1. SUFFICES ASSUME Connected(d) PROVE OwnerInv(d)'
      BY Zenon, <1>5 DEF OwnerInv
    <3>2. csess[d] \in Sessions \ {t}
      BY SMTT(30), <1>1, <2>1, <3>1 DEF Inv, Typed, Numbered
    <3> QED
      BY Zenon, <1>2, <1>5, <2>1, <3>1, <3>2 DEF Inv, OwnerInv
  <2>2. CASE d = c
    <3>1. cphase'[c] = phase /\ phase # "ack"
      BY Zenon DEF Inv, Typed
    <3> QED
      BY Zenon, <1>1, <1>7, <1>9, <2>2, <3>1 DEF OwnerInv
  <2> QED
    BY Zenon, <2>1, <2>2
<1> QED
  BY Zenon, <1>4, <1>6, <1>10, <1>11 DEF Inv

\* A new connection gets the next number and starts with HELLO.
LEMMA ConnectStep ==
  ASSUME Inv, NEW c \in Clients, CliConnect(c)
  PROVE  Inv'
<1> DEFINE n == spent["connect"] + 1
<1>1. /\ spent["connect"] \in Nat /\ n \in Sessions
      /\ spent' \in [DOMAIN Limit -> Nat] /\ spent'["connect"] = n
  <2>1. "connect" \in DOMAIN Limit /\ Limit["connect"] \in Nat
    BY Zenon, FileSyncAssumption
  <2>2. spent["connect"] \in Nat /\ spent \in [DOMAIN Limit -> Nat]
    BY Zenon, <2>1 DEF Inv, Typed
  <2>3. spent["connect"] < Limit["connect"] /\ spent' = [spent EXCEPT !["connect"] = @ + 1]
    BY Zenon DEF CliConnect, Spend
  <2> QED
    BY <2>1, <2>2, <2>3 DEF Sessions
<1>2. /\ conn' = [conn EXCEPT ![n] = "open"]
      /\ c2s' = [c2s EXCEPT ![n] = <<Hello>>]
      /\ csess' = [csess EXCEPT ![c] = n]
      /\ sphase' = [sphase EXCEPT ![n] = "new"]
      /\ cphase' = [cphase EXCEPT ![c] = "ack"]
      /\ s2c' = s2c
  BY Zenon DEF CliConnect, Goto, Enter
<1> HIDE DEF n
<1>3. IsSeq(<<Hello>>)
  BY Zenon, ShortSeq
<1>4. Typed'
  BY Zenon, <1>1, <1>2, <1>3 DEF Inv, Typed, ServerPhases, ClientPhases
<1>5. /\ \A x \in Sessions \ {n} : /\ conn'[x] = conn[x] /\ c2s'[x] = c2s[x]
                                   /\ sphase'[x] = sphase[x]
      /\ c2s'[n] = <<Hello>> /\ sphase'[n] = "new"
      /\ \A d \in Clients \ {c} : csess'[d] = csess[d] /\ cphase'[d] = cphase[d]
      /\ csess'[c] = n /\ cphase'[c] = "ack"
  BY Zenon, <1>1, <1>2 DEF Inv, Typed
<1>6. \A d \in Clients : csess[d] \in Nat /\ csess[d] < n
  BY <1>1 DEF Inv, Typed, Numbered, Sessions, n
<1>7. n \in Nat \ {0} /\ \A x \in Sessions : x > n => x > spent["connect"]
  BY <1>1 DEF n, Sessions
<1>8. Numbered'
  <2>1. \A d \in Clients : csess'[d] <= n /\ (Connected(d)' => csess'[d] # 0)
    BY SMTT(30), <1>5, <1>6, <1>7 DEF Inv, Numbered, Connected
  <2>2. \A d, e \in Clients : csess'[d] = csess'[e] /\ csess'[d] # 0 => d = e
    BY SMTT(30), <1>5, <1>6 DEF Inv, Numbered
  <2>3. \A x \in Sessions : x > n => sphase'[x] = "none"
    BY SMTT(30), <1>5, <1>7 DEF Inv, Numbered, Sessions
  <2> QED
    BY Zenon, <1>1, <2>1, <2>2, <2>3 DEF Numbered
<1>9. NoHelloAck(s2c[n])
  <2>1. sphase[n] = "none"
    BY <1>1 DEF Inv, Numbered, n
  <2> QED
    BY Zenon, <1>1, <2>1 DEF Inv, QueueInv
<1>10. ASSUME NEW x \in Sessions PROVE QueueInv(x)'
  <2>1. CASE x # n
    BY Zenon, <1>2, <1>5, <2>1 DEF Inv, QueueInv
  <2>2. CASE x = n
    BY Zenon, <1>2, <1>5, <1>9, <2>2 DEF QueueInv, Greets, AwaitsTree, Synced
  <2> QED
    BY Zenon, <2>1, <2>2
<1>11. ASSUME NEW d \in Clients PROVE OwnerInv(d)'
  <2>1. CASE d # c
    <3>1. SUFFICES ASSUME Connected(d) PROVE OwnerInv(d)'
      BY Zenon, <1>5, <2>1 DEF OwnerInv, Connected
    <3>2. csess[d] \in Sessions \ {n}
      BY <1>6, <3>1 DEF Inv, Typed, Numbered
    <3> QED
      BY SMTT(30), <1>5, <2>1, <3>1, <3>2 DEF Inv, OwnerInv
  <2>2. CASE d = c
    BY Zenon, <1>5, <2>2 DEF OwnerInv, Greets, AwaitsTree, Synced
  <2> QED
    BY Zenon, <2>1, <2>2
<1> QED
  BY Zenon, <1>4, <1>8, <1>10, <1>11 DEF Inv

\* A step within a phase.
LEMMA Stays ==
  ASSUME Inv, Mild, UNCHANGED <<sphase, cphase, csess, conn, c2s>>
  PROVE  Inv'
<1>1. sphase' \in [Sessions -> ServerPhases] /\ cphase' \in [Clients -> ClientPhases]
  BY Zenon DEF Inv, Typed
<1>2. \A s \in Sessions : AlikeOnServer(sphase[s], sphase'[s])
  BY Zenon DEF AlikeOnServer
<1>3. \A c \in Clients : AlikeOnClient(cphase[c], cphase'[c])
  BY Zenon DEF AlikeOnClient
<1> QED
  BY Zenon, <1>1, <1>2, <1>3, AlikeStep

\* A handler goes to a phase that expects the same messages.
LEMMA ServerMoves ==
  ASSUME Inv, Mild, UNCHANGED <<cphase, csess, conn, c2s>>,
         NEW s \in Sessions, NEW phase \in ServerPhases,
         sphase' = [sphase EXCEPT ![s] = phase], AlikeOnServer(sphase[s], phase)
  PROVE  Inv'
<1>1. sphase' \in [Sessions -> ServerPhases] /\ cphase' \in [Clients -> ClientPhases]
  BY Zenon DEF Inv, Typed
<1>2. \A x \in Sessions : sphase'[x] = IF x = s THEN phase ELSE sphase[x]
  BY Zenon DEF Inv, Typed
<1>3. \A x \in Sessions : AlikeOnServer(sphase[x], sphase'[x])
  BY Zenon, <1>2 DEF AlikeOnServer
<1>4. \A c \in Clients : AlikeOnClient(cphase[c], cphase'[c])
  BY Zenon DEF AlikeOnClient
<1> QED
  BY Zenon, <1>1, <1>3, <1>4, AlikeStep

\* A client goes to a phase in which it sends the same messages.
LEMMA ClientMoves ==
  ASSUME Inv, Mild, UNCHANGED <<sphase, csess, conn, c2s>>,
         NEW c \in Clients, NEW phase \in ClientPhases,
         cphase' = [cphase EXCEPT ![c] = phase], AlikeOnClient(cphase[c], phase)
  PROVE  Inv'
<1>1. sphase' \in [Sessions -> ServerPhases] /\ cphase' \in [Clients -> ClientPhases]
  BY Zenon DEF Inv, Typed
<1>2. \A d \in Clients : cphase'[d] = IF d = c THEN phase ELSE cphase[d]
  BY Zenon DEF Inv, Typed
<1>3. \A d \in Clients : AlikeOnClient(cphase[d], cphase'[d])
  BY Zenon, <1>2 DEF AlikeOnClient
<1>4. \A s \in Sessions : AlikeOnServer(sphase[s], sphase'[s])
  BY Zenon DEF AlikeOnServer
<1> QED
  BY Zenon, <1>1, <1>3, <1>4, AlikeStep

-----------------------------------------------------------------------------
(* Mild steps.                                                             *)

\* Using up another bound makes no connection.
LEMMA SpendCounted ==
  ASSUME Inv, NEW k \in {"edit", "drop", "tick", "crash", "stop"}, Spend(k)
  PROVE  Counted
<1>1. "connect" \in DOMAIN Limit /\ k \in DOMAIN Limit /\ k # "connect"
  BY Zenon, FileSyncAssumption
<1>2. spent \in [DOMAIN Limit -> Nat] /\ spent' = [spent EXCEPT ![k] = @ + 1]
  BY Zenon DEF Inv, Typed, Spend
<1> QED
  BY <1>1, <1>2 DEF Counted

\* Nor does a step that uses up no bound.
LEMMA SameCounted == Inv /\ UNCHANGED spent => Counted
BY Zenon DEF Inv, Typed, Counted

\* Sending nothing is mild.
LEMMA MildSame == Inv /\ Counted /\ UNCHANGED s2c => Mild
BY Zenon DEF Inv, Typed, Mild

\* WriteMessage of anything but HELLO_ACK.
LEMMA MildSend ==
  ASSUME Inv, Counted, NEW s \in Sessions, NEW r, IsSeq(r), NoHelloAck(r),
         s2c' = Send(s2c, s, r)
  PROVE  Mild
<1>1. IsSeq(s2c[s])
  BY Zenon DEF Inv, Typed
<1>2. IsSeq(s2c[s] \o r) /\ (NoHelloAck(s2c[s]) => NoHelloAck(s2c[s] \o r))
  BY Zenon, <1>1, ConcatSeq, NoHelloAckConcat
<1> QED
  BY Zenon, <1>2 DEF Inv, Typed, Mild, Send

\* Broadcast of anything but HELLO_ACK.
LEMMA MildSendAll ==
  ASSUME Inv, Counted, NEW S, NEW r, IsSeq(r), NoHelloAck(r), s2c' = SendAll(S, r)
  PROVE  Mild
<1>1. \A x \in Sessions : IsSeq(s2c[x])
  BY Zenon DEF Inv, Typed
<1>2. \A x \in Sessions :
        IsSeq(s2c[x] \o r) /\ (NoHelloAck(s2c[x]) => NoHelloAck(s2c[x] \o r))
  BY Zenon, <1>1, ConcatSeq, NoHelloAckConcat
<1> QED
  BY Zenon, <1>1, <1>2 DEF Mild, SendAll

\* ReadMessage of a client.
LEMMA MildReceive ==
  ASSUME Inv, Counted, NEW s \in Sessions, s2c[s] # <<>>,
         s2c' = [s2c EXCEPT ![s] = Tail(@)]
  PROVE  Mild
<1>1. IsSeq(s2c[s])
  BY Zenon DEF Inv, Typed
<1>2. IsSeq(Tail(s2c[s])) /\ (NoHelloAck(s2c[s]) => NoHelloAck(Tail(s2c[s])))
  BY Zenon, <1>1, TailSeq, NoHelloAckTail
<1> QED
  BY Zenon, <1>2 DEF Inv, Typed, Mild

\* One message of another kind.
LEMMA OneMessage ==
  ASSUME NEW m, m # HelloAck
  PROVE  IsSeq(<<m>>) /\ NoHelloAck(<<m>>)
BY Zenon, ShortSeq DEF NoHelloAck

-----------------------------------------------------------------------------
(* The actions of the server.                                              *)

\* The handler of a session before it is live.
LEMMA HandshakeSteps ==
  ASSUME Inv, NEW s \in Sessions,
         \/ SrvAccepted(s) \/ SrvHello(s) \/ SrvSendTree(s) \/ SrvSyncInit(s)
         \/ SrvSyncApply(s) \/ SrvStream(s) \/ SrvAck(s)
  PROVE  Inv'
<1>1. CASE SrvAccepted(s)
  <2>1. Mild
    BY Zenon, <1>1, SameCounted, MildSame DEF SrvAccepted, net, hist
  <2>2. /\ UNCHANGED <<cphase, csess, conn, c2s>>
        /\ sphase' = [sphase EXCEPT ![s] = "hello"] /\ sphase[s] = "new"
    BY Zenon, <1>1 DEF SrvAccepted, Goto, net, cli
  <2>3. AlikeOnServer(sphase[s], "hello") /\ "hello" \in ServerPhases
    BY Zenon, <2>2 DEF AlikeOnServer, Greets, ServerPhases
  <2> QED
    BY Zenon, <2>1, <2>2, <2>3, ServerMoves
<1>2. CASE SrvHello(s)
  <2>1. /\ UNCHANGED <<cphase, csess, conn, spent>> /\ Takes(s)
        /\ sphase' = [sphase EXCEPT ![s] = "init"] /\ sphase[s] = "hello"
        /\ s2c' = Send(s2c, s, <<HelloAck>>)
    BY Zenon, <1>2 DEF SrvHello, Reads, Consume, Goto, Takes, cli, hist
  <2>2. IsSeq(s2c[s] \o <<HelloAck>>)
    BY Zenon, ShortSeq, ConcatSeq DEF Inv, Typed
  <2>3. /\ s2c' = [x \in Sessions |-> s2c'[x]] /\ \A x \in Sessions : IsSeq(s2c'[x])
        /\ \A x \in Sessions \ {s} : NoHelloAck(s2c[x]) => NoHelloAck(s2c'[x])
    BY Zenon, <2>1, <2>2 DEF Inv, Typed, Send
  <2>4. sphase[s] \in Greets /\ "init" \in AwaitsTree /\ "init" \in ServerPhases
    BY Zenon, <2>1 DEF Greets, AwaitsTree, ServerPhases
  <2> QED
    BY Zenon, <2>1, <2>3, <2>4, TakeStep
<1>3. CASE SrvSendTree(s)
  <2>1. SyncInit(eng[Server].local) # HelloAck
    BY Zenon DEF SyncInit, HelloAck
  <2>2. Counted /\ s2c' = Send(s2c, s, <<SyncInit(eng[Server].local)>>)
    BY Zenon, <1>3, SameCounted DEF SrvSendTree, hist
  <2>3. Mild
    BY Zenon, <2>1, <2>2, OneMessage, MildSend
  <2>4. /\ UNCHANGED <<cphase, csess, conn, c2s>>
        /\ sphase' = [sphase EXCEPT ![s] = "tree"] /\ sphase[s] = "init"
    BY Zenon, <1>3 DEF SrvSendTree, Goto, cli
  <2>5. AlikeOnServer(sphase[s], "tree") /\ "tree" \in ServerPhases
    BY Zenon, <2>4 DEF AlikeOnServer, AwaitsTree, ServerPhases
  <2> QED
    BY Zenon, <2>3, <2>4, <2>5, ServerMoves
<1>4. CASE SrvSyncInit(s)
  <2>1. /\ UNCHANGED <<cphase, csess, conn, spent, s2c>> /\ Takes(s)
        /\ sphase' = [sphase EXCEPT ![s] = "diff"] /\ sphase[s] = "tree"
    BY Zenon, <1>4 DEF SrvSyncInit, Reads, Consume, Goto, Takes, cli, hist
  <2>2. s2c' = [x \in Sessions |-> s2c'[x]] /\ \A x \in Sessions : IsSeq(s2c'[x])
    BY Zenon, <2>1 DEF Inv, Typed
  <2>3. sphase[s] \in AwaitsTree /\ "diff" \in Synced /\ "diff" \in ServerPhases
    BY Zenon, <2>1 DEF AwaitsTree, Synced, ServerPhases
  <2> QED
    BY Zenon, <2>1, <2>2, <2>3, TakeStep
<1>5. CASE SrvSyncApply(s)
  <2>1. PICK ops : s2c' = Send(s2c, s, <<SyncApply(ops)>>)
    BY Zenon, <1>5 DEF SrvSyncApply
  <2>2. SyncApply(ops) # HelloAck
    BY Zenon DEF SyncApply, HelloAck
  <2>3. Counted
    BY Zenon, <1>5, SameCounted DEF SrvSyncApply, hist
  <2>4. Mild
    BY Zenon, <2>1, <2>2, <2>3, OneMessage, MildSend
  <2>5. /\ UNCHANGED <<cphase, csess, conn, c2s>>
        /\ sphase' = [sphase EXCEPT ![s] = "stream"] /\ sphase[s] = "diff"
    BY Zenon, <1>5 DEF SrvSyncApply, Goto, cli
  <2>6. AlikeOnServer(sphase[s], "stream") /\ "stream" \in ServerPhases
    BY Zenon, <2>5 DEF AlikeOnServer, Synced, ServerPhases
  <2> QED
    BY Zenon, <2>4, <2>5, <2>6, ServerMoves
<1>6. CASE SrvStream(s)
  <2>1. PICK ch \in stodo[s] : s2c' = Send(s2c, s, Content(disk[Server], ch.path, ch.entry))
    BY Zenon, <1>6 DEF SrvStream
  <2>2. Counted /\ UNCHANGED <<sphase, cphase, csess, conn, c2s>>
    BY Zenon, <1>6, SameCounted DEF SrvStream, cli, hist
  <2>3. /\ IsSeq(Content(disk[Server], ch.path, ch.entry))
        /\ NoHelloAck(Content(disk[Server], ch.path, ch.entry))
    BY Zenon, ContentFiles, FilesNoHelloAck
  <2>4. Mild
    BY Zenon, <2>1, <2>2, <2>3, MildSend
  <2> QED
    BY Zenon, <2>2, <2>4, Stays
<1>7. CASE SrvAck(s)
  <2>1. Ack # HelloAck
    BY Zenon DEF Ack, HelloAck
  <2>2. Counted /\ s2c' = Send(s2c, s, <<Ack>>)
    BY Zenon, <1>7, SameCounted DEF SrvAck, hist
  <2>3. Mild
    BY Zenon, <2>1, <2>2, OneMessage, MildSend
  <2>4. /\ UNCHANGED <<cphase, csess, conn, c2s>>
        /\ sphase' = [sphase EXCEPT ![s] = "live"] /\ sphase[s] = "stream"
    BY Zenon, <1>7 DEF SrvAck, Goto, cli
  <2>5. AlikeOnServer(sphase[s], "live") /\ "live" \in ServerPhases
    BY Zenon, <2>4 DEF AlikeOnServer, Synced, ServerPhases
  <2> QED
    BY Zenon, <2>3, <2>4, <2>5, ServerMoves
<1> QED
  BY Zenon, <1>1, <1>2, <1>3, <1>4, <1>5, <1>6, <1>7

\* handleMessage takes a message and sends no HELLO_ACK.
LEMMA LiveStep ==
  ASSUME Inv, NEW s \in Sessions, NEW type, Live(s, type), Mild
  PROVE  Inv'
<1>1. /\ UNCHANGED <<cphase, csess, conn, spent, sphase>> /\ Takes(s)
      /\ sphase[s] = "live"
  BY Zenon DEF Live, Reads, Consume, Takes, cli, hist
<1>2. sphase' = [sphase EXCEPT ![s] = "live"]
  BY Zenon, <1>1 DEF Inv, Typed
<1>3. /\ s2c' = [x \in Sessions |-> s2c'[x]] /\ \A x \in Sessions : IsSeq(s2c'[x])
      /\ \A x \in Sessions : NoHelloAck(s2c[x]) => NoHelloAck(s2c'[x])
  BY Zenon DEF Mild
<1>4. "live" \in Synced /\ "live" \in ServerPhases
  BY Zenon DEF Synced, ServerPhases
<1> QED
  BY Zenon, <1>1, <1>2, <1>3, <1>4, TakeStep

\* What handleMessage passes on is the message it has read.
LEMMA LiveSteps ==
  ASSUME Inv, NEW s \in Sessions,
         SrvFileCreate(s) \/ SrvFileModify(s) \/ SrvFileDelete(s) \/ SrvFileData(s)
  PROVE  Inv'
<1>1. \A type : Live(s, type) => Counted
  BY Zenon, SameCounted DEF Live, hist
<1>2. CASE SrvFileCreate(s)
  <2>1. Live(s, "FILE_CREATE") /\ UNCHANGED s2c
    BY Zenon, <1>2 DEF SrvFileCreate
  <2> QED
    BY Zenon, <1>1, <2>1, MildSame, LiveStep
<1>3. CASE SrvFileModify(s)
  <2>1. Live(s, "FILE_MODIFY") /\ UNCHANGED s2c
    BY Zenon, <1>3 DEF SrvFileModify
  <2> QED
    BY Zenon, <1>1, <2>1, MildSame, LiveStep
<1>4. CASE SrvFileDelete(s)
  <2>1. Live(s, "FILE_DELETE") /\ s2c' = SendAll(Registered \ {s}, <<Head(c2s[s])>>)
    BY Zenon, <1>4 DEF SrvFileDelete
  <2>2. Head(c2s[s]) # HelloAck
    <3>1. Reads(s, "live", "FILE_DELETE")
      BY Zenon, <2>1 DEF Live
    <3>2. Head(c2s[s]).type = "FILE_DELETE"
      BY Zenon, <3>1 DEF Reads
    <3> QED
      BY <3>2 DEF HelloAck
  <2>3. Mild
    BY Zenon, <1>1, <2>1, <2>2, OneMessage, MildSendAll
  <2> QED
    BY Zenon, <2>1, <2>3, LiveStep
<1>5. CASE SrvFileData(s)
  <2>1. /\ Live(s, "FILE_DATA")
        /\ s2c' = SendAll(Registered \ {s}, <<Head(c2s[s])>>) \/ UNCHANGED s2c
    BY Zenon, <1>5 DEF SrvFileData
  <2>2. Head(c2s[s]) # HelloAck
    <3>1. Reads(s, "live", "FILE_DATA")
      BY Zenon, <2>1 DEF Live
    <3>2. Head(c2s[s]).type = "FILE_DATA"
      BY Zenon, <3>1 DEF Reads
    <3> QED
      BY <3>2 DEF HelloAck
  <2>3. Mild
    BY Zenon, <1>1, <2>1, <2>2, OneMessage, MildSendAll, MildSame
  <2> QED
    BY Zenon, <2>1, <2>3, LiveStep
<1> QED
  BY Zenon, <1>2, <1>3, <1>4, <1>5

\* The tickers send SYNC_APPLY.
LEMMA TickStep ==
  ASSUME Inv, NEW s \in Sessions, Tick(s)
  PROVE  Inv'
<1>1. Spend("tick") /\ UNCHANGED <<sphase, cphase, csess, conn, c2s>>
  BY Zenon DEF Tick, srv, cli
<1>2. Counted
  BY Zenon, <1>1, SpendCounted
<1>3. \/ UNCHANGED s2c
      \/ \E ops : s2c' = Send(s2c, s, <<SyncApply(ops)>>)
  BY Zenon DEF Tick
<1>4. \A ops : SyncApply(ops) # HelloAck
  BY Zenon DEF SyncApply, HelloAck
<1>5. Mild
  BY Zenon, <1>2, <1>3, <1>4, OneMessage, MildSend, MildSame
<1> QED
  BY Zenon, <1>1, <1>5, Stays

\* handleMonitorEvent sends messages about files.
LEMMA SrvEventStep ==
  ASSUME Inv, NEW p \in Paths, SrvEvent(p)
  PROVE  Inv'
<1> DEFINE entry == BuildEntry(disk[Server][p])
           r == <<FileModify(entry, p)>> \o Content(disk[Server], p, entry)
<1>1. Counted /\ UNCHANGED <<sphase, cphase, csess, conn, c2s>>
  BY Zenon, SameCounted DEF SrvEvent, srv, cli, hist
<1>2. \/ UNCHANGED s2c
      \/ s2c' = SendAll(Registered, <<FileDelete(p)>>)
      \/ s2c' = SendAll(Registered, r)
  BY Zenon DEF SrvEvent
<1>3. FileDelete(p) # HelloAck
  BY Zenon DEF FileDelete, HelloAck
<1>4. IsSeq(r) /\ NoHelloAck(r)
  <2>1. FileModify(entry, p) # HelloAck
    BY Zenon DEF FileModify, HelloAck
  <2>2. IsSeq(<<FileModify(entry, p)>>) /\ NoHelloAck(<<FileModify(entry, p)>>)
    BY Zenon, <2>1, OneMessage
  <2>3. IsSeq(Content(disk[Server], p, entry)) /\ NoHelloAck(Content(disk[Server], p, entry))
    BY Zenon, ContentFiles, FilesNoHelloAck
  <2> QED
    BY Zenon, <2>2, <2>3, ConcatSeq, NoHelloAckConcat
<1> HIDE DEF entry, r
<1>5. Mild
  BY Zenon, <1>1, <1>2, <1>3, <1>4, OneMessage, MildSendAll, MildSame
<1> QED
  BY Zenon, <1>1, <1>5, Stays

\* The handler of a session returns.
LEMMA SrvEndStep ==
  ASSUME Inv, NEW s \in Sessions, SrvEnd(s)
  PROVE  Inv'
<1>1. /\ UNCHANGED <<cphase, csess, s2c, conn, spent>>
      /\ sphase' = [sphase EXCEPT ![s] = "ended"] /\ c2s' = [c2s EXCEPT ![s] = <<>>]
      /\ sphase[s] \in {"hello", "tree", "live", "init", "diff", "stream"}
  BY Zenon DEF SrvEnd, Goto, cli, hist
<1>2. Counted
  BY Zenon, <1>1, SameCounted
<1>3. /\ sphase' \in [Sessions -> ServerPhases] /\ c2s' = [x \in Sessions |-> c2s'[x]]
      /\ conn' \in [Sessions -> {"none", "open", "closed"}]
  BY Zenon, <1>1 DEF Inv, Typed, ServerPhases
<1>4. /\ \A x \in Sessions \ {s} : sphase'[x] = sphase[x] /\ c2s'[x] = c2s[x]
      /\ sphase'[s] = "ended" /\ c2s'[s] = <<>> /\ sphase[s] # "none"
  BY Zenon, <1>1 DEF Inv, Typed
<1>5. IsSeq(<<>>)
  BY Zenon, ShortSeq
<1>6. \A x \in Sessions :
        \/ sphase'[x] = sphase[x] /\ c2s'[x] = c2s[x]
        \/ /\ sphase'[x] \in {"none", "ended"} /\ IsSeq(c2s'[x])
           /\ sphase'[x] = "none" <=> sphase[x] = "none"
  BY Zenon, <1>4, <1>5
<1> QED
  BY Zenon, <1>1, <1>2, <1>3, <1>6, EndStep

\* The server stops or crashes.
LEMMA ServerDiesStep ==
  ASSUME Inv, ServerDies, Counted
  PROVE  Inv'
<1>1. /\ UNCHANGED <<cphase, csess, s2c>>
      /\ sphase' = [s \in Sessions |-> IF s \in Registered THEN "ended" ELSE sphase[s]]
      /\ c2s' = [s \in Sessions |-> <<>>]
      /\ conn' = [s \in Sessions |-> IF conn[s] = "open" THEN "closed" ELSE conn[s]]
  BY Zenon DEF ServerDies, cli
<1>2. IsSeq(<<>>)
  BY Zenon, ShortSeq
<1>3. /\ sphase' \in [Sessions -> ServerPhases] /\ c2s' = [x \in Sessions |-> c2s'[x]]
      /\ conn' \in [Sessions -> {"none", "open", "closed"}]
      /\ \A x \in Sessions : conn'[x] = "open" => conn[x] = "open"
  BY Zenon, <1>1 DEF Inv, Typed, ServerPhases
<1>4. \A x \in Sessions : /\ sphase'[x] \in {"none", "ended"} /\ IsSeq(c2s'[x])
                          /\ sphase'[x] = "none" <=> sphase[x] = "none"
  BY Zenon, <1>1, <1>2 DEF Registered
<1> QED
  BY Zenon, <1>1, <1>3, <1>4, EndStep

-----------------------------------------------------------------------------
(* The actions of a client.                                                *)

\* The connection of a client that has one.
LEMMA ConnectedSession ==
  ASSUME Inv, NEW c \in Clients, cphase[c] \notin {"start", "dial"}
  PROVE  csess[c] \in Sessions
BY DEF Inv, Typed, Numbered, Connected

\* A read from the server, spending nothing.
LEMMA ReceivesMild ==
  ASSUME Inv, NEW c \in Clients, NEW phase, phase \notin {"start", "dial"},
         Receives(c, phase), UNCHANGED spent
  PROVE  Mild
BY Zenon, ConnectedSession, SameCounted, MildReceive DEF Receives

\* The initial synchronisation, from the server's tree on.
LEMMA InitialSteps ==
  ASSUME Inv, NEW c \in Clients,
         CliTree(c) \/ CliApply(c) \/ CliData(c) \/ CliUploaded(c) \/ CliLive(c)
  PROVE  Inv'
<1> USE DEF ClientPhases
<1>1. CASE CliTree(c)
  <2>1. /\ Receives(c, "tree") /\ UNCHANGED <<sphase, csess, conn, c2s, spent>>
        /\ cphase[c] = "tree"
        /\ \E phase \in {"apply", "live"} : cphase' = [cphase EXCEPT ![c] = phase]
    BY Zenon, <1>1 DEF CliTree, Enter, Receives, srv, hist
  <2>2. Mild
    BY Zenon, <2>1, ReceivesMild
  <2>3. \A phase \in {"apply", "live"} : AlikeOnClient(cphase[c], phase)
    BY Zenon, <2>1 DEF AlikeOnClient, Offline
  <2> QED
    BY Zenon, <2>1, <2>2, <2>3, ClientMoves
<1>2. CASE CliApply(c)
  <2>1. /\ Receives(c, "apply") /\ UNCHANGED <<sphase, csess, conn, c2s, spent>>
        /\ cphase[c] = "apply" /\ cphase' = [cphase EXCEPT ![c] = "data"]
    BY Zenon, <1>2 DEF CliApply, Enter, Receives, srv, hist
  <2>2. Mild
    BY Zenon, <2>1, ReceivesMild
  <2>3. AlikeOnClient(cphase[c], "data")
    BY Zenon, <2>1 DEF AlikeOnClient, Offline
  <2> QED
    BY Zenon, <2>1, <2>2, <2>3, ClientMoves
<1>3. CASE CliData(c)
  <2>1. /\ Receives(c, "data") /\ UNCHANGED <<sphase, csess, conn, c2s, spent>>
        /\ cphase[c] = "data"
        /\ cphase' = [cphase EXCEPT ![c] = "upload"] \/ UNCHANGED cphase
    BY Zenon, <1>3 DEF CliData, Enter, Receives, srv, hist
  <2>2. Mild
    BY Zenon, <2>1, ReceivesMild
  <2>3. AlikeOnClient(cphase[c], "upload")
    BY Zenon, <2>1 DEF AlikeOnClient, Offline
  <2> QED
    BY Zenon, <2>1, <2>2, <2>3, ClientMoves, Stays
<1>4. CASE CliUploaded(c)
  <2>1. /\ UNCHANGED <<sphase, csess, conn, c2s, s2c, spent>>
        /\ cphase[c] = "upload" /\ cphase' = [cphase EXCEPT ![c] = "forget"]
    BY Zenon, <1>4 DEF CliUploaded, Enter, srv, net, hist
  <2>2. Mild
    BY Zenon, <2>1, SameCounted, MildSame
  <2>3. AlikeOnClient(cphase[c], "forget")
    BY Zenon, <2>1 DEF AlikeOnClient, Offline
  <2> QED
    BY Zenon, <2>1, <2>2, <2>3, ClientMoves
<1>5. CASE CliLive(c)
  <2>1. /\ UNCHANGED <<sphase, csess, conn, c2s, s2c, spent>>
        /\ cphase[c] = "forget" /\ cphase' = [cphase EXCEPT ![c] = "live"]
    BY Zenon, <1>5 DEF CliLive, Enter, srv, net, hist
  <2>2. Mild
    BY Zenon, <2>1, SameCounted, MildSame
  <2>3. AlikeOnClient(cphase[c], "live")
    BY Zenon, <2>1 DEF AlikeOnClient, Offline
  <2> QED
    BY Zenon, <2>1, <2>2, <2>3, ClientMoves
<1> QED
  BY Zenon, <1>1, <1>2, <1>3, <1>4, <1>5

\* A client starts over.
LEMMA CliStartStep ==
  ASSUME Inv, NEW c \in Clients, CliStart(c)
  PROVE  Inv'
<1>1. /\ UNCHANGED <<sphase, csess, conn, c2s, s2c, spent>>
      /\ cphase[c] = "start" /\ cphase' = [cphase EXCEPT ![c] = "dial"]
  BY Zenon DEF CliStart, Enter, srv, net, hist
<1>2. Mild
  BY Zenon, <1>1, SameCounted, MildSame
<1>3. AlikeOnClient(cphase[c], "dial") /\ "dial" \in ClientPhases
  BY Zenon, <1>1 DEF AlikeOnClient, Offline, ClientPhases
<1> QED
  BY Zenon, <1>1, <1>2, <1>3, ClientMoves

\* Messages of a live session.
LEMMA LiveMessageSteps ==
  ASSUME Inv, NEW c \in Clients,
         \/ CliFileModify(c) \/ CliFileData(c) \/ CliFileDelete(c) \/ CliSyncApply(c)
         \/ CliOther(c)
  PROVE  Inv'
<1>1. \E types : LiveMsg(c, types)
  BY Zenon DEF CliFileModify, CliFileData, CliFileDelete, CliSyncApply, CliOther
<1>2. Receives(c, "live") /\ UNCHANGED <<sphase, cphase, csess, conn, c2s, spent>>
  BY Zenon, <1>1 DEF LiveMsg, srv, cli, hist
<1>3. Mild
  BY Zenon, <1>2, ReceivesMild
<1> QED
  BY Zenon, <1>2, <1>3, Stays

\* A client sends its tree when HELLO_ACK has come.
LEMMA CliHelloAckStep ==
  ASSUME Inv, NEW c \in Clients, CliHelloAck(c)
  PROVE  Inv'
<1> DEFINE m == SyncInit(eng[c].local)
<1>1. /\ Receives(c, "ack") /\ UNCHANGED <<sphase, csess, conn, spent>>
      /\ cphase[c] = "ack" /\ cphase' = [cphase EXCEPT ![c] = "tree"]
      /\ c2s' = Send(c2s, csess[c], <<m>>)
      /\ s2c[csess[c]] # <<>> /\ Head(s2c[csess[c]]) = HelloAck
  BY Zenon DEF CliHelloAck, Receives, Enter, Msg, srv, hist
<1>2. m.type = "SYNC_INIT"
  BY Zenon DEF SyncInit
<1> HIDE DEF m
<1>3. IsSeq(<<m>>) /\ <<m>> # <<>> /\ InitThenFiles(<<m>>)
  BY Zenon, <1>2, ShortSeq DEF InitThenFiles
<1>4. Mild /\ csess[c] \in Sessions /\ Connected(c)
  BY Zenon, <1>1, ReceivesMild, ConnectedSession DEF Connected
<1>5. ~ NoHelloAck(s2c[csess[c]])
  <2>1. IsSeq(s2c[csess[c]])
    BY Zenon, <1>4 DEF Inv, Typed
  <2>2. 1 \in DOMAIN s2c[csess[c]] /\ s2c[csess[c]][1] = HelloAck
    BY <1>1, <2>1, SeqDomain
  <2> QED
    BY Zenon, <2>2 DEF NoHelloAck
<1>6. "tree" \in ClientPhases /\ "tree" \notin Offline \cup {"ack"}
  BY Zenon DEF ClientPhases, Offline
<1> QED
  BY Zenon, <1>1, <1>3, <1>4, <1>5, <1>6, SendStep

\* After its tree a client sends messages about files.
LEMMA UploadSteps ==
  ASSUME Inv, NEW c \in Clients, CliUpload(c) \/ \E p \in Paths : CliEvent(c, p)
  PROVE  Inv'
<1>1. /\ UNCHANGED <<sphase, cphase, csess, conn, s2c, spent>>
      /\ cphase[c] \in {"upload", "forget", "live"}
      /\ UNCHANGED c2s \/ \E ch : c2s' = Send(c2s, csess[c], Messages(c, ch))
  BY Zenon DEF CliUpload, CliEvent, srv, cli, hist
<1>2. Mild
  BY Zenon, <1>1, SameCounted, MildSame
<1>3. CASE UNCHANGED c2s
  BY Zenon, <1>1, <1>2, <1>3, Stays
<1>4. ASSUME NEW ch, c2s' = Send(c2s, csess[c], Messages(c, ch)) PROVE Inv'
  <2>1. IsSeq(Messages(c, ch)) /\ AllFiles(Messages(c, ch))
    BY Zenon, MessagesFiles
  <2>2. Messages(c, ch) # <<>>
    <3>1. \A m, d, p, e : <<m>> \o Content(d, p, e) # <<>>
      BY SMTT(30), ShortSeq, ContentFiles, ConcatSeq, SeqDomain
    <3> QED
      BY SMTT(30), <3>1, ShortSeq DEF Messages
  <2>3. /\ cphase' = [cphase EXCEPT ![c] = cphase[c]] /\ cphase[c] \in ClientPhases
        /\ cphase[c] \notin Offline \cup {"ack"} /\ Connected(c)
    BY Zenon, <1>1 DEF Inv, Typed, Offline, Connected
  <2> QED
    BY Zenon, <1>1, <1>2, <1>4, <2>1, <2>2, <2>3, SendStep
<1> QED
  BY Zenon, <1>1, <1>3, <1>4

\* A client closes its connection.
LEMMA DisconnectStep ==
  ASSUME Inv, NEW c \in Clients, cphase[c] \notin {"start", "dial"}, Counted,
         Enter(c, "start"), Disconnect(c), UNCHANGED <<sphase, csess, c2s>>
  PROVE  Inv'
<1>1. /\ cphase' = [cphase EXCEPT ![c] = "start"]
      /\ conn' = [conn EXCEPT ![csess[c]] = "closed"]
      /\ s2c' = [s2c EXCEPT ![csess[c]] = <<>>]
  BY Zenon DEF Enter, Disconnect
<1>2. csess[c] \in Sessions
  BY Zenon, ConnectedSession
<1>3. /\ cphase' \in [Clients -> ClientPhases]
      /\ \A d \in Clients : cphase'[d] = cphase[d] \/ cphase'[d] = "start"
  BY Zenon, <1>1 DEF Inv, Typed, ClientPhases
<1>4. /\ conn' \in [Sessions -> {"none", "open", "closed"}]
      /\ \A x \in Sessions : conn'[x] = "open" => conn[x] = "open" /\ c2s'[x] = c2s[x]
      /\ c2s' = [x \in Sessions |-> c2s'[x]] /\ s2c' = [x \in Sessions |-> s2c'[x]]
  BY Zenon, <1>1, <1>2 DEF Inv, Typed
<1>5. ASSUME NEW x \in Sessions
      PROVE  c2s'[x] \in Prefixes(c2s[x]) /\ s2c'[x] \in Prefixes(s2c[x])
  <2>1. IsSeq(c2s[x]) /\ IsSeq(s2c[x])
    BY Zenon DEF Inv, Typed
  <2>2. s2c'[x] = s2c[x] \/ s2c'[x] = <<>>
    BY Zenon, <1>1 DEF Inv, Typed
  <2> QED
    BY Zenon, <2>1, <2>2, PrefixCases
<1> QED
  BY Zenon, <1>3, <1>4, <1>5, CutStep

\* A failed handshake, a lost connection, a killed client.
LEMMA EndSessionSteps ==
  ASSUME Inv, NEW c \in Clients, CliHandshakeFails(c) \/ CliLost(c) \/ CliCrash(c)
  PROVE  Inv'
<1>1. CASE CliHandshakeFails(c) \/ CliLost(c)
  <2>1. EndSession(c) /\ cphase[c] \notin {"start", "dial"}
    BY Zenon, <1>1 DEF CliHandshakeFails, CliLost
  <2>2. /\ Enter(c, "start") /\ Disconnect(c) /\ UNCHANGED <<sphase, csess, c2s, spent>>
    BY Zenon, <2>1 DEF EndSession, srv, hist
  <2> QED
    BY Zenon, <2>1, <2>2, SameCounted, DisconnectStep
<1>2. CASE CliCrash(c)
  <2>1. /\ Enter(c, "start") /\ Disconnect(c) /\ UNCHANGED <<sphase, csess, c2s>>
        /\ Spend("crash") /\ cphase[c] \notin {"start", "dial"}
    BY Zenon, <1>2 DEF CliCrash, Connected, srv
  <2> QED
    BY Zenon, <2>1, SpendCounted, DisconnectStep
<1> QED
  BY Zenon, <1>1, <1>2

-----------------------------------------------------------------------------
(* The network, the users and the theorem.                                 *)

\* A connection is lost with the end of what was under way.
LEMMA DropStep ==
  ASSUME Inv, NEW s \in Sessions, Drop(s)
  PROVE  Inv'
<1>1. /\ UNCHANGED <<sphase, csess, cphase>> /\ Spend("drop")
      /\ conn' = [conn EXCEPT ![s] = "closed"]
  BY Zenon DEF Drop, srv, cli
<1>2. PICK q \in Prefixes(c2s[s]) : c2s' = [c2s EXCEPT ![s] = q]
  BY Zenon DEF Drop
<1>3. PICK r \in Prefixes(s2c[s]) : s2c' = [s2c EXCEPT ![s] = r]
  BY Zenon DEF Drop
<1>4. Counted
  BY Zenon, <1>1, SpendCounted
<1>5. /\ cphase' \in [Clients -> ClientPhases]
      /\ conn' \in [Sessions -> {"none", "open", "closed"}]
      /\ \A x \in Sessions : conn'[x] = "open" => conn[x] = "open" /\ c2s'[x] = c2s[x]
      /\ c2s' = [x \in Sessions |-> c2s'[x]] /\ s2c' = [x \in Sessions |-> s2c'[x]]
  BY Zenon, <1>1, <1>2, <1>3 DEF Inv, Typed
<1>6. ASSUME NEW x \in Sessions
      PROVE  c2s'[x] \in Prefixes(c2s[x]) /\ s2c'[x] \in Prefixes(s2c[x])
  <2>1. IsSeq(c2s[x]) /\ IsSeq(s2c[x])
    BY Zenon DEF Inv, Typed
  <2>2. /\ x = s => c2s'[x] = q /\ s2c'[x] = r
        /\ x # s => c2s'[x] = c2s[x] /\ s2c'[x] = s2c[x]
    BY Zenon, <1>2, <1>3 DEF Inv, Typed
  <2> QED
    BY Zenon, <1>2, <1>3, <2>1, <2>2, PrefixCases
<1> QED
  BY Zenon, <1>1, <1>4, <1>5, <1>6, CutStep

\* Users, expiring ignore windows and the start of the server touch no queue.
LEMMA UserSteps ==
  ASSUME Inv,
         \/ \E h \in Hosts, p \in Paths : IgnoreExpires(h, p) \/ UserStep(h, p)
         \/ ServerStart
         \/ UNCHANGED vars
  PROVE  Inv'
<1> DEFINE Rest == /\ UNCHANGED <<sphase, cphase, csess, conn, c2s, s2c>>
                   /\ UNCHANGED spent \/ Spend("edit")
<1>1. Rest
  <2>1. ASSUME NEW h \in Hosts, NEW p \in Paths, IgnoreExpires(h, p) PROVE Rest
    BY Zenon, <2>1 DEF IgnoreExpires, srv, cli, net, hist
  <2>2. ASSUME NEW h \in Hosts, NEW p \in Paths, UserMkdir(h, p) PROVE Rest
    BY Zenon, <2>2 DEF UserMkdir, Edit, srv, cli, net
  <2>3. ASSUME NEW h \in Hosts, NEW p \in Paths, UserDelete(h, p) PROVE Rest
    BY Zenon, <2>3 DEF UserDelete, Edit, srv, cli, net
  <2>4. ASSUME NEW h \in Hosts, NEW p \in Paths, NEW n \in Sizes, UserWrite(h, p, n)
        PROVE  Rest
    BY Zenon, <2>4 DEF UserWrite, Edit, srv, cli, net
  <2>5. CASE ServerStart
    BY Zenon, <2>5 DEF ServerStart, cli, net, hist
  <2>6. CASE UNCHANGED vars
    BY Zenon, <2>6 DEF vars, srv, cli, net, hist
  <2> QED
    BY Zenon, <2>1, <2>2, <2>3, <2>4, <2>5, <2>6 DEF UserStep
<1>2. Mild
  BY Zenon, <1>1, SameCounted, SpendCounted, MildSame
<1> QED
  BY Zenon, <1>1, <1>2, Stays

\* When the programs are first started, nothing is connected.
LEMMA InitInv == Init => Inv
<1> SUFFICES ASSUME Init PROVE Inv
  BY Zenon
<1>1. IsSeq(<<>>) /\ DOMAIN <<>> = {}
  BY Zenon, ShortSeq
<1>2. Typed
  <2>2. spent \in [DOMAIN Limit -> Nat]
    BY Zenon DEF Init
  <2>3. sphase \in [Sessions -> ServerPhases] /\ cphase \in [Clients -> ClientPhases]
    BY Zenon DEF Init, ServerPhases, ClientPhases
  <2>4. /\ csess \in [Clients -> Sessions \cup {0}]
        /\ conn \in [Sessions -> {"none", "open", "closed"}]
    BY Zenon DEF Init
  <2>5. c2s = [s \in Sessions |-> <<>>] /\ s2c = [s \in Sessions |-> <<>>]
    BY Zenon DEF Init
  <2>6. /\ c2s = [s \in Sessions |-> c2s[s]] /\ \A s \in Sessions : IsSeq(c2s[s])
        /\ s2c = [s \in Sessions |-> s2c[s]] /\ \A s \in Sessions : IsSeq(s2c[s])
    BY Zenon, <1>1, <2>5
  <2> QED
    BY Zenon, <2>2, <2>3, <2>4, <2>6 DEF Typed
<1>3. spent["connect"] = 0
  BY Zenon, FileSyncAssumption DEF Init
<1>4. Numbered
  BY SMTT(30), <1>3 DEF Init, Numbered, Connected
<1>5. ASSUME NEW s \in Sessions PROVE QueueInv(s)
  BY Zenon, <1>1 DEF Init, QueueInv, NoHelloAck, Greets, AwaitsTree, Synced
<1>6. ASSUME NEW c \in Clients PROVE OwnerInv(c)
  BY Zenon DEF Init, OwnerInv, Connected
<1> QED
  BY Zenon, <1>2, <1>4, <1>5, <1>6 DEF Inv

\* Every step keeps the invariant.
LEMMA StepInv == Inv /\ [Next]_vars => Inv'
<1> SUFFICES ASSUME Inv, [Next]_vars PROVE Inv'
  BY Zenon
<1>1. ASSUME NEW s \in Sessions, SrvStep(s) PROVE Inv'
  BY Zenon, <1>1, HandshakeSteps, LiveSteps, SrvEndStep DEF SrvStep
<1>2. ASSUME NEW s \in Sessions, Tick(s) \/ Drop(s) PROVE Inv'
  BY Zenon, <1>2, TickStep, DropStep
<1>3. ASSUME NEW c \in Clients, CliStep(c) PROVE Inv'
  BY Zenon, <1>3, CliStartStep, ConnectStep, CliHelloAckStep, EndSessionSteps, InitialSteps,
     UploadSteps, LiveMessageSteps DEF CliStep
<1>4. ASSUME NEW c \in Clients, CliCrash(c) PROVE Inv'
  BY Zenon, <1>4, EndSessionSteps
<1>5. ASSUME NEW p \in Paths, SrvEvent(p) \/ \E c \in Clients : CliEvent(c, p) PROVE Inv'
  BY Zenon, <1>5, SrvEventStep, UploadSteps
<1>6. CASE ServerStop \/ ServerCrash
  <2>1. Counted /\ ServerDies
    BY Zenon, <1>6, SpendCounted DEF ServerStop, ServerCrash
  <2> QED
    BY Zenon, <2>1, ServerDiesStep
<1>7. CASE \/ \E h \in Hosts, p \in Paths : IgnoreExpires(h, p) \/ UserStep(h, p)
           \/ ServerStart \/ UNCHANGED vars
  BY Zenon, <1>7, UserSteps
<1> QED
  BY Zenon, <1>1, <1>2, <1>3, <1>4, <1>5, <1>6, <1>7 DEF Next

\* What is under way on a connection starts with the message its handler
\* waits for.
LEMMA InvInOrder == Inv => ServerReadsInOrder
<1> SUFFICES ASSUME Inv, NEW s \in Registered, c2s[s] # <<>>
             PROVE  Head(c2s[s]).type \in
                      IF sphase[s] \in {"new", "hello"} THEN {"HELLO"}
                      ELSE IF sphase[s] \in {"init", "tree"} THEN {"SYNC_INIT"} ELSE FileMessages
  BY Zenon DEF ServerReadsInOrder
<1>1. /\ s \in Sessions /\ sphase[s] \in ServerPhases
      /\ sphase[s] \notin {"none", "ended"} /\ QueueInv(s) /\ IsSeq(c2s[s])
  BY Zenon DEF Inv, Typed, Registered
<1>2. 1 \in DOMAIN c2s[s] /\ Head(c2s[s]) = c2s[s][1]
  BY SMTT(30), <1>1, SeqDomain
<1>3. CASE sphase[s] \in Greets
  <2>1. Head(c2s[s]) = Hello
    BY Zenon, <1>1, <1>3, ShortSeq DEF QueueInv
  <2> QED
    BY SMTT(30), <1>3, <2>1 DEF Greets, Hello
<1>4. CASE sphase[s] \in AwaitsTree
  BY Zenon, <1>1, <1>2, <1>4 DEF QueueInv, InitThenFiles, AwaitsTree
<1>5. CASE sphase[s] \in Synced
  BY Zenon, <1>1, <1>2, <1>5 DEF QueueInv, AllFiles, Synced
<1> QED
  BY Zenon, <1>1, <1>3, <1>4, <1>5 DEF ServerPhases, Greets, AwaitsTree, Synced

\* Whatever is lost, crashes or is broadcast, the handler of a session reads
\* HELLO, then the client's tree, then changes of files: the branches of
\* handleClient for a wrong first or second message are never taken.
THEOREM ReadsInOrder == Spec => []ServerReadsInOrder
<1>1. Spec => []Inv
  BY InitInv, StepInv, PTL DEF Spec
<1> QED
  BY <1>1, InvInOrder, PTL

-----------------------------------------------------------------------------
(* Type correctness: trees, engines and directories.                       *)

\* Every content has a hash.
Hashed == Seq(Nat) \subseteq Hashes

\* FileTree.Set adds one path to a tree and keeps it a tree.
LEMMA TreeSetTree ==
  ASSUME NEW t, IsTree(t), NEW p \in Paths, NEW e \in Entries
  PROVE  IsTree(TreeSet(t, p, e))
BY Zenon DEF IsTree, TreeSet

\* FileTree.Remove takes one path out of a tree and keeps it a tree.
LEMMA TreeRemoveTree ==
  ASSUME NEW t, IsTree(t), NEW p
  PROVE  IsTree(TreeRemove(t, p))
BY Zenon DEF IsTree, TreeRemove

\* Writing an inode at a path keeps a directory a directory.
LEMMA PutDisk ==
  ASSUME NEW d, IsDisk(d), NEW p \in Paths, NEW i \in Inodes
  PROVE  IsDisk(Put(d, p, i)) /\ Put(d, p, i)[p] = i
BY Zenon DEF IsDisk, Put, TreeSet

\* DeleteEntry of a path keeps a directory a directory.
LEMMA DeleteEntryDisk ==
  ASSUME NEW d, IsDisk(d), NEW p
  PROVE  IsDisk(DeleteEntry(d, p))
BY Zenon DEF IsDisk, DeleteEntry, TreeRemove

\* What a path of a directory holds, field by field.
LEMMA InodeFields ==
  ASSUME NEW d, IsDisk(d), NEW p \in DOMAIN d
  PROVE  /\ p \in Paths /\ d[p] \in Inodes
         /\ d[p].type \in {"file", "dir"} /\ d[p].data \in Seq(Nat)
         /\ d[p].mtime \in Nat /\ d[p].mode \in Modes
<1>1. p \in Paths /\ d[p] \in Inodes
  BY Zenon DEF IsDisk
<1> QED
  BY Zenon, <1>1 DEF Inodes

\* buildFileEntry of a path that exists returns an entry.
LEMMA BuildEntryType ==
  ASSUME Hashed, NEW d, IsDisk(d), NEW p \in DOMAIN d
  PROVE  BuildEntry(d[p]) \in Entries
<1>1. d[p].data \in Hashes
  BY Zenon, InodeFields DEF Hashed
<1> QED
  BY Zenon, <1>1, InodeFields DEF BuildEntry, Entries, EntryTypes

\* WalkDirectory returns a tree.
LEMMA WalkDirectoryTree ==
  ASSUME Hashed, NEW d, IsDisk(d)
  PROVE  IsTree(WalkDirectory(d))
<1>1. \A p \in DOMAIN d : p \in Paths /\ BuildEntry(d[p]) \in Entries
  BY Zenon, BuildEntryType, InodeFields
<1> QED
  BY Zenon, <1>1 DEF WalkDirectory, IsTree

\* Each setter of the engine changes one field and keeps the others.
LEMMA EngineSetters ==
  ASSUME NEW e, IsEngine(e), NEW t, IsTree(t), NEW S \in SUBSET Paths
  PROVE  /\ IsEngine([e EXCEPT !.remote = t]) /\ IsEngine([e EXCEPT !.local = t])
         /\ IsEngine([e EXCEPT !.tomb = S]) /\ IsEngine([e EXCEPT !.prev = S])
<1>1. PICK l, r, d, k : e = [local |-> l, remote |-> r, tomb |-> d, prev |-> k]
  BY Zenon DEF IsEngine
<1>2. /\ [e EXCEPT !.remote = t] = [local |-> l, remote |-> t, tomb |-> d, prev |-> k]
      /\ [e EXCEPT !.local = t] = [local |-> t, remote |-> r, tomb |-> d, prev |-> k]
  BY <1>1
<1>3. /\ [e EXCEPT !.tomb = S] = [local |-> l, remote |-> r, tomb |-> S, prev |-> k]
      /\ [e EXCEPT !.prev = S] = [local |-> l, remote |-> r, tomb |-> d, prev |-> S]
  BY <1>1
<1>4. IsTree(l) /\ IsTree(r) /\ d \in SUBSET Paths /\ k \in SUBSET Paths
  BY Zenon, <1>1 DEF IsEngine
<1> QED
  BY Zenon, <1>2, <1>3, <1>4 DEF IsEngine

\* The fields of an engine, and what SaveTombstones writes of them.
LEMMA EngineFields ==
  ASSUME NEW e, IsEngine(e)
  PROVE  /\ IsTree(e.local) /\ IsTree(e.remote)
         /\ e.tomb \in SUBSET Paths /\ e.prev \in SUBSET Paths
         /\ TombstoneLines(e) \in TombstoneFiles
BY Zenon DEF IsEngine, TombstoneLines, TombstoneFiles

\* NewEngine, which loads the tombstone file, returns an engine.
LEMMA NewEngineType ==
  ASSUME NEW f \in TombstoneFiles
  PROVE  IsEngine(NewEngine(f))
<1>1. IsTree(EmptyTree)
  BY Zenon DEF IsTree, EmptyTree
<1>2. LoadedPaths(f.D) \in SUBSET Paths /\ LoadedPaths(f.K) \in SUBSET Paths
  BY FileSyncAssumption DEF LoadedPaths, TombstoneFiles
<1> QED
  BY Zenon, <1>1, <1>2 DEF NewEngine, IsEngine

\* ScanLocal, which puts the directory into the engine, keeps it an engine.
LEMMA ScanLocalType ==
  ASSUME Hashed, NEW e, IsEngine(e), NEW d, IsDisk(d)
  PROVE  IsEngine(ScanLocal(e, d))
<1> DEFINE T == WalkDirectory(d)
<1>1. IsTree(T) /\ DOMAIN T \in SUBSET Paths
  BY Zenon, WalkDirectoryTree DEF IsTree
<1> HIDE DEF T
<1>2. IsEngine(CommitScan(e, T))
  BY Zenon, <1>1 DEF CommitScan, IsEngine
<1> QED
  BY Zenon, <1>2 DEF ScanLocal, T

\* The methods that the handlers call for a path keep an engine an engine.
LEMMA EngineMethods ==
  ASSUME NEW e, IsEngine(e), NEW p \in Paths
  PROVE  /\ IsEngine(RemoteRemove(e, p)) /\ IsEngine(LocalRemove(e, p))
         /\ IsEngine(AddTombstone(e, p)) /\ IsEngine(ClearTombstone(e, p))
         /\ \A x \in Entries : IsEngine(RemoteSet(e, p, x))
<1>1. /\ IsTree(TreeRemove(e.remote, p)) /\ IsTree(TreeRemove(e.local, p))
      /\ \A x \in Entries : IsTree(TreeSet(e.remote, p, x))
  BY Zenon, EngineFields, TreeRemoveTree, TreeSetTree
<1>2. /\ e.tomb \cup {p} \in SUBSET Paths /\ e.tomb \ {p} \in SUBSET Paths
  BY Zenon, EngineFields
<1>3. /\ IsEngine(RemoteRemove(e, p)) /\ IsEngine(LocalRemove(e, p))
      /\ \A x \in Entries : IsEngine(RemoteSet(e, p, x))
  BY Zenon, <1>1, <1>2, EngineSetters DEF RemoteRemove, LocalRemove, RemoteSet
<1>4. IsEngine(AddTombstone(e, p)) /\ IsEngine(ClearTombstone(e, p))
  BY Zenon, <1>1, <1>2, EngineSetters DEF AddTombstone, ClearTombstone
<1> QED
  BY Zenon, <1>3, <1>4

\* ClearTombstones keeps an engine an engine.
LEMMA ClearTombstonesType ==
  ASSUME NEW e, IsEngine(e)
  PROVE  IsEngine(ClearTombstones(e))
<1>1. IsTree(e.local) /\ {} \in SUBSET Paths
  BY Zenon, EngineFields
<1> QED
  BY Zenon, <1>1, EngineSetters DEF ClearTombstones

\* SYNC_INIT: taking the other side's tree keeps an engine an engine.
LEMMA RemoteTreeType ==
  ASSUME NEW e, IsEngine(e), NEW t, IsTree(t)
  PROVE  /\ IsEngine(SetRemoteTree(e, t))
         /\ IsEngine(AddToPreviousPaths(SetRemoteTree(e, t), DOMAIN t))
<1> DEFINE n == SetRemoteTree(e, t)
<1>1. IsEngine(n)
  BY Zenon, EngineSetters DEF SetRemoteTree
<1>2. n.prev \cup DOMAIN t \in SUBSET Paths
  BY Zenon, <1>1, EngineFields DEF IsTree
<1> HIDE DEF n
<1>3. IsEngine(AddToPreviousPaths(n, DOMAIN t))
  BY Zenon, <1>1, <1>2, EngineSetters DEF AddToPreviousPaths
<1> QED
  BY Zenon, <1>1, <1>3 DEF n

-----------------------------------------------------------------------------
(* File operations.                                                        *)

IsOp(op) ==
  /\ op.path \in Paths
  /\ op.type \in {"createDir", "createFile", "setAttrs", "delete"}
  /\ op.type # "delete" => op.entry \in Entries

IsChange(ch) ==
  /\ ch.path \in Paths
  /\ ch.type \in {"create", "modify", "delete"}
  /\ ch.type # "delete" => ch.entry \in Entries

\* os.Create, os.MkdirAll and ApplyAttrs keep a directory a directory.
LEMMA WriteOps ==
  ASSUME NEW d, IsDisk(d), NEW p \in Paths, NEW e \in Entries, NEW t \in Nat
  PROVE  /\ IsDisk(CreateFile(d, p, e)) /\ CreateFile(d, p, e)[p] \in Inodes
         /\ IsDisk(Mkdir(d, p, e, t)) /\ Mkdir(d, p, e, t)[p] \in Inodes
         /\ p \in DOMAIN d => IsDisk(ApplyAttrs(d, p, e)) /\ ApplyAttrs(d, p, e)[p] \in Inodes
<1>1. e.mtime \in Nat /\ e.mode \in Modes /\ <<>> \in Seq(Nat)
  BY DEF Entries
<1>2. /\ [type |-> "file", data |-> <<>>, mtime |-> e.mtime, mode |-> e.mode] \in Inodes
      /\ [type |-> "dir", data |-> <<>>, mtime |-> t, mode |-> e.mode] \in Inodes
  BY Zenon, <1>1 DEF Inodes
<1>3. IsDisk(CreateFile(d, p, e)) /\ CreateFile(d, p, e)[p] \in Inodes
  BY ZenonT(30), <1>2, PutDisk DEF CreateFile
<1>4. IsDisk(Mkdir(d, p, e, t)) /\ Mkdir(d, p, e, t)[p] \in Inodes
  BY <1>2, PutDisk, InodeFields DEF Mkdir
<1>5. ASSUME p \in DOMAIN d
      PROVE  IsDisk(ApplyAttrs(d, p, e)) /\ ApplyAttrs(d, p, e)[p] \in Inodes
  <2>1. d[p] \in Inodes
    BY Zenon, <1>5, InodeFields
  <2>2. [d[p] EXCEPT !.mtime = e.mtime, !.mode = e.mode] \in Inodes
    BY Zenon, <1>1, <2>1 DEF Inodes
  <2> QED
    BY ZenonT(30), <2>2, PutDisk DEF ApplyAttrs
<1> QED
  BY Zenon, <1>3, <1>4, <1>5

\* WriteAt of a chunk leaves a file's content a sequence of blocks.
LEMMA OverlayType ==
  ASSUME NEW old \in Seq(Nat), NEW new \in Seq(Nat)
  PROVE  Overlay(old, new) \in Seq(Nat)
<1> DEFINE m == Len(new) + 1
           n == Len(old)
<1>1. m \in Int /\ n \in Int /\ m >= 1
  OBVIOUS
<1>2. \A i \in m .. n : old[i] \in Nat
  BY <1>1
<1> HIDE DEF m, n
<1>3. SubSeq(old, m, n) \in Seq(Nat)
  BY Zenon, <1>1, <1>2, SubSeqProperties
<1>4. new \o SubSeq(old, m, n) \in Seq(Nat)
  BY <1>3
<1> QED
  BY Zenon, <1>4 DEF Overlay, m, n

\* FILE_DATA, which creates or writes a file, keeps a directory a directory.
LEMMA WriteChunkAtDisk ==
  ASSUME NEW d, IsDisk(d), NEW p \in Paths, NEW data \in Seq(Nat), NEW t \in Nat
  PROVE  IsDisk(WriteChunkAt(d, p, data, t))
<1> DEFINE old == IF p \in DOMAIN d THEN d[p] ELSE File(<<>>, t)
           new == [old EXCEPT !.data  = Overlay(@, data),
                              !.mtime = IF data = <<>> THEN @ ELSE t]
<1>1. <<>> \in Seq(Nat) /\ FileMode \in Modes
  BY FileSyncAssumption
<1>2. File(<<>>, t) \in Inodes
  BY Zenon, <1>1 DEF File, Inodes
<1>3. old \in Inodes
  BY Zenon, <1>2, InodeFields
<1>4. WriteChunkAt(d, p, data, t) = Put(d, p, new)
  BY Zenon DEF WriteChunkAt
<1> HIDE DEF old
<1>5. old.data \in Seq(Nat) /\ old.mtime \in Nat
  BY Zenon, <1>3 DEF Inodes
<1>6. Overlay(old.data, data) \in Seq(Nat)
  BY Zenon, <1>5, OverlayType
<1>7. new \in Inodes
  BY Zenon, <1>3, <1>5, <1>6 DEF Inodes
<1> HIDE DEF new
<1> QED
  BY Zenon, <1>4, <1>7, PutDisk

\* ApplyChanges keeps a directory a directory, wherever it stops.
LEMMA AfterOpsDisk ==
  ASSUME NEW d, IsDisk(d), NEW ops, \A op \in ops : IsOp(op), NEW t \in Nat,
         NEW done \in AppliedOps(d, ops)
  PROVE  IsDisk(AfterOps(d, done, t))
<1> DEFINE opOf(p) == CHOOSE op \in done : op.path = p
           touched == {op.path : op \in done}
           gone    == {op.path : op \in {o \in done : o.type = "delete"}}
           after   == [p \in (DOMAIN d \cup touched) \ gone |->
                         IF p \in touched THEN applyOp(d, opOf(p), t)[p] ELSE d[p]]
<1>1. \A op \in done : IsOp(op) /\ ~applyOpFails(d, op)
  BY Zenon DEF AppliedOps
<1>2. ASSUME NEW op \in done, op.type # "delete"
      PROVE  applyOp(d, op, t)[op.path] \in Inodes
  <2>1. op.path \in Paths /\ op.entry \in Entries /\ ~applyOpFails(d, op)
    BY Zenon, <1>1, <1>2 DEF IsOp
  <2>2. CASE op.type = "createDir"
    BY Zenon, <2>1, <2>2, WriteOps DEF applyOp
  <2>3. CASE op.type = "createFile"
    BY Zenon, <2>1, <2>3, WriteOps DEF applyOp
  <2>4. CASE op.type = "setAttrs"
    <3>1. op.path \in DOMAIN d
      BY Zenon, <2>1, <2>4 DEF applyOpFails
    <3> QED
      BY Zenon, <2>1, <2>4, <3>1, WriteOps DEF applyOp
  <2> QED
    BY Zenon, <1>1, <1>2, <2>2, <2>3, <2>4 DEF IsOp
<1>3. ASSUME NEW p \in touched, p \notin gone
      PROVE  p \in Paths /\ applyOp(d, opOf(p), t)[p] \in Inodes
  <2>1. \E op \in done : op.path = p
    BY Zenon
  <2>2. opOf(p) \in done /\ opOf(p).path = p
    BY Zenon, <2>1
  <2>3. opOf(p).type # "delete"
    BY Zenon, <1>3, <2>2
  <2> HIDE DEF opOf
  <2> QED
    BY Zenon, <1>1, <1>2, <2>2, <2>3 DEF IsOp
<1>4. \A p \in DOMAIN d : p \in Paths /\ d[p] \in Inodes
  BY Zenon, InodeFields
<1>5. AfterOps(d, done, t) = after
  BY Zenon DEF AfterOps
<1> HIDE DEF opOf, touched, gone
<1>6. /\ DOMAIN after = (DOMAIN d \cup touched) \ gone
      /\ \A p \in DOMAIN after : p \in Paths /\ after[p] \in Inodes
      /\ after = [p \in DOMAIN after |-> after[p]]
  BY Zenon, <1>3, <1>4
<1> HIDE DEF after
<1> QED
  BY Zenon, <1>5, <1>6 DEF IsDisk

-----------------------------------------------------------------------------
(* Messages and what they carry.                                           *)

\* What a message carries is what its reader uses.
IsMessage(m) ==
  /\ m.type = "SYNC_INIT" => IsTree(m.tree)
  /\ m.type = "SYNC_APPLY" => \A op \in m.ops : IsOp(op)
  /\ m.type \in FileMessages => m.path \in Paths
  /\ m.type \in {"FILE_CREATE", "FILE_MODIFY"} => m.entry \in Entries
  /\ m.type = "FILE_DATA" => m.data \in Seq(Nat)

Carries(q, types) == \A i \in DOMAIN q : q[i].type \in types /\ IsMessage(q[i])

\* Messages that WriteMessage appends to others of the same kinds.
LEMMA CarriesConcat ==
  ASSUME NEW q, NEW r, NEW T, IsSeq(q), IsSeq(r), Carries(q, T), Carries(r, T)
  PROVE  Carries(q \o r, T)
BY ConcatSeq, SeqDomain DEF Carries

\* The first message of a connection, and those left when it is read.
LEMMA CarriesTail ==
  ASSUME NEW q, NEW T, IsSeq(q), q # <<>>, Carries(q, T)
  PROVE  Carries(Tail(q), T) /\ IsMessage(Head(q)) /\ Head(q).type \in T
BY TailSeq, SeqDomain DEF Carries

\* The messages that a lost connection still delivers.
LEMMA CarriesPrefix ==
  ASSUME NEW q, NEW T, IsSeq(q), Carries(q, T), NEW x \in Prefixes(q)
  PROVE  Carries(x, T)
BY Zenon, PrefixSeq DEF Carries

\* No message, and one.
LEMMA CarriesShort ==
  ASSUME NEW T
  PROVE  /\ Carries(<<>>, T)
         /\ \A m : IsMessage(m) /\ m.type \in T => Carries(<<m>>, T)
BY Zenon, ShortSeq DEF Carries

\* Diff and DiffInitial of two trees return changes.
LEMMA DiffChanges ==
  ASSUME NEW l, NEW r, IsTree(l), IsTree(r)
  PROVE  /\ \A ch \in DiffInitial(l, r) : IsChange(ch)
         /\ \A ch \in Diff(l, r) : IsChange(ch)
<1>1. \A p \in DOMAIN l : p \in Paths /\ l[p] \in Entries
  BY Zenon DEF IsTree
<1>2. \A p \in DOMAIN r : p \in Paths /\ r[p] \in Entries
  BY Zenon DEF IsTree
<1>3. \A ch \in Created(l, r) : IsChange(ch)
  BY <1>1 DEF Created, IsChange
<1>4. \A ch \in Modified(l, r) : IsChange(ch)
  BY <1>1, <1>2 DEF Modified, IsChange, pickWinner
<1>5. \A ch \in Deleted(DOMAIN r \ DOMAIN l) : IsChange(ch)
  BY <1>2 DEF Deleted, IsChange
<1> QED
  BY Zenon, <1>3, <1>4, <1>5 DEF DiffInitial, Diff

\* Deletions of paths are changes.
LEMMA DeletedChanges ==
  ASSUME NEW S \in SUBSET Paths
  PROVE  \A ch \in Deleted(S) : IsChange(ch)
BY DEF Deleted, IsChange

\* buildSyncOps turns changes into operations.
LEMMA SyncOpsType ==
  ASSUME NEW S, \A ch \in S : IsChange(ch)
  PROVE  \A op \in buildSyncOps(S) : IsOp(op)
<1>1. ASSUME NEW ch, IsChange(ch) PROVE IsOp(SyncOp(ch))
  BY Zenon, <1>1 DEF IsChange, IsOp, SyncOp
<1> QED
  BY Zenon, <1>1 DEF buildSyncOps

\* ReadFileChunked of a directory sends well-formed FILE_DATA.
LEMMA ContentCarries ==
  ASSUME NEW d, IsDisk(d), NEW p \in Paths, NEW e, NEW T, "FILE_DATA" \in T
  PROVE  IsSeq(Content(d, p, e)) /\ Carries(Content(d, p, e), T)
<1>1. IsSeq(Content(d, p, e))
  BY Zenon, ContentFiles
<1>2. CASE Content(d, p, e) = <<>>
  <2>1. Carries(<<>>, T)
    BY Zenon, CarriesShort
  <2> QED
    BY Zenon, <1>1, <1>2, <2>1
<1>3. CASE Content(d, p, e) = <<FileData(p, d[p].data)>> /\ p \in DOMAIN d
  <2> DEFINE m == FileData(p, d[p].data)
  <2>1. d[p].data \in Seq(Nat)
    BY Zenon, <1>3, InodeFields
  <2>2. IsMessage(m) /\ m.type = "FILE_DATA"
    BY Zenon, <2>1 DEF IsMessage, FileData, FileMessages
  <2>3. Content(d, p, e) = <<m>>
    BY Zenon, <1>3
  <2> HIDE DEF m
  <2>4. Carries(<<m>>, T)
    BY Zenon, <2>2, CarriesShort
  <2> QED
    BY Zenon, <1>1, <2>3, <2>4
<1> QED
  BY Zenon, <1>1, <1>2, <1>3 DEF Content, Readable

\* handleLocalEvent of a change sends well-formed messages.
LEMMA MessagesCarry ==
  ASSUME NEW c, IsDisk(disk[c]), NEW ch, IsChange(ch)
  PROVE  IsSeq(Messages(c, ch)) /\ Carries(Messages(c, ch), ClientMessages)
<1> DEFINE m == IF ch.type = "create" THEN FileCreate(ch.entry, ch.path)
                                      ELSE FileModify(ch.entry, ch.path)
           r == Content(disk[c], ch.path, ch.entry)
<1>1. IsSeq(Messages(c, ch)) /\ ch.path \in Paths
  BY Zenon, MessagesFiles DEF IsChange
<1>2. CASE ch.type = "delete"
  <2>1. Messages(c, ch) = <<FileDelete(ch.path)>>
    BY Zenon, <1>2 DEF Messages
  <2>2. IsMessage(FileDelete(ch.path)) /\ FileDelete(ch.path).type \in ClientMessages
    BY Zenon, <1>1 DEF IsMessage, FileDelete, FileMessages, ClientMessages
  <2> QED
    BY Zenon, <1>1, <2>1, <2>2, CarriesShort
<1>3. CASE ch.type # "delete"
  <2>1. Messages(c, ch) = <<m>> \o r
    BY Zenon, <1>3 DEF Messages
  <2>2. ch.entry \in Entries
    BY Zenon, <1>3 DEF IsChange
  <2>3. IsMessage(m) /\ m.type \in ClientMessages
    BY Zenon, <1>1, <2>2 DEF IsMessage, FileCreate, FileModify, FileMessages, ClientMessages
  <2>4. IsSeq(r) /\ Carries(r, ClientMessages)
    BY Zenon, <1>1, ContentCarries DEF ClientMessages, FileMessages
  <2> HIDE DEF m, r
  <2>5. IsSeq(<<m>>) /\ Carries(<<m>>, ClientMessages)
    BY Zenon, <2>3, ShortSeq, CarriesShort
  <2> QED
    BY Zenon, <1>1, <2>1, <2>4, <2>5, CarriesConcat
<1> QED
  BY Zenon, <1>2, <1>3

-----------------------------------------------------------------------------
(* The types of the state, by what changes together.                       *)

FilesOK == now \in Nat /\ DOMAIN disk = Hosts /\ \A h \in Hosts : IsDisk(disk[h])

EnginesOK == DOMAIN eng = Hosts /\ \A h \in Hosts : IsEngine(eng[h])

SavedOK == saved \in [Hosts -> TombstoneFiles]

MonitorsOK ==
  /\ pend \in [Hosts -> [Paths -> SUBSET {"create", "write", "remove"}]]
  /\ ign \in [Hosts -> SUBSET Paths]

HandlersOK ==
  /\ up \in BOOLEAN
  /\ theirs \in [Sessions -> SUBSET Paths]
  /\ DOMAIN stodo = Sessions /\ \A s \in Sessions : \A ch \in stodo[s] : IsChange(ch)

UploadsOK == DOMAIN ctodo = Clients /\ \A c \in Clients : \A ch \in ctodo[c] : IsChange(ch)

ToServerOK == \A s \in Sessions : Carries(c2s[s], ClientMessages)
ToClientOK == \A s \in Sessions : Carries(s2c[s], ServerMessages)

\* With Inv, which has the types of the phases and connections.
Types ==
  /\ FilesOK /\ EnginesOK /\ SavedOK /\ MonitorsOK /\ HandlersOK /\ UploadsOK
  /\ ToServerOK /\ ToClientOK

\* What a step does not touch keeps its types.
LEMMA Untouched ==
  ASSUME Types
  PROVE  /\ UNCHANGED <<now, disk>> => FilesOK'
         /\ UNCHANGED eng => EnginesOK'
         /\ UNCHANGED saved => SavedOK'
         /\ UNCHANGED <<pend, ign>> => MonitorsOK'
         /\ UNCHANGED <<up, theirs, stodo>> => HandlersOK'
         /\ UNCHANGED ctodo => UploadsOK'
         /\ UNCHANGED c2s => ToServerOK'
         /\ UNCHANGED s2c => ToClientOK'
BY Zenon DEF Types, FilesOK, EnginesOK, SavedOK, MonitorsOK, HandlersOK, UploadsOK,
             ToServerOK, ToClientOK

\* The server and the clients are hosts.
LEMMA HostsAre == Server \in Hosts /\ \A c \in Clients : c \in Hosts
BY Zenon DEF Hosts

\* A step that changes one host's directory keeps the types of all.
LEMMA FilesChange ==
  ASSUME Types, NEW h \in Hosts, NEW d, IsDisk(d), disk' = [disk EXCEPT ![h] = d],
         now' = now \/ now' = now + 1
  PROVE  FilesOK'
<1>1. now' \in Nat
  BY DEF Types, FilesOK
<1>2. DOMAIN disk' = Hosts /\ \A x \in Hosts : disk'[x] = IF x = h THEN d ELSE disk[x]
  BY Zenon DEF Types, FilesOK
<1> QED
  BY Zenon, <1>1, <1>2 DEF Types, FilesOK

\* A step that changes one host's engine keeps the types of all.
LEMMA EngineChanges ==
  ASSUME Types, NEW h \in Hosts, NEW e, IsEngine(e), eng' = [eng EXCEPT ![h] = e]
  PROVE  EnginesOK'
<1>1. DOMAIN eng' = Hosts /\ \A x \in Hosts : eng'[x] = IF x = h THEN e ELSE eng[x]
  BY Zenon DEF Types, EnginesOK
<1> QED
  BY Zenon, <1>1 DEF Types, EnginesOK

\* A tombstone file is written or removed.
LEMMA SavedChanges ==
  ASSUME Types, NEW h \in Hosts, NEW f \in TombstoneFiles, saved' = [saved EXCEPT ![h] = f]
  PROVE  SavedOK'
BY Zenon DEF Types, SavedOK

\* The paths that a monitor ignores change.
LEMMA IgnoresChange ==
  ASSUME Types, NEW h \in Hosts, NEW S \in SUBSET Paths, ign' = [ign EXCEPT ![h] = S],
         pend' \in [Hosts -> [Paths -> SUBSET {"create", "write", "remove"}]]
  PROVE  MonitorsOK'
BY Zenon DEF Types, MonitorsOK

\* A path is added to those that a monitor ignores.
LEMMA IgnoresMore ==
  ASSUME Types, NEW h \in Hosts, NEW p \in Paths, ign' = [ign EXCEPT ![h] = @ \cup {p}],
         UNCHANGED pend
  PROVE  MonitorsOK'
<1>1. ign[h] \cup {p} \in SUBSET Paths
  BY Zenon DEF Types, MonitorsOK
<1>2. pend' \in [Hosts -> [Paths -> SUBSET {"create", "write", "remove"}]]
  BY Zenon DEF Types, MonitorsOK
<1>3. ign' = [ign EXCEPT ![h] = ign[h] \cup {p}]
  BY Zenon
<1> QED
  BY Zenon, <1>1, <1>2, <1>3, IgnoresChange

\* A monitor sees a change: what it debounces keeps its type.
LEMMA Observed ==
  ASSUME Types, NEW h \in Hosts, NEW old, NEW new, NEW written, Observe(h, old, new, written)
  PROVE  pend' \in [Hosts -> [Paths -> SUBSET {"create", "write", "remove"}]]
<1> DEFINE ops == Events(old, new, written)
           more == [p \in Paths |-> IF p \in ign[h] THEN pend[h][p] ELSE pend[h][p] \cup ops[p]]
           E == SUBSET {"create", "write", "remove"}
<1>1. \A p \in Paths : ops[p] \in E
  BY Zenon DEF Events
<1>2. pend \in [Hosts -> [Paths -> E]]
  BY Zenon DEF Types, MonitorsOK
<1>3. pend' = pend \/ pend' = [pend EXCEPT ![h] = more]
  BY Zenon DEF Observe
<1> HIDE DEF ops
<1>4. \A p \in Paths : pend[h][p] \in E /\ pend[h][p] \cup ops[p] \in E
  BY Zenon, <1>1, <1>2
<1>5. more \in [Paths -> E]
  BY Zenon, <1>4
<1> HIDE DEF more, E
<1>6. pend' \in [Hosts -> [Paths -> E]]
  BY Zenon, <1>2, <1>3, <1>5
<1> QED
  BY Zenon, <1>6 DEF E

\* A monitor's events are dropped when it stops.
LEMMA MonitorStops ==
  ASSUME Types, NEW h \in Hosts, pend' = [pend EXCEPT ![h] = NoPending],
         ign' = [ign EXCEPT ![h] = {}]
  PROVE  MonitorsOK'
<1>1. NoPending \in [Paths -> SUBSET {"create", "write", "remove"}]
  BY Zenon DEF NoPending
<1>2. pend' \in [Hosts -> [Paths -> SUBSET {"create", "write", "remove"}]]
  BY Zenon, <1>1 DEF Types, MonitorsOK
<1>3. {} \in SUBSET Paths
  BY Zenon
<1> QED
  BY Zenon, <1>2, <1>3, IgnoresChange

\* flushDebounce takes the event of a path: the others keep their type.
LEMMA Flushed ==
  ASSUME Types, NEW h \in Hosts, NEW p \in Paths, Flush(h, p)
  PROVE  pend' \in [Hosts -> [Paths -> SUBSET {"create", "write", "remove"}]]
<1> DEFINE E == SUBSET {"create", "write", "remove"}
<1>1. pend \in [Hosts -> [Paths -> E]] /\ {} \in E
  BY Zenon DEF Types, MonitorsOK
<1>2. pend' = [pend EXCEPT ![h] = [pend[h] EXCEPT ![p] = {}]]
  BY Zenon DEF Flush
<1> HIDE DEF E
<1>3. [pend[h] EXCEPT ![p] = {}] \in [Paths -> E]
  BY Zenon, <1>1
<1>4. pend' \in [Hosts -> [Paths -> E]]
  BY Zenon, <1>1, <1>2, <1>3
<1> QED
  BY Zenon, <1>4 DEF E

\* The server reads a message: it is well formed, and so are the others.
LEMMA ServerTakes ==
  ASSUME Inv, Types, NEW s \in Sessions, c2s[s] # <<>>
  PROVE  /\ IsMessage(Head(c2s[s])) /\ Head(c2s[s]).type \in ClientMessages
         /\ Consume(s) => ToServerOK'
<1>1. /\ IsSeq(c2s[s]) /\ Carries(c2s[s], ClientMessages)
      /\ c2s = [x \in Sessions |-> c2s[x]]
  BY Zenon DEF Inv, Typed, Types, ToServerOK
<1>2. /\ Carries(Tail(c2s[s]), ClientMessages) /\ IsMessage(Head(c2s[s]))
      /\ Head(c2s[s]).type \in ClientMessages
  BY Zenon, <1>1, CarriesTail
<1>3. ASSUME Consume(s) PROVE ToServerOK'
  <2>1. \A x \in Sessions : c2s'[x] = IF x = s THEN Tail(c2s[s]) ELSE c2s[x]
    BY Zenon, <1>1, <1>3 DEF Consume
  <2> QED
    BY Zenon, <1>2, <2>1 DEF Types, ToServerOK
<1> QED
  BY Zenon, <1>2, <1>3

\* The client reads a message: it is well formed, and so are the others.
LEMMA ClientTakes ==
  ASSUME Inv, Types, NEW c \in Clients, NEW phase, Receives(c, phase), phase \notin Offline
  PROVE  /\ IsMessage(Msg(c)) /\ Msg(c).type \in ServerMessages
         /\ ToClientOK'
<1>1. csess[c] \in Sessions /\ s2c[csess[c]] # <<>>
  BY DEF Inv, Typed, Numbered, Receives, Connected, Offline
<1> DEFINE s == csess[c]
<1> HIDE DEF s
<1>2. /\ IsSeq(s2c[s]) /\ Carries(s2c[s], ServerMessages)
      /\ s2c = [x \in Sessions |-> s2c[x]]
  BY Zenon, <1>1 DEF Inv, Typed, Types, ToClientOK, s
<1>3. /\ Carries(Tail(s2c[s]), ServerMessages) /\ IsMessage(Head(s2c[s]))
      /\ Head(s2c[s]).type \in ServerMessages
  BY Zenon, <1>1, <1>2, CarriesTail DEF s
<1>4. \A x \in Sessions : s2c'[x] = IF x = s THEN Tail(s2c[s]) ELSE s2c[x]
  BY Zenon, <1>1, <1>2 DEF Receives, s
<1> QED
  BY Zenon, <1>3, <1>4 DEF Types, ToClientOK, Msg, s

\* The client writes well-formed messages.
LEMMA ClientSends ==
  ASSUME Inv, Types, NEW s \in Sessions, NEW r, IsSeq(r), Carries(r, ClientMessages),
         c2s' = Send(c2s, s, r)
  PROVE  ToServerOK'
<1>1. /\ IsSeq(c2s[s]) /\ Carries(c2s[s], ClientMessages)
      /\ c2s = [x \in Sessions |-> c2s[x]]
  BY Zenon DEF Inv, Typed, Types, ToServerOK
<1>2. Carries(c2s[s] \o r, ClientMessages)
  BY Zenon, <1>1, CarriesConcat
<1>3. \A x \in Sessions : c2s'[x] = c2s[x] \/ (x = s /\ c2s'[x] = c2s[s] \o r)
  BY Zenon, <1>1 DEF Send
<1> QED
  BY Zenon, <1>2, <1>3 DEF Types, ToServerOK

\* A handler writes well-formed messages to its client.
LEMMA ServerSends ==
  ASSUME Inv, Types, NEW s \in Sessions, NEW r, IsSeq(r), Carries(r, ServerMessages),
         s2c' = Send(s2c, s, r)
  PROVE  ToClientOK'
<1>1. /\ IsSeq(s2c[s]) /\ Carries(s2c[s], ServerMessages)
      /\ s2c = [x \in Sessions |-> s2c[x]]
  BY Zenon DEF Inv, Typed, Types, ToClientOK
<1>2. Carries(s2c[s] \o r, ServerMessages)
  BY Zenon, <1>1, CarriesConcat
<1>3. \A x \in Sessions : s2c'[x] = s2c[x] \/ (x = s /\ s2c'[x] = s2c[s] \o r)
  BY Zenon, <1>1 DEF Send
<1> QED
  BY Zenon, <1>2, <1>3 DEF Types, ToClientOK

\* The server writes well-formed messages to several clients.
LEMMA ServerBroadcasts ==
  ASSUME Inv, Types, NEW S, NEW r, IsSeq(r), Carries(r, ServerMessages),
         s2c' = SendAll(S, r)
  PROVE  ToClientOK'
<1>1. \A x \in Sessions : IsSeq(s2c[x]) /\ Carries(s2c[x], ServerMessages)
  BY Zenon DEF Inv, Typed, Types, ToClientOK
<1>2. \A x \in Sessions : Carries(s2c[x] \o r, ServerMessages)
  BY Zenon, <1>1, CarriesConcat
<1>3. \A x \in Sessions : s2c'[x] = s2c[x] \/ s2c'[x] = s2c[x] \o r
  BY Zenon DEF SendAll
<1> QED
  BY Zenon, <1>1, <1>2, <1>3 DEF ToClientOK

\* A client closes its connection.
LEMMA Disconnected ==
  ASSUME Inv, Types, NEW c \in Clients, Connected(c), Disconnect(c)
  PROVE  ToClientOK'
<1>1. csess[c] \in Sessions /\ s2c = [x \in Sessions |-> s2c[x]]
  BY Zenon DEF Inv, Typed, Numbered
<1>2. \A x \in Sessions : s2c'[x] = s2c[x] \/ s2c'[x] = <<>>
  BY Zenon, <1>1 DEF Disconnect
<1> QED
  BY Zenon, <1>2, CarriesShort DEF Types, ToClientOK

-----------------------------------------------------------------------------
(* Types: the steps of the server.                                         *)

\* The types of a host: its directory, engine, tombstone file and monitor.
LEMMA OnHost ==
  ASSUME Types, NEW h \in Hosts
  PROVE  /\ IsDisk(disk[h]) /\ IsEngine(eng[h]) /\ saved[h] \in TombstoneFiles
         /\ IsTree(eng[h].local) /\ IsTree(eng[h].remote)
         /\ eng[h].tomb \in SUBSET Paths /\ TombstoneLines(eng[h]) \in TombstoneFiles
         /\ ign[h] \in SUBSET Paths /\ now \in Nat /\ now + 1 \in Nat
<1>1. IsDisk(disk[h]) /\ IsEngine(eng[h])
  BY Zenon DEF Types, FilesOK, EnginesOK
<1>2. saved[h] \in TombstoneFiles /\ ign[h] \in SUBSET Paths /\ now \in Nat
  BY Zenon DEF Types, FilesOK, SavedOK, MonitorsOK
<1> QED
  BY <1>1, <1>2, EngineFields

\* A host scans its directory.
LEMMA ScansHost ==
  ASSUME Hashed, Types, NEW h \in Hosts
  PROVE  IsEngine(ScanLocal(eng[h], disk[h]))
BY Zenon, OnHost, ScanLocalType

\* A handler's list of changes, and the paths its client has sent, change.
LEMMA TodoChanges ==
  ASSUME Types, NEW s \in Sessions, NEW S, \A ch \in S : IsChange(ch),
         stodo' = [stodo EXCEPT ![s] = S], UNCHANGED up,
         theirs' \in [Sessions -> SUBSET Paths]
  PROVE  HandlersOK'
<1>1. DOMAIN stodo' = Sessions /\ \A x \in Sessions : stodo'[x] = IF x = s THEN S ELSE stodo[x]
  BY Zenon DEF Types, HandlersOK
<1> QED
  BY Zenon, <1>1 DEF Types, HandlersOK

\* A handler writes one well-formed message to its client.
LEMMA ServerSendsOne ==
  ASSUME Inv, Types, NEW s \in Sessions, NEW m, IsMessage(m), m.type \in ServerMessages,
         s2c' = Send(s2c, s, <<m>>)
  PROVE  ToClientOK'
<1>1. IsSeq(<<m>>) /\ Carries(<<m>>, ServerMessages)
  BY Zenon, ShortSeq, CarriesShort
<1> QED
  BY Zenon, <1>1, ServerSends

\* handleClient up to the client's tree keeps the types.
LEMMA HandshakeTypes ==
  ASSUME Hashed, Inv, Types, NEW s \in Sessions,
         SrvAccepted(s) \/ SrvHello(s) \/ SrvSendTree(s) \/ SrvSyncInit(s)
  PROVE  Types'
<1>1. CASE SrvAccepted(s)
  <2>1. /\ eng' = [eng EXCEPT ![Server] = ScanLocal(eng[Server], disk[Server])]
        /\ UNCHANGED <<now, disk, saved, pend, ign, up, theirs, stodo, ctodo, c2s, s2c>>
    BY Zenon, <1>1 DEF SrvAccepted, ServerEngine, fs, mon, cli, net
  <2>2. EnginesOK'
    BY Zenon, <2>1, ScansHost, EngineChanges, HostsAre
  <2> QED
    BY Zenon, <2>1, <2>2, Untouched DEF Types
<1>2. CASE SrvHello(s)
  <2>1. /\ c2s[s] # <<>> /\ Consume(s) /\ s2c' = Send(s2c, s, <<HelloAck>>)
        /\ UNCHANGED <<now, disk, saved, eng, pend, ign, up, theirs, stodo, ctodo>>
    BY Zenon, <1>2 DEF SrvHello, Reads, fs, mon, cli
  <2>2. IsMessage(HelloAck) /\ HelloAck.type \in ServerMessages
    BY Zenon DEF IsMessage, HelloAck, ServerMessages, FileMessages
  <2>3. ToClientOK' /\ ToServerOK'
    BY Zenon, <2>1, <2>2, ServerSendsOne, ServerTakes
  <2> QED
    BY Zenon, <2>1, <2>3, Untouched DEF Types
<1>3. CASE SrvSendTree(s)
  <2>1. /\ s2c' = Send(s2c, s, <<SyncInit(eng[Server].local)>>)
        /\ UNCHANGED <<now, disk, saved, eng, pend, ign, up, theirs, stodo, ctodo, c2s>>
    BY Zenon, <1>3 DEF SrvSendTree, fs, mon, cli
  <2>2. IsTree(eng[Server].local)
    BY Zenon, OnHost, HostsAre
  <2>3. /\ IsMessage(SyncInit(eng[Server].local))
        /\ SyncInit(eng[Server].local).type \in ServerMessages
    BY Zenon, <2>2 DEF IsMessage, SyncInit, ServerMessages, FileMessages
  <2>4. ToClientOK'
    BY Zenon, <2>1, <2>3, ServerSendsOne
  <2> QED
    BY Zenon, <2>1, <2>4, Untouched DEF Types
<1>4. CASE SrvSyncInit(s)
  <2> DEFINE tree == Head(c2s[s]).tree
             e == AddToPreviousPaths(SetRemoteTree(eng[Server], tree), DOMAIN tree)
  <2>1. /\ c2s[s] # <<>> /\ Head(c2s[s]).type = "SYNC_INIT" /\ Consume(s)
        /\ eng' = [eng EXCEPT ![Server] = e]
        /\ theirs' = [theirs EXCEPT ![s] = DOMAIN tree]
        /\ UNCHANGED <<now, disk, saved, pend, ign, up, stodo, ctodo, s2c>>
    BY Zenon, <1>4 DEF SrvSyncInit, ServerEngine, Reads, fs, mon, cli
  <2>2. IsTree(tree) /\ ToServerOK'
    BY Zenon, <2>1, ServerTakes DEF IsMessage
  <2> HIDE DEF tree
  <2>3. IsEngine(e)
    BY Zenon, <2>2, OnHost, HostsAre, RemoteTreeType
  <2> HIDE DEF e
  <2>4. EnginesOK'
    BY Zenon, <2>1, <2>3, EngineChanges, HostsAre
  <2>5. HandlersOK'
    BY ZenonT(30), <2>1, <2>2 DEF Types, HandlersOK, IsTree
  <2> QED
    BY Zenon, <2>1, <2>2, <2>4, <2>5, Untouched DEF Types
<1> QED
  BY Zenon, <1>1, <1>2, <1>3, <1>4

\* handleClient from the tree to the ACK, and its end, keep the types.
LEMMA StreamTypes ==
  ASSUME Hashed, Inv, Types, NEW s \in Sessions,
         SrvSyncApply(s) \/ SrvStream(s) \/ SrvAck(s) \/ SrvEnd(s)
  PROVE  Types'
<1>1. CASE SrvSyncApply(s)
  <2> DEFINE changes == InitialChanges(eng[Server], theirs[s])
             todo == {ch \in changes : ch.type # "delete"}
             m == SyncApply(buildSyncOps(changes))
  <2>1. /\ s2c' = Send(s2c, s, <<m>>)
        /\ stodo' = [stodo EXCEPT ![s] = todo]
        /\ theirs' = [theirs EXCEPT ![s] = {}]
        /\ UNCHANGED <<now, disk, saved, eng, pend, ign, up, ctodo, c2s>>
    BY Zenon, <1>1 DEF SrvSyncApply, fs, mon, cli
  <2>2. \A ch \in changes : IsChange(ch)
    <3>1. /\ IsTree(eng[Server].local) /\ IsTree(eng[Server].remote)
          /\ eng[Server].tomb \in SUBSET Paths
      BY Zenon, OnHost, HostsAre
    <3>2. (theirs[s] \ DOMAIN eng[Server].local) \cap eng[Server].tomb \in SUBSET Paths
      BY Zenon, <3>1
    <3> QED
      BY Zenon, <3>1, <3>2, DiffChanges, DeletedChanges DEF InitialChanges
  <2> HIDE DEF changes
  <2>3. \A op \in buildSyncOps(changes) : IsOp(op)
    BY Zenon, <2>2, SyncOpsType
  <2>4. IsMessage(m) /\ m.type \in ServerMessages
    BY Zenon, <2>3 DEF IsMessage, SyncApply, ServerMessages, FileMessages
  <2> HIDE DEF m
  <2>5. ToClientOK'
    BY Zenon, <2>1, <2>4, ServerSendsOne
  <2>6. theirs' \in [Sessions -> SUBSET Paths]
    BY Zenon, <2>1 DEF Types, HandlersOK
  <2>7. \A ch \in todo : IsChange(ch)
    BY Zenon, <2>2
  <2> HIDE DEF todo
  <2>8. HandlersOK'
    BY Zenon, <2>1, <2>6, <2>7, TodoChanges
  <2> QED
    BY Zenon, <2>1, <2>5, <2>8, Untouched DEF Types
<1>2. CASE SrvStream(s)
  <2>1. PICK ch \in stodo[s] :
          /\ s2c' = Send(s2c, s, Content(disk[Server], ch.path, ch.entry))
          /\ stodo' = [stodo EXCEPT ![s] = stodo[s] \ {ch}]
    BY Zenon, <1>2 DEF SrvStream
  <2>2. UNCHANGED <<now, disk, saved, eng, pend, ign, up, theirs, ctodo, c2s>>
    BY Zenon, <1>2 DEF SrvStream, fs, mon, cli
  <2>3. ch.path \in Paths /\ \A x \in stodo[s] \ {ch} : IsChange(x)
    BY Zenon DEF Types, HandlersOK, IsChange
  <2>4. "FILE_DATA" \in ServerMessages
    BY Zenon DEF ServerMessages
  <2>5. ToClientOK'
    BY Zenon, <2>1, <2>3, <2>4, OnHost, HostsAre, ContentCarries, ServerSends
  <2>6. theirs' \in [Sessions -> SUBSET Paths]
    BY Zenon, <2>2 DEF Types, HandlersOK
  <2>7. HandlersOK'
    BY Zenon, <2>1, <2>2, <2>3, <2>6, TodoChanges
  <2> QED
    BY Zenon, <2>2, <2>5, <2>7, Untouched DEF Types
<1>3. CASE SrvAck(s)
  <2>1. /\ s2c' = Send(s2c, s, <<Ack>>)
        /\ eng' = [eng EXCEPT ![Server] = ClearTombstones(eng[Server])]
        /\ saved' = [saved EXCEPT ![Server] = NoFile]
        /\ UNCHANGED <<now, disk, pend, ign, up, theirs, stodo, ctodo, c2s>>
    BY Zenon, <1>3 DEF SrvAck, ServerEngine, fs, mon, cli
  <2>2. IsMessage(Ack) /\ Ack.type \in ServerMessages
    BY Zenon DEF IsMessage, Ack, ServerMessages, FileMessages
  <2>3. ToClientOK'
    BY Zenon, <2>1, <2>2, ServerSendsOne
  <2>4. IsEngine(ClearTombstones(eng[Server]))
    BY Zenon, OnHost, HostsAre, ClearTombstonesType
  <2>5. EnginesOK'
    BY Zenon, <2>1, <2>4, EngineChanges, HostsAre
  <2>6. NoFile \in TombstoneFiles
    BY Zenon DEF NoFile, TombstoneFiles
  <2>7. SavedOK'
    BY Zenon, <2>1, <2>6, SavedChanges, HostsAre
  <2> QED
    BY Zenon, <2>1, <2>3, <2>5, <2>7, Untouched DEF Types
<1>4. CASE SrvEnd(s)
  <2>1. /\ theirs' = [theirs EXCEPT ![s] = {}] /\ stodo' = [stodo EXCEPT ![s] = {}]
        /\ c2s' = [c2s EXCEPT ![s] = <<>>]
        /\ UNCHANGED <<now, disk, saved, eng, pend, ign, up, ctodo, s2c>>
    BY Zenon, <1>4 DEF SrvEnd, fs, mon, cli
  <2>2. theirs' \in [Sessions -> SUBSET Paths]
    BY Zenon, <2>1 DEF Types, HandlersOK
  <2>3. HandlersOK'
    <3> DEFINE S == {}
    <3>1. (\A ch \in S : IsChange(ch)) /\ stodo' = [stodo EXCEPT ![s] = S]
      BY Zenon, <2>1
    <3> HIDE DEF S
    <3> QED
      BY Zenon, <2>1, <2>2, <3>1, TodoChanges
  <2>4. c2s = [x \in Sessions |-> c2s[x]]
    BY Zenon DEF Inv, Typed
  <2>5. \A x \in Sessions : c2s'[x] = c2s[x] \/ c2s'[x] = <<>>
    BY Zenon, <2>1, <2>4
  <2>6. ToServerOK'
    BY Zenon, <2>5, CarriesShort DEF Types, ToServerOK
  <2> QED
    BY Zenon, <2>1, <2>3, <2>6, Untouched DEF Types
<1> QED
  BY Zenon, <1>1, <1>2, <1>3, <1>4

-----------------------------------------------------------------------------
(* Types: the messages of a live session, at the server.                   *)

\* What the handlers of handleMessage have in common.
LEMMA LiveReads ==
  ASSUME Inv, Types, NEW s \in Sessions, NEW type, Live(s, type)
  PROVE  /\ IsMessage(Head(c2s[s])) /\ Head(c2s[s]).type = type
         /\ SavedOK' /\ HandlersOK' /\ UploadsOK' /\ ToServerOK'
<1>1. /\ c2s[s] # <<>> /\ Head(c2s[s]).type = type /\ Consume(s)
      /\ UNCHANGED <<saved, up, theirs, stodo, ctodo>>
  BY Zenon DEF Live, Reads, cli
<1> QED
  BY Zenon, <1>1, ServerTakes, Untouched

\* FILE_CREATE keeps the types.
LEMMA SrvFileCreateTypes ==
  ASSUME Hashed, Inv, Types, NEW s \in Sessions, SrvFileCreate(s)
  PROVE  Types'
<1> DEFINE m  == Head(c2s[s])
           d  == disk[Server]
           d2 == IF m.entry.type = "dir" THEN Mkdir(d, m.path, m.entry, now + 1)
                                         ELSE CreateFile(d, m.path, m.entry)
           e  == RemoteSet(ClearTombstone(eng[Server], m.path), m.path, m.entry)
<1>1. /\ Live(s, "FILE_CREATE") /\ ServerIgnores(m.path) /\ UNCHANGED <<pend, s2c>>
      /\ \/ /\ disk' = [disk EXCEPT ![Server] = d2]
            /\ now' = now \/ now' = now + 1
            /\ eng' = [eng EXCEPT ![Server] = ScanLocal(e, d2)]
         \/ UNCHANGED <<now, disk, eng>>
  BY Zenon DEF SrvFileCreate, ServerEngine, fs
<1>2. /\ m.path \in Paths /\ m.entry \in Entries
      /\ SavedOK' /\ HandlersOK' /\ UploadsOK' /\ ToServerOK'
  BY Zenon, <1>1, LiveReads DEF IsMessage, FileMessages
<1>3. IsDisk(d) /\ IsEngine(eng[Server]) /\ now + 1 \in Nat /\ Server \in Hosts
  BY Zenon, OnHost, HostsAre
<1> HIDE DEF m, d
<1>4. IsDisk(d2)
  BY Zenon, <1>2, <1>3, WriteOps
<1>5. IsEngine(e)
  BY Zenon, <1>2, <1>3, EngineMethods DEF d
<1> HIDE DEF d2, e
<1>6. IsEngine(ScanLocal(e, d2))
  BY Zenon, <1>4, <1>5, ScanLocalType
<1>7. FilesOK'
  BY Zenon, <1>1, <1>3, <1>4, FilesChange, Untouched
<1>8. EnginesOK'
  BY Zenon, <1>1, <1>3, <1>6, EngineChanges, Untouched
<1>9. MonitorsOK'
  BY Zenon, <1>1, <1>2, <1>3, IgnoresMore DEF ServerIgnores
<1> QED
  BY Zenon, <1>1, <1>2, <1>7, <1>8, <1>9, Untouched DEF Types

\* FILE_MODIFY keeps the types.
LEMMA SrvFileModifyTypes ==
  ASSUME Hashed, Inv, Types, NEW s \in Sessions, SrvFileModify(s)
  PROVE  Types'
<1> DEFINE m  == Head(c2s[s])
           d  == disk[Server]
           d2 == ApplyAttrs(d, m.path, m.entry)
           e  == RemoteSet(eng[Server], m.path, m.entry)
<1>1. /\ Live(s, "FILE_MODIFY") /\ ServerIgnores(m.path) /\ UNCHANGED <<now, pend, s2c>>
      /\ \/ /\ m.path \in DOMAIN d
            /\ disk' = [disk EXCEPT ![Server] = d2]
            /\ eng' = [eng EXCEPT ![Server] = ScanLocal(e, d2)]
         \/ UNCHANGED <<disk, eng>>
  BY Zenon DEF SrvFileModify, ServerEngine
<1>2. /\ m.path \in Paths /\ m.entry \in Entries
      /\ SavedOK' /\ HandlersOK' /\ UploadsOK' /\ ToServerOK'
  BY Zenon, <1>1, LiveReads DEF IsMessage, FileMessages
<1>3. IsDisk(d) /\ IsEngine(eng[Server]) /\ now + 1 \in Nat /\ Server \in Hosts
  BY Zenon, OnHost, HostsAre
<1> HIDE DEF m, d
<1>4. m.path \in DOMAIN d => IsDisk(d2)
  BY Zenon, <1>2, <1>3, WriteOps
<1>5. IsEngine(e)
  BY Zenon, <1>2, <1>3, EngineMethods
<1> HIDE DEF d2, e
<1>6. m.path \in DOMAIN d => IsEngine(ScanLocal(e, d2))
  BY Zenon, <1>4, <1>5, ScanLocalType
<1>7. FilesOK'
  BY Zenon, <1>1, <1>3, <1>4, FilesChange, Untouched
<1>8. EnginesOK'
  BY Zenon, <1>1, <1>3, <1>6, EngineChanges, Untouched
<1>9. MonitorsOK'
  BY Zenon, <1>1, <1>2, <1>3, IgnoresMore DEF ServerIgnores
<1> QED
  BY Zenon, <1>1, <1>2, <1>7, <1>8, <1>9, Untouched DEF Types

\* FILE_DELETE, which is passed on to the other clients, keeps the types.
LEMMA SrvFileDeleteTypes ==
  ASSUME Hashed, Inv, Types, NEW s \in Sessions, SrvFileDelete(s)
  PROVE  Types'
<1> DEFINE m  == Head(c2s[s])
           d2 == DeleteEntry(disk[Server], m.path)
           e  == AddTombstone(LocalRemove(RemoteRemove(eng[Server], m.path), m.path), m.path)
<1>1. /\ Live(s, "FILE_DELETE") /\ ServerIgnores(m.path) /\ UNCHANGED <<now, pend>>
      /\ disk' = [disk EXCEPT ![Server] = d2]
      /\ eng' = [eng EXCEPT ![Server] = ScanLocal(e, d2)]
      /\ s2c' = SendAll(Registered \ {s}, <<m>>)
  BY Zenon DEF SrvFileDelete, ServerEngine
<1>2. /\ IsMessage(m) /\ m.type = "FILE_DELETE"
      /\ SavedOK' /\ HandlersOK' /\ UploadsOK' /\ ToServerOK'
  BY Zenon, <1>1, LiveReads
<1>3. m.path \in Paths /\ m.type \in ServerMessages
  BY Zenon, <1>2 DEF IsMessage, FileMessages, ServerMessages
<1>4. IsDisk(disk[Server]) /\ IsEngine(eng[Server]) /\ Server \in Hosts
  BY Zenon, OnHost, HostsAre
<1> HIDE DEF m
<1>5. IsDisk(d2)
  BY Zenon, <1>4, DeleteEntryDisk
<1>6. IsEngine(e)
  BY Zenon, <1>3, <1>4, EngineMethods
<1> HIDE DEF d2, e
<1>7. IsEngine(ScanLocal(e, d2))
  BY Zenon, <1>5, <1>6, ScanLocalType
<1>8. FilesOK' /\ EnginesOK'
  BY Zenon, <1>1, <1>4, <1>5, <1>7, FilesChange, EngineChanges
<1>9. MonitorsOK'
  BY Zenon, <1>1, <1>3, <1>4, IgnoresMore DEF ServerIgnores
<1>10. IsSeq(<<m>>) /\ Carries(<<m>>, ServerMessages)
  BY Zenon, <1>2, <1>3, ShortSeq, CarriesShort
<1>11. ToClientOK'
  BY Zenon, <1>1, <1>10, ServerBroadcasts
<1> QED
  BY Zenon, <1>2, <1>8, <1>9, <1>11 DEF Types

\* FILE_DATA, which is passed on to the other clients, keeps the types.
LEMMA SrvFileDataTypes ==
  ASSUME Hashed, Inv, Types, NEW s \in Sessions, SrvFileData(s)
  PROVE  Types'
<1> DEFINE m  == Head(c2s[s])
           d2 == WriteChunkAt(disk[Server], m.path, m.data, now + 1)
           w  == IF m.data = <<>> THEN {} ELSE {m.path}
<1>1. /\ Live(s, "FILE_DATA") /\ UNCHANGED <<eng, ign>>
      /\ \/ /\ now' = now + 1
            /\ disk' = [disk EXCEPT ![Server] = d2]
            /\ Observe(Server, disk[Server], d2, w)
            /\ s2c' = SendAll(Registered \ {s}, <<m>>)
         \/ UNCHANGED <<now, disk, pend, s2c>>
  BY Zenon DEF SrvFileData, fs
<1>2. /\ IsMessage(m) /\ m.type = "FILE_DATA"
      /\ SavedOK' /\ HandlersOK' /\ UploadsOK' /\ ToServerOK'
  BY Zenon, <1>1, LiveReads
<1>3. m.path \in Paths /\ m.data \in Seq(Nat) /\ m.type \in ServerMessages
  BY Zenon, <1>2 DEF IsMessage, FileMessages, ServerMessages
<1>4. IsDisk(disk[Server]) /\ now + 1 \in Nat /\ Server \in Hosts
  BY Zenon, OnHost, HostsAre
<1> HIDE DEF m, w
<1>5. IsDisk(d2)
  BY Zenon, <1>3, <1>4, WriteChunkAtDisk
<1> HIDE DEF d2
<1>6. FilesOK'
  BY Zenon, <1>1, <1>4, <1>5, FilesChange, Untouched
<1>7. EnginesOK'
  BY Zenon, <1>1, Untouched
<1>8. MonitorsOK'
  BY Zenon, <1>1, <1>4, Observed, Untouched DEF Types, MonitorsOK
<1>9. IsSeq(<<m>>) /\ Carries(<<m>>, ServerMessages)
  BY Zenon, <1>2, <1>3, ShortSeq, CarriesShort
<1>10. ToClientOK'
  BY Zenon, <1>1, <1>9, ServerBroadcasts, Untouched
<1> QED
  BY Zenon, <1>2, <1>6, <1>7, <1>8, <1>10 DEF Types

\* The ticker of monitorClientChanges keeps the types.
LEMMA TickTypes ==
  ASSUME Hashed, Inv, Types, NEW s \in Sessions, Tick(s)
  PROVE  Types'
<1> DEFINE e   == ScanLocal(eng[Server], disk[Server])
           ops == buildSyncOps(Diff(e.local, e.remote))
           m   == SyncApply(ops)
<1>1. /\ eng' = [eng EXCEPT ![Server] = e]
      /\ s2c' = s2c \/ s2c' = Send(s2c, s, <<m>>)
      /\ UNCHANGED <<now, disk, saved, pend, ign, up, theirs, stodo, ctodo, c2s>>
  BY Zenon DEF Tick, ServerEngine, fs, mon, srv, cli
<1>2. IsEngine(e)
  BY Zenon, ScansHost, HostsAre
<1> HIDE DEF e
<1>3. \A op \in ops : IsOp(op)
  BY Zenon, <1>2, EngineFields, DiffChanges, SyncOpsType
<1> HIDE DEF ops
<1>4. IsMessage(m) /\ m.type \in ServerMessages
  BY Zenon, <1>3 DEF IsMessage, SyncApply, ServerMessages, FileMessages
<1> HIDE DEF m
<1>5. ToClientOK'
  BY Zenon, <1>1, <1>4, ServerSendsOne, Untouched
<1>6. EnginesOK'
  BY Zenon, <1>1, <1>2, EngineChanges, HostsAre
<1> QED
  BY Zenon, <1>1, <1>5, <1>6, Untouched DEF Types

-----------------------------------------------------------------------------
(* Types: the server's own changes and its process.                        *)

\* handleMonitorEvent of the server keeps the types.
LEMMA SrvEventTypes ==
  ASSUME Hashed, Inv, Types, NEW p \in Paths, SrvEvent(p)
  PROVE  Types'
<1> DEFINE d     == disk[Server]
           e     == ScanLocal(eng[Server], d)
           entry == BuildEntry(d[p])
           ms    == <<FileModify(entry, p)>> \o Content(d, p, entry)
<1>1. /\ Flush(Server, p)
      /\ UNCHANGED <<now, disk, up, theirs, stodo, ctodo, c2s>>
  BY Zenon DEF SrvEvent, fs, srv, cli
<1>2. \/ /\ eng' = [eng EXCEPT ![Server] = RemoteRemove(e, p)]
         /\ saved' = saved \/ saved' = [saved EXCEPT ![Server] = TombstoneLines(e)]
         /\ s2c' = SendAll(Registered, <<FileDelete(p)>>)
         /\ UNCHANGED ign
      \/ /\ p \in DOMAIN d
         /\ eng' = [eng EXCEPT ![Server] = RemoteSet(e, p, entry)]
         /\ ServerIgnores(p)
         /\ s2c' = SendAll(Registered, ms)
         /\ UNCHANGED saved
      \/ eng' = [eng EXCEPT ![Server] = e] /\ UNCHANGED <<saved, s2c, ign>>
  BY Zenon DEF SrvEvent, ServerEngine
<1>3. IsDisk(d) /\ Server \in Hosts /\ IsEngine(e) /\ ign[Server] \in SUBSET Paths
  BY Zenon, OnHost, HostsAre, ScansHost
<1>4. pend' \in [Hosts -> [Paths -> SUBSET {"create", "write", "remove"}]]
  BY Zenon, <1>1, <1>3, Flushed
<1>5. FilesOK' /\ HandlersOK' /\ UploadsOK' /\ ToServerOK'
  BY Zenon, <1>1, Untouched
<1>6. p \in DOMAIN d => entry \in Entries
  BY Zenon, <1>3, BuildEntryType
<1> HIDE DEF d, e, entry
<1>7. /\ IsEngine(RemoteRemove(e, p)) /\ TombstoneLines(e) \in TombstoneFiles
      /\ p \in DOMAIN d => IsEngine(RemoteSet(e, p, entry))
  BY Zenon, <1>3, <1>6, EngineMethods, EngineFields
<1>8. EnginesOK' /\ SavedOK'
  BY Zenon, <1>2, <1>3, <1>7, EngineChanges, SavedChanges, Untouched
<1>9. MonitorsOK'
  <2>1. ign' = ign \/ ign' = [ign EXCEPT ![Server] = ign[Server] \cup {p}]
    BY Zenon, <1>2 DEF ServerIgnores
  <2>2. ign[Server] \cup {p} \in SUBSET Paths
    BY Zenon, <1>3
  <2> QED
    BY Zenon, <1>3, <1>4, <2>1, <2>2, IgnoresChange DEF Types, MonitorsOK
<1>10. ToClientOK'
  <2>1. IsMessage(FileDelete(p)) /\ FileDelete(p).type \in ServerMessages
    BY Zenon DEF IsMessage, FileDelete, ServerMessages, FileMessages
  <2>2. IsSeq(<<FileDelete(p)>>) /\ Carries(<<FileDelete(p)>>, ServerMessages)
    BY Zenon, <2>1, ShortSeq, CarriesShort
  <2>3. ASSUME p \in DOMAIN d PROVE IsSeq(ms) /\ Carries(ms, ServerMessages)
    <3>1. /\ IsMessage(FileModify(entry, p)) /\ FileModify(entry, p).type \in ServerMessages
          /\ "FILE_DATA" \in ServerMessages
      BY Zenon, <1>6, <2>3 DEF IsMessage, FileModify, ServerMessages, FileMessages
    <3>2. /\ IsSeq(<<FileModify(entry, p)>>)
          /\ Carries(<<FileModify(entry, p)>>, ServerMessages)
      BY Zenon, <3>1, ShortSeq, CarriesShort
    <3>3. IsSeq(Content(d, p, entry)) /\ Carries(Content(d, p, entry), ServerMessages)
      BY Zenon, <1>3, <3>1, ContentCarries
    <3> QED
      BY Zenon, <3>2, <3>3, CarriesConcat, ConcatSeq
  <2> HIDE DEF ms
  <2> QED
    BY Zenon, <1>2, <2>2, <2>3, ServerBroadcasts, Untouched
<1> QED
  BY Zenon, <1>5, <1>8, <1>9, <1>10 DEF Types

\* The start, the stop and a crash of the server keep the types.
LEMMA ServerProcessTypes ==
  ASSUME Hashed, Inv, Types, ServerStart \/ ServerStop \/ ServerCrash
  PROVE  Types'
<1>1. CASE ServerStart
  <2> DEFINE e == NewEngine(saved[Server])
  <2>1. /\ up' = TRUE /\ eng' = [eng EXCEPT ![Server] = ScanLocal(e, disk[Server])]
        /\ UNCHANGED <<now, disk, saved, pend, ign, theirs, stodo, ctodo, c2s, s2c>>
    BY Zenon, <1>1 DEF ServerStart, ServerEngine, fs, mon, cli, net
  <2>2. IsEngine(e) /\ IsDisk(disk[Server]) /\ Server \in Hosts
    BY Zenon, OnHost, HostsAre, NewEngineType
  <2> HIDE DEF e
  <2>3. IsEngine(ScanLocal(e, disk[Server]))
    BY Zenon, <2>2, ScanLocalType
  <2>4. EnginesOK'
    BY Zenon, <2>1, <2>2, <2>3, EngineChanges
  <2>5. HandlersOK'
    BY Zenon, <2>1 DEF Types, HandlersOK
  <2> QED
    BY Zenon, <2>1, <2>4, <2>5, Untouched DEF Types
<1>2. CASE ServerStop \/ ServerCrash
  <2>1. /\ ServerDies
        /\ saved' = saved \/ saved' = [saved EXCEPT ![Server] = TombstoneLines(eng[Server])]
    BY Zenon, <1>2 DEF ServerStop, ServerCrash
  <2>2. /\ up' = FALSE /\ theirs' = [s \in Sessions |-> {}] /\ stodo' = [s \in Sessions |-> {}]
        /\ c2s' = [s \in Sessions |-> <<>>]
        /\ pend' = [pend EXCEPT ![Server] = NoPending]
        /\ ign' = [ign EXCEPT ![Server] = {}]
        /\ UNCHANGED <<now, disk, eng, ctodo, s2c>>
    BY Zenon, <2>1 DEF ServerDies, fs, cli
  <2>3. SavedOK'
    BY Zenon, <2>1, OnHost, HostsAre, SavedChanges, Untouched
  <2>4. MonitorsOK'
    BY Zenon, <2>2, HostsAre, MonitorStops
  <2>5. HandlersOK'
    BY Zenon, <2>2 DEF HandlersOK
  <2>6. ToServerOK'
    BY Zenon, <2>2, CarriesShort DEF ToServerOK
  <2> QED
    BY Zenon, <2>2, <2>3, <2>4, <2>5, <2>6, Untouched DEF Types
<1> QED
  BY Zenon, <1>1, <1>2

-----------------------------------------------------------------------------
(* Types: the steps of a client.                                           *)

\* The phases in which a client is connected.
LEMMA OnlinePhases ==
  /\ "ack" \notin Offline /\ "tree" \notin Offline /\ "apply" \notin Offline
  /\ "data" \notin Offline /\ "upload" \notin Offline /\ "forget" \notin Offline
  /\ "live" \notin Offline
BY Zenon DEF Offline

\* A connected client has a connection.
LEMMA HasConnection ==
  ASSUME Inv, NEW c \in Clients, cphase[c] \notin Offline
  PROVE  csess[c] \in Sessions /\ Connected(c)
BY DEF Inv, Typed, Numbered, Connected, Offline

\* What a client has yet to send changes.
LEMMA UploadsChange ==
  ASSUME Types, NEW c \in Clients, NEW S, \A ch \in S : IsChange(ch),
         ctodo' = [ctodo EXCEPT ![c] = S]
  PROVE  UploadsOK'
<1>1. DOMAIN ctodo' = Clients /\ \A x \in Clients : ctodo'[x] = IF x = c THEN S ELSE ctodo[x]
  BY Zenon DEF Types, UploadsOK
<1> QED
  BY Zenon, <1>1 DEF Types, UploadsOK

\* The end of runSession keeps the types.
LEMMA EndSessionTypes ==
  ASSUME Inv, Types, NEW c \in Clients, cphase[c] \notin Offline, EndSession(c)
  PROVE  Types'
<1>1. /\ ctodo' = [ctodo EXCEPT ![c] = {}] /\ Disconnect(c)
      /\ saved' = [saved EXCEPT ![c] = TombstoneLines(eng[c])]
      /\ pend' = [pend EXCEPT ![c] = NoPending] /\ ign' = [ign EXCEPT ![c] = {}]
      /\ UNCHANGED <<now, disk, eng, up, theirs, stodo, c2s>>
  BY Zenon DEF EndSession, fs, srv
<1>2. ToClientOK'
  BY Zenon, <1>1, HasConnection, Disconnected
<1>3. SavedOK' /\ MonitorsOK'
  BY Zenon, <1>1, OnHost, HostsAre, SavedChanges, MonitorStops
<1>4. UploadsOK'
  BY Zenon, <1>1, UploadsChange
<1> QED
  BY Zenon, <1>1, <1>2, <1>3, <1>4, Untouched DEF Types

\* A client's start, its connection and the loss of it keep the types.
LEMMA ConnectTypes ==
  ASSUME Hashed, Inv, Types, NEW c \in Clients,
         CliStart(c) \/ CliConnect(c) \/ CliHandshakeFails(c) \/ CliLost(c) \/ CliCrash(c)
  PROVE  Types'
<1>1. CASE CliStart(c)
  <2> DEFINE e == NewEngine(saved[c])
  <2>1. /\ eng' = [eng EXCEPT ![c] = ScanLocal(e, disk[c])]
        /\ UNCHANGED <<now, disk, saved, pend, ign, up, theirs, stodo, ctodo, c2s, s2c>>
    BY Zenon, <1>1 DEF CliStart, ClientEngine, fs, mon, srv, net
  <2>2. IsEngine(e) /\ IsDisk(disk[c]) /\ c \in Hosts
    BY Zenon, OnHost, HostsAre, NewEngineType
  <2> HIDE DEF e
  <2>3. IsEngine(ScanLocal(e, disk[c]))
    BY Zenon, <2>2, ScanLocalType
  <2>4. EnginesOK'
    BY Zenon, <2>1, <2>2, <2>3, EngineChanges
  <2> QED
    BY Zenon, <2>1, <2>4, Untouched DEF Types
<1>2. CASE CliConnect(c)
  <2> DEFINE s == spent["connect"] + 1
  <2>1. /\ c2s' = [c2s EXCEPT ![s] = <<Hello>>]
        /\ UNCHANGED <<now, disk, saved, eng, pend, ign, up, theirs, stodo, ctodo, s2c>>
    BY Zenon, <1>2 DEF CliConnect, fs, mon
  <2> HIDE DEF s
  <2>2. c2s = [x \in Sessions |-> c2s[x]]
    BY Zenon DEF Inv, Typed
  <2>3. \A x \in Sessions : c2s'[x] = c2s[x] \/ c2s'[x] = <<Hello>>
    BY Zenon, <2>1, <2>2
  <2>4. IsMessage(Hello) /\ Hello.type \in ClientMessages
    BY Zenon DEF IsMessage, Hello, ClientMessages, FileMessages
  <2>5. ToServerOK'
    BY Zenon, <2>3, <2>4, CarriesShort DEF Types, ToServerOK
  <2> QED
    BY Zenon, <2>1, <2>5, Untouched DEF Types
<1>3. CASE CliHandshakeFails(c)
  BY Zenon, <1>3, OnlinePhases, EndSessionTypes DEF CliHandshakeFails
<1>4. CASE CliLost(c)
  <2>1. cphase[c] \notin Offline /\ EndSession(c)
    BY Zenon, <1>4 DEF CliLost, Offline
  <2> QED
    BY Zenon, <2>1, EndSessionTypes
<1>5. CASE CliCrash(c)
  <2>1. /\ Connected(c) /\ ctodo' = [ctodo EXCEPT ![c] = {}] /\ Disconnect(c)
        /\ pend' = [pend EXCEPT ![c] = NoPending] /\ ign' = [ign EXCEPT ![c] = {}]
        /\ UNCHANGED <<now, disk, saved, eng, up, theirs, stodo, c2s>>
    BY Zenon, <1>5 DEF CliCrash, fs, srv
  <2>2. ToClientOK'
    BY Zenon, <2>1, Disconnected
  <2>3. MonitorsOK' /\ UploadsOK'
    BY Zenon, <2>1, HostsAre, MonitorStops, UploadsChange
  <2> QED
    BY Zenon, <2>1, <2>2, <2>3, Untouched DEF Types
<1> QED
  BY Zenon, <1>1, <1>2, <1>3, <1>4, <1>5

\* ApplyChanges keeps the types of directories, engines and events.
LEMMA ApplyTypes ==
  ASSUME Hashed, Types, NEW c \in Clients, NEW ops, \A op \in ops : IsOp(op),
         ApplyChanges(c, ops)
  PROVE  /\ FilesOK' /\ EnginesOK'
         /\ pend' \in [Hosts -> [Paths -> SUBSET {"create", "write", "remove"}]]
<1> DEFINE d(done) == AfterOps(disk[c], done, now + 1)
           w(done) == {op.path : op \in {o \in done : o.type = "createFile"}}
<1>1. PICK done \in AppliedOps(disk[c], ops) :
        /\ now' = now + 1
        /\ disk' = [disk EXCEPT ![c] = d(done)]
        /\ eng' = [eng EXCEPT ![c] = IF done = ops THEN ScanLocal(eng[c], d(done)) ELSE eng[c]]
        /\ Observe(c, disk[c], d(done), w(done))
  BY Zenon DEF ApplyChanges, ClientEngine
<1>2. IsDisk(disk[c]) /\ IsEngine(eng[c]) /\ now + 1 \in Nat /\ c \in Hosts
  BY Zenon, OnHost, HostsAre
<1>3. IsDisk(d(done))
  BY Zenon, <1>2, AfterOpsDisk
<1> HIDE DEF d, w
<1>4. IsEngine(IF done = ops THEN ScanLocal(eng[c], d(done)) ELSE eng[c])
  BY Zenon, <1>2, <1>3, ScanLocalType
<1>5. FilesOK'
  BY Zenon, <1>1, <1>2, <1>3, FilesChange
<1>6. EnginesOK'
  BY Zenon, <1>1, <1>2, <1>4, EngineChanges
<1> QED
  BY Zenon, <1>1, <1>2, <1>5, <1>6, Observed

\* FILE_DATA, at a client, keeps the types of directories.
LEMMA WriteDataTypes ==
  ASSUME Types, NEW c \in Clients, NEW m, m.path \in Paths, m.data \in Seq(Nat),
         WriteData(c, m)
  PROVE  FilesOK'
<1> DEFINE d == WriteChunkAt(disk[c], m.path, m.data, now + 1)
<1>1. \/ now' = now + 1 /\ disk' = [disk EXCEPT ![c] = d]
      \/ UNCHANGED <<now, disk>>
  BY Zenon DEF WriteData, fs
<1>2. IsDisk(disk[c]) /\ now + 1 \in Nat /\ c \in Hosts
  BY Zenon, OnHost, HostsAre
<1>3. IsDisk(d)
  BY Zenon, <1>2, WriteChunkAtDisk
<1> HIDE DEF d
<1> QED
  BY Zenon, <1>1, <1>2, <1>3, FilesChange, Untouched

\* The initial synchronisation of a client, up to the ACK, keeps the types.
LEMMA SessionTypes ==
  ASSUME Hashed, Inv, Types, NEW c \in Clients,
         CliHelloAck(c) \/ CliTree(c) \/ CliApply(c) \/ CliData(c)
  PROVE  Types'
<1>1. CASE CliHelloAck(c)
  <2> DEFINE m == SyncInit(eng[c].local)
  <2>1. /\ Receives(c, "ack") /\ c2s' = Send(c2s, csess[c], <<m>>)
        /\ UNCHANGED <<now, disk, saved, eng, pend, ign, up, theirs, stodo, ctodo>>
    BY Zenon, <1>1 DEF CliHelloAck, fs, mon, srv
  <2>2. ToClientOK' /\ csess[c] \in Sessions
    BY Zenon, <2>1, OnlinePhases, ClientTakes, HasConnection DEF Receives
  <2>3. IsTree(eng[c].local)
    BY Zenon, OnHost, HostsAre
  <2>4. IsMessage(m) /\ m.type \in ClientMessages
    BY Zenon, <2>3 DEF IsMessage, SyncInit, ClientMessages, FileMessages
  <2> HIDE DEF m
  <2>5. IsSeq(<<m>>) /\ Carries(<<m>>, ClientMessages)
    BY Zenon, <2>4, ShortSeq, CarriesShort
  <2>6. ToServerOK'
    BY Zenon, <2>1, <2>2, <2>5, ClientSends
  <2> QED
    BY Zenon, <2>1, <2>2, <2>6, Untouched DEF Types
<1>2. CASE CliTree(c)
  <2> DEFINE m == Msg(c)
  <2>1. /\ Receives(c, "tree")
        /\ \/ m.type = "SYNC_INIT" /\ eng' = [eng EXCEPT ![c] = SetRemoteTree(eng[c], m.tree)]
           \/ eng' = eng
        /\ UNCHANGED <<now, disk, saved, pend, ign, up, theirs, stodo, ctodo, c2s>>
    BY Zenon, <1>2 DEF CliTree, ClientEngine, fs, mon, srv
  <2>2. ToClientOK' /\ (m.type = "SYNC_INIT" => IsTree(m.tree))
    BY Zenon, <2>1, OnlinePhases, ClientTakes DEF IsMessage
  <2> HIDE DEF m
  <2>3. m.type = "SYNC_INIT" => IsEngine(SetRemoteTree(eng[c], m.tree))
    BY Zenon, <2>2, OnHost, HostsAre, RemoteTreeType
  <2>4. EnginesOK'
    BY Zenon, <2>1, <2>3, HostsAre, EngineChanges, Untouched
  <2> QED
    BY Zenon, <2>1, <2>2, <2>4, Untouched DEF Types
<1>3. CASE CliApply(c)
  <2> DEFINE m == Msg(c)
  <2>1. /\ Receives(c, "apply")
        /\ \/ m.type = "SYNC_APPLY" /\ ApplyChanges(c, m.ops)
           \/ UNCHANGED <<now, disk, eng, pend>>
        /\ UNCHANGED <<saved, ign, up, theirs, stodo, ctodo, c2s>>
    BY Zenon, <1>3 DEF CliApply, fs, srv
  <2>2. ToClientOK' /\ (m.type = "SYNC_APPLY" => \A op \in m.ops : IsOp(op))
    BY Zenon, <2>1, OnlinePhases, ClientTakes DEF IsMessage
  <2> HIDE DEF m
  <2>3. /\ FilesOK' /\ EnginesOK'
        /\ pend' \in [Hosts -> [Paths -> SUBSET {"create", "write", "remove"}]]
    BY Zenon, <2>1, <2>2, ApplyTypes, Untouched DEF Types, MonitorsOK
  <2>4. MonitorsOK'
    BY Zenon, <2>1, <2>3 DEF Types, MonitorsOK
  <2> QED
    BY Zenon, <2>1, <2>2, <2>3, <2>4, Untouched DEF Types
<1>4. CASE CliData(c)
  <2> DEFINE m == Msg(c)
             e == ScanLocal(eng[c], disk[c])
  <2>1. /\ Receives(c, "data")
        /\ \/ /\ eng' = [eng EXCEPT ![c] = e]
              /\ ctodo' = [ctodo EXCEPT ![c] = DiffInitial(e.local, e.remote)]
              /\ UNCHANGED <<now, disk>>
           \/ m.type = "FILE_DATA" /\ WriteData(c, m) /\ UNCHANGED <<eng, ctodo>>
           \/ UNCHANGED <<now, disk, eng, ctodo>>
        /\ UNCHANGED <<saved, pend, ign, up, theirs, stodo, c2s>>
    BY Zenon, <1>4 DEF CliData, ClientEngine, fs, mon, srv
  <2>2. IsMessage(m) /\ ToClientOK'
    BY Zenon, <2>1, OnlinePhases, ClientTakes
  <2>3. m.type = "FILE_DATA" => m.path \in Paths /\ m.data \in Seq(Nat)
    BY Zenon, <2>2 DEF IsMessage, FileMessages
  <2>4. IsEngine(e)
    BY Zenon, ScansHost, HostsAre
  <2> HIDE DEF m, e
  <2>5. \A ch \in DiffInitial(e.local, e.remote) : IsChange(ch)
    BY Zenon, <2>4, EngineFields, DiffChanges
  <2>6. FilesOK'
    BY Zenon, <2>1, <2>3, WriteDataTypes, Untouched
  <2>7. EnginesOK' /\ UploadsOK'
    BY Zenon, <2>1, <2>4, <2>5, HostsAre, EngineChanges, UploadsChange, Untouched
  <2> QED
    BY Zenon, <2>1, <2>2, <2>6, <2>7, Untouched DEF Types
<1> QED
  BY Zenon, <1>1, <1>2, <1>3, <1>4

\* The uploads of a client keep the types.
LEMMA UploadTypes ==
  ASSUME Inv, Types, NEW c \in Clients, CliUpload(c) \/ CliUploaded(c) \/ CliLive(c)
  PROVE  Types'
<1>1. CASE CliUpload(c)
  <2>1. PICK ch \in ctodo[c] :
          /\ c2s' = Send(c2s, csess[c], Messages(c, ch))
          /\ ctodo' = [ctodo EXCEPT ![c] = ctodo[c] \ {ch}]
    BY Zenon, <1>1 DEF CliUpload
  <2>2. UNCHANGED <<now, disk, saved, eng, pend, ign, up, theirs, stodo, s2c>>
    BY Zenon, <1>1 DEF CliUpload, fs, mon, srv
  <2>3. IsChange(ch) /\ \A x \in ctodo[c] \ {ch} : IsChange(x)
    BY Zenon DEF Types, UploadsOK
  <2>4. cphase[c] \notin Offline
    BY Zenon, <1>1 DEF CliUpload, Offline
  <2>5. csess[c] \in Sessions
    BY Zenon, <2>4, HasConnection
  <2>6. IsSeq(Messages(c, ch)) /\ Carries(Messages(c, ch), ClientMessages)
    BY Zenon, <2>3, OnHost, HostsAre, MessagesCarry
  <2>7. ToServerOK' /\ UploadsOK'
    BY Zenon, <2>1, <2>3, <2>5, <2>6, ClientSends, UploadsChange
  <2> QED
    BY Zenon, <2>2, <2>7, Untouched DEF Types
<1>2. CASE CliUploaded(c)
  <2> DEFINE S == eng[c].tomb \cap DOMAIN eng[c].remote
  <2>1. /\ ctodo' = [ctodo EXCEPT ![c] = Deleted(S)]
        /\ UNCHANGED <<now, disk, saved, eng, pend, ign, up, theirs, stodo, c2s, s2c>>
    BY Zenon, <1>2 DEF CliUploaded, fs, mon, srv, net
  <2>2. S \in SUBSET Paths
    BY Zenon, OnHost, HostsAre
  <2> HIDE DEF S
  <2>3. UploadsOK'
    BY Zenon, <2>1, <2>2, DeletedChanges, UploadsChange
  <2> QED
    BY Zenon, <2>1, <2>3, Untouched DEF Types
<1>3. CASE CliLive(c)
  <2>1. /\ eng' = [eng EXCEPT ![c] = ClearTombstones(eng[c])]
        /\ saved' = saved \/ saved' = [saved EXCEPT ![c] = NoFile]
        /\ UNCHANGED <<now, disk, pend, ign, up, theirs, stodo, ctodo, c2s, s2c>>
    BY Zenon, <1>3 DEF CliLive, ClientEngine, fs, mon, srv, net
  <2>2. NoFile \in TombstoneFiles
    BY Zenon DEF NoFile, TombstoneFiles
  <2>3. IsEngine(ClearTombstones(eng[c]))
    BY Zenon, OnHost, HostsAre, ClearTombstonesType
  <2>4. EnginesOK' /\ SavedOK'
    BY Zenon, <2>1, <2>2, <2>3, HostsAre, EngineChanges, SavedChanges, Untouched
  <2> QED
    BY Zenon, <2>1, <2>4, Untouched DEF Types
<1> QED
  BY Zenon, <1>1, <1>2, <1>3

\* handleServerMessage of a live session keeps the types.
LEMMA ClientLiveTypes ==
  ASSUME Hashed, Inv, Types, NEW c \in Clients,
         \/ CliFileModify(c) \/ CliFileData(c) \/ CliFileDelete(c) \/ CliSyncApply(c)
         \/ CliOther(c)
  PROVE  Types'
<1> DEFINE m == Msg(c)
<1>1. \E types : LiveMsg(c, types)
  BY Zenon DEF CliFileModify, CliFileData, CliFileDelete, CliSyncApply, CliOther
<1>2. Receives(c, "live") /\ UNCHANGED <<saved, up, theirs, stodo, ctodo, c2s>>
  BY Zenon, <1>1 DEF LiveMsg, srv, cli
<1>3. IsMessage(m) /\ ToClientOK'
  BY Zenon, <1>2, OnlinePhases, ClientTakes
<1>4. SavedOK' /\ HandlersOK' /\ UploadsOK' /\ ToServerOK'
  BY Zenon, <1>2, Untouched
<1>5. IsDisk(disk[c]) /\ IsEngine(eng[c]) /\ c \in Hosts
  BY Zenon, OnHost, HostsAre
<1>6. CASE CliFileModify(c)
  <2>1. /\ m.type = "FILE_MODIFY" /\ ClientIgnores(c, m.path)
        /\ UNCHANGED <<now, disk, eng, pend>>
    BY Zenon, <1>6 DEF CliFileModify, LiveMsg, fs
  <2>2. m.path \in Paths
    BY Zenon, <1>3, <2>1 DEF IsMessage, FileMessages
  <2> HIDE DEF m
  <2>3. MonitorsOK'
    BY Zenon, <1>5, <2>1, <2>2, IgnoresMore DEF ClientIgnores
  <2> QED
    BY Zenon, <1>3, <1>4, <2>1, <2>3, Untouched DEF Types
<1>7. CASE CliFileData(c)
  <2>1. /\ m.type = "FILE_DATA" /\ ClientIgnores(c, m.path) /\ WriteData(c, m)
        /\ UNCHANGED <<eng, pend>>
    BY Zenon, <1>7 DEF CliFileData, LiveMsg
  <2>2. m.path \in Paths /\ m.data \in Seq(Nat)
    BY Zenon, <1>3, <2>1 DEF IsMessage, FileMessages
  <2> HIDE DEF m
  <2>3. MonitorsOK' /\ FilesOK'
    BY Zenon, <1>5, <2>1, <2>2, IgnoresMore, WriteDataTypes DEF ClientIgnores
  <2> QED
    BY Zenon, <1>3, <1>4, <2>1, <2>3, Untouched DEF Types
<1>8. CASE CliFileDelete(c)
  <2> DEFINE d == DeleteEntry(disk[c], m.path)
             e == RemoteRemove(eng[c], m.path)
  <2>1. /\ disk' = [disk EXCEPT ![c] = d] /\ eng' = [eng EXCEPT ![c] = ScanLocal(e, d)]
        /\ ClientIgnores(c, m.path) /\ UNCHANGED <<now, pend>>
    BY Zenon, <1>8 DEF CliFileDelete, ClientEngine
  <2>2. m.type = "FILE_DELETE"
    BY Zenon, <1>8 DEF CliFileDelete, LiveMsg
  <2>3. m.path \in Paths
    BY Zenon, <1>3, <2>2 DEF IsMessage, FileMessages
  <2> HIDE DEF m
  <2>4. IsDisk(d) /\ IsEngine(e)
    BY Zenon, <1>5, <2>3, DeleteEntryDisk, EngineMethods
  <2> HIDE DEF d, e
  <2>5. IsEngine(ScanLocal(e, d))
    BY Zenon, <2>4, ScanLocalType
  <2>6. FilesOK' /\ EnginesOK' /\ MonitorsOK'
    BY Zenon, <1>5, <2>1, <2>3, <2>4, <2>5, FilesChange, EngineChanges, IgnoresMore
       DEF ClientIgnores
  <2> QED
    BY Zenon, <1>3, <1>4, <2>6 DEF Types
<1>9. CASE CliSyncApply(c)
  <2>1. m.type = "SYNC_APPLY" /\ ApplyChanges(c, m.ops) /\ UNCHANGED ign
    BY Zenon, <1>9 DEF CliSyncApply, LiveMsg
  <2>2. \A op \in m.ops : IsOp(op)
    BY Zenon, <1>3, <2>1 DEF IsMessage
  <2> HIDE DEF m
  <2>3. /\ FilesOK' /\ EnginesOK'
        /\ pend' \in [Hosts -> [Paths -> SUBSET {"create", "write", "remove"}]]
    BY Zenon, <2>1, <2>2, ApplyTypes
  <2>4. MonitorsOK'
    BY Zenon, <2>1, <2>3 DEF Types, MonitorsOK
  <2> QED
    BY Zenon, <1>3, <1>4, <2>3, <2>4 DEF Types
<1>10. CASE CliOther(c)
  <2>1. UNCHANGED <<now, disk, eng, pend, ign>>
    BY Zenon, <1>10 DEF CliOther, fs, mon
  <2> QED
    BY Zenon, <1>3, <1>4, <2>1, Untouched DEF Types
<1> QED
  BY Zenon, <1>6, <1>7, <1>8, <1>9, <1>10

\* handleLocalEvent of the monitor's events keeps the types.
LEMMA CliEventTypes ==
  ASSUME Hashed, Inv, Types, NEW c \in Clients, NEW p \in Paths, CliEvent(c, p)
  PROVE  Types'
<1> DEFINE type == EventType(pend[c][p])
           ch == IF type = "delete" THEN [type |-> type, path |-> p]
                 ELSE [type |-> type, path |-> p, entry |-> BuildEntry(disk[c][p])]
<1>1. /\ cphase[c] = "live" /\ Flush(c, p)
      /\ \/ c2s' = c2s
         \/ /\ type = "delete" \/ p \in DOMAIN disk[c]
            /\ c2s' = Send(c2s, csess[c], Messages(c, ch))
      /\ UNCHANGED <<now, disk, saved, eng, ign, up, theirs, stodo, ctodo, s2c>>
  BY Zenon DEF CliEvent, fs, srv, cli
<1>2. IsDisk(disk[c]) /\ c \in Hosts /\ csess[c] \in Sessions
  BY Zenon, <1>1, OnHost, HostsAre, OnlinePhases, HasConnection
<1>3. type \in {"create", "modify", "delete"}
  BY Zenon DEF EventType
<1> HIDE DEF type
<1>4. p \in DOMAIN disk[c] => BuildEntry(disk[c][p]) \in Entries
  BY Zenon, <1>2, BuildEntryType
<1>5. type = "delete" \/ p \in DOMAIN disk[c] => IsChange(ch)
  BY Zenon, <1>3, <1>4 DEF IsChange
<1> HIDE DEF ch
<1>6. type = "delete" \/ p \in DOMAIN disk[c] =>
        IsSeq(Messages(c, ch)) /\ Carries(Messages(c, ch), ClientMessages)
  BY Zenon, <1>2, <1>5, MessagesCarry
<1>7. ToServerOK'
  BY Zenon, <1>1, <1>2, <1>6, ClientSends, Untouched
<1>8. MonitorsOK'
  BY Zenon, <1>1, <1>2, Flushed DEF Types, MonitorsOK
<1> QED
  BY Zenon, <1>1, <1>7, <1>8, Untouched DEF Types

-----------------------------------------------------------------------------
(* Types: users and the network.                                           *)

\* A user's change of a directory keeps the types.
LEMMA UserTypes ==
  ASSUME Types, NEW h \in Hosts, NEW d, IsDisk(d), NEW written,
         disk' = [disk EXCEPT ![h] = d], now' = now \/ now' = now + 1,
         Observe(h, disk[h], d, written),
         UNCHANGED <<saved, eng, ign, up, theirs, stodo, ctodo, c2s, s2c>>
  PROVE  Types'
<1>1. FilesOK'
  BY Zenon, FilesChange
<1>2. MonitorsOK'
  BY Zenon, Observed DEF Types, MonitorsOK
<1> QED
  BY Zenon, <1>1, <1>2, Untouched DEF Types

\* Users who write, make directories and delete keep the types.
LEMMA UserStepTypes ==
  ASSUME Types, NEW h \in Hosts, NEW p \in Paths, UserStep(h, p)
  PROVE  Types'
<1>1. IsDisk(disk[h]) /\ now \in Nat /\ now + 1 \in Nat
  BY Zenon, OnHost
<1>2. FileMode \in Modes /\ Sizes \subseteq Nat /\ <<>> \in Seq(Nat)
  BY FileSyncAssumption
<1>3. ASSUME NEW n \in Sizes, UserWrite(h, p, n) PROVE Types'
  <2> DEFINE data == [i \in 1 .. n |-> now + 1]
             f == File(data, now + 1)
             d == Put(disk[h], p, f)
  <2>1. /\ disk' = [disk EXCEPT ![h] = d] /\ now' = now + 1 /\ Observe(h, disk[h], d, {p})
        /\ UNCHANGED <<saved, eng, ign, up, theirs, stodo, ctodo, c2s, s2c>>
    BY Zenon, <1>3 DEF UserWrite, srv, cli, net
  <2>2. n \in Nat
    BY Zenon, <1>2
  <2>3. data \in Seq(Nat)
    BY <1>1, <2>2
  <2> HIDE DEF data
  <2>4. f \in Inodes
    BY Zenon, <1>1, <1>2, <2>3 DEF File, Inodes
  <2> HIDE DEF f
  <2>5. IsDisk(d)
    BY Zenon, <1>1, <2>4, PutDisk
  <2> HIDE DEF d
  <2> QED
    BY Zenon, <2>1, <2>5, UserTypes
<1>4. CASE UserMkdir(h, p)
  <2> DEFINE f == Directory(now + 1)
             d == Put(disk[h], p, f)
  <2>1. /\ disk' = [disk EXCEPT ![h] = d] /\ now' = now + 1 /\ Observe(h, disk[h], d, {})
        /\ UNCHANGED <<saved, eng, ign, up, theirs, stodo, ctodo, c2s, s2c>>
    BY Zenon, <1>4 DEF UserMkdir, srv, cli, net
  <2>2. f \in Inodes
    BY Zenon, <1>1, <1>2 DEF Directory, Inodes
  <2> HIDE DEF f
  <2>3. IsDisk(d)
    BY Zenon, <1>1, <2>2, PutDisk
  <2> HIDE DEF d
  <2> QED
    BY Zenon, <2>1, <2>3, UserTypes
<1>5. CASE UserDelete(h, p)
  <2> DEFINE d == DeleteEntry(disk[h], p)
  <2>1. /\ disk' = [disk EXCEPT ![h] = d] /\ now' = now /\ Observe(h, disk[h], d, {})
        /\ UNCHANGED <<saved, eng, ign, up, theirs, stodo, ctodo, c2s, s2c>>
    BY Zenon, <1>5 DEF UserDelete, srv, cli, net
  <2>2. IsDisk(d)
    BY Zenon, <1>1, DeleteEntryDisk
  <2> HIDE DEF d
  <2> QED
    BY Zenon, <2>1, <2>2, UserTypes
<1> QED
  BY Zenon, <1>3, <1>4, <1>5 DEF UserStep

\* A lost connection keeps the types.
LEMMA DropTypes ==
  ASSUME Inv, Types, NEW s \in Sessions, Drop(s)
  PROVE  Types'
<1>1. /\ c2s = [x \in Sessions |-> c2s[x]] /\ s2c = [x \in Sessions |-> s2c[x]]
      /\ IsSeq(c2s[s]) /\ IsSeq(s2c[s])
  BY Zenon DEF Inv, Typed
<1>2. UNCHANGED <<now, disk, saved, eng, pend, ign, up, theirs, stodo, ctodo>>
  BY Zenon DEF Drop, fs, mon, srv, cli
<1>3. PICK q \in Prefixes(c2s[s]) : c2s' = [c2s EXCEPT ![s] = q]
  BY Zenon DEF Drop
<1>4. PICK r \in Prefixes(s2c[s]) : s2c' = [s2c EXCEPT ![s] = r]
  BY Zenon DEF Drop
<1>5. Carries(q, ClientMessages) /\ Carries(r, ServerMessages)
  BY Zenon, <1>1, CarriesPrefix DEF Types, ToServerOK, ToClientOK
<1>6. /\ \A x \in Sessions : c2s'[x] = c2s[x] \/ c2s'[x] = q
      /\ \A x \in Sessions : s2c'[x] = s2c[x] \/ s2c'[x] = r
  BY Zenon, <1>1, <1>3, <1>4
<1>7. ToServerOK' /\ ToClientOK'
  BY Zenon, <1>5, <1>6 DEF Types, ToServerOK, ToClientOK
<1> QED
  BY Zenon, <1>2, <1>7, Untouched DEF Types

\* A monitor that listens to a path again keeps the types.
LEMMA IgnoreExpiresTypes ==
  ASSUME Types, NEW h \in Hosts, NEW p \in Paths, IgnoreExpires(h, p)
  PROVE  Types'
<1>1. /\ ign' = [ign EXCEPT ![h] = ign[h] \ {p}]
      /\ UNCHANGED <<now, disk, saved, eng, pend, up, theirs, stodo, ctodo, c2s, s2c>>
  BY Zenon DEF IgnoreExpires, fs, srv, cli, net
<1>2. ign[h] \ {p} \in SUBSET Paths
  BY Zenon, OnHost
<1>3. MonitorsOK'
  BY Zenon, <1>1, <1>2, IgnoresChange DEF Types, MonitorsOK
<1> QED
  BY Zenon, <1>1, <1>3, Untouched DEF Types

\* The programs are first started with these types.
LEMMA InitTypes == Init => Types
<1> SUFFICES ASSUME Init PROVE Types
  BY Zenon
<1>1. FilesOK
  <2>1. now \in Nat
    BY Zenon DEF Init, FirstStart
  <2>2. disk \in [Hosts -> UNION {[D -> InitInodes] : D \in SUBSET Paths}]
    BY Zenon DEF Init
  <2>3. ASSUME NEW h \in Hosts PROVE IsDisk(disk[h])
    <3>1. PICK D \in SUBSET Paths : disk[h] \in [D -> InitInodes]
      BY <2>2
    <3> QED
      BY Zenon, <3>1, FileSyncAssumption DEF IsDisk
  <2> QED
    BY Zenon, <2>1, <2>2, <2>3 DEF FilesOK
<1>2. NoFile \in TombstoneFiles
  BY Zenon DEF NoFile, TombstoneFiles
<1>3. EnginesOK
  <2>1. IsEngine(NewEngine(NoFile)) /\ eng = [h \in Hosts |-> NewEngine(NoFile)]
    BY Zenon, <1>2, NewEngineType DEF Init
  <2> QED
    BY Zenon, <2>1 DEF EnginesOK
<1>4. SavedOK
  BY Zenon, <1>2 DEF Init, SavedOK
<1>5. MonitorsOK
  <2>1. NoPending \in [Paths -> SUBSET {"create", "write", "remove"}]
    BY Zenon DEF NoPending
  <2>2. pend = [h \in Hosts |-> NoPending] /\ ign = [h \in Hosts |-> {}]
    BY Zenon DEF Init
  <2> QED
    BY Zenon, <2>1, <2>2 DEF MonitorsOK
<1>6. HandlersOK
  <2>1. /\ up = FALSE /\ theirs = [s \in Sessions |-> {}] /\ stodo = [s \in Sessions |-> {}]
    BY Zenon DEF Init
  <2> QED
    BY Zenon, <2>1 DEF HandlersOK
<1>7. UploadsOK
  <2>1. ctodo = [c \in Clients |-> {}]
    BY Zenon DEF Init
  <2> QED
    BY Zenon, <2>1 DEF UploadsOK
<1>8. ToServerOK /\ ToClientOK
  <2>1. c2s = [s \in Sessions |-> <<>>] /\ s2c = [s \in Sessions |-> <<>>]
    BY Zenon DEF Init
  <2> QED
    BY Zenon, <2>1, CarriesShort DEF ToServerOK, ToClientOK
<1> QED
  BY Zenon, <1>1, <1>3, <1>4, <1>5, <1>6, <1>7, <1>8 DEF Types

\* Every step keeps the types.
LEMMA StepTypes == ASSUME Hashed PROVE Inv /\ Types /\ [Next]_vars => Types'
<1> SUFFICES ASSUME Inv, Types, [Next]_vars PROVE Types'
  BY Zenon
<1>1. ASSUME NEW s \in Sessions, SrvStep(s) PROVE Types'
  BY Zenon, <1>1, HandshakeTypes, StreamTypes, SrvFileCreateTypes, SrvFileModifyTypes,
     SrvFileDeleteTypes, SrvFileDataTypes DEF SrvStep
<1>2. ASSUME NEW s \in Sessions, Tick(s) \/ Drop(s) PROVE Types'
  BY Zenon, <1>2, TickTypes, DropTypes
<1>3. ASSUME NEW c \in Clients, CliStep(c) \/ CliCrash(c) PROVE Types'
  BY Zenon, <1>3, ConnectTypes, SessionTypes, UploadTypes, ClientLiveTypes DEF CliStep
<1>4. ASSUME NEW p \in Paths, SrvEvent(p) \/ \E c \in Clients : CliEvent(c, p) PROVE Types'
  BY Zenon, <1>4, SrvEventTypes, CliEventTypes
<1>5. ASSUME NEW h \in Hosts, NEW p \in Paths, IgnoreExpires(h, p) \/ UserStep(h, p)
      PROVE  Types'
  BY Zenon, <1>5, IgnoreExpiresTypes, UserStepTypes
<1>6. CASE ServerStart \/ ServerStop \/ ServerCrash
  BY Zenon, <1>6, ServerProcessTypes
<1>7. CASE UNCHANGED vars
  BY Zenon, <1>7, Untouched DEF Types, vars, fs, mon, srv, cli, net
<1> QED
  BY Zenon, <1>1, <1>2, <1>3, <1>4, <1>5, <1>6, <1>7 DEF Next

-----------------------------------------------------------------------------
(* Types: what users have done.                                            *)

Versions == [there : BOOLEAN, data : Seq(Nat)]

HistoryOK == removed \in SUBSET Paths /\ newest \in [Paths -> Versions]

\* What was there when the programs were first started had been written.
Past == \A i \in InitInodes : i.mtime <= FirstStart

\* The content of a file, and none, as the history has them.
LEMMA VersionsAre ==
  Gone \in Versions /\ \A data \in Seq(Nat) : Holds(data) \in Versions
<1>1. <<>> \in Seq(Nat)
  OBVIOUS
<1> QED
  BY Zenon, <1>1 DEF Versions, Gone, Holds

\* The last modified of some versions that were there at the start.
LEMMA LatestIs ==
  ASSUME Past, NEW S \in SUBSET InitInodes
  PROVE  LatestOf(S) \in Versions
<1>1. CASE S = {}
  BY Zenon, <1>1, VersionsAre DEF LatestOf
<1>2. CASE S # {}
  <2> DEFINE last(i) == \A j \in S : j.mtime <= i.mtime
  <2>1. \A i \in S : i.mtime \in Nat /\ i.mtime <= 2 /\ i.data \in Seq(Nat)
    BY Zenon, FileSyncAssumption DEF Past, FirstStart, Inodes
  <2>2. \E i \in S : last(i)
    <3>1. CASE \E i \in S : i.mtime = 2
      BY Zenon, <2>1, <3>1
    <3>2. CASE (\A i \in S : i.mtime # 2) /\ \E i \in S : i.mtime = 1
      BY <2>1, <3>2
    <3>3. CASE \A i \in S : i.mtime # 2 /\ i.mtime # 1
      BY <1>2, <2>1, <3>3
    <3> QED
      BY Zenon, <3>1, <3>2, <3>3
  <2> HIDE DEF last
  <2>3. (CHOOSE i \in S : last(i)) \in S
    BY Zenon, <2>2
  <2>4. LatestOf(S) = Holds((CHOOSE i \in S : last(i)).data)
    BY Zenon, <1>2 DEF LatestOf, last
  <2> QED
    BY Zenon, <2>1, <2>3, <2>4, VersionsAre
<1> QED
  BY Zenon, <1>1, <1>2

\* The history at the first start of the programs.
LEMMA InitHistory == ASSUME Past PROVE Init => HistoryOK
<1> SUFFICES ASSUME Init PROVE HistoryOK
  BY Zenon
<1> DEFINE V(p) == {disk[h][p] : h \in {g \in Hosts : p \in DOMAIN disk[g]}}
<1>1. /\ removed = {} /\ newest = [p \in Paths |-> LatestOf(V(p))]
      /\ disk \in [Hosts -> UNION {[D -> InitInodes] : D \in SUBSET Paths}]
  BY Zenon DEF Init
<1>2. ASSUME NEW p \in Paths PROVE V(p) \in SUBSET InitInodes
  <2>1. ASSUME NEW h \in Hosts, p \in DOMAIN disk[h] PROVE disk[h][p] \in InitInodes
    <3>1. PICK D \in SUBSET Paths : disk[h] \in [D -> InitInodes]
      BY <1>1
    <3> QED
      BY Zenon, <2>1, <3>1
  <2> QED
    BY Zenon, <2>1
<1> HIDE DEF V
<1>3. \A p \in Paths : LatestOf(V(p)) \in Versions
  BY Zenon, <1>2, LatestIs
<1> QED
  BY Zenon, <1>1, <1>3 DEF HistoryOK

\* Only users make history: the steps of the server do not,
LEMMA ServerKeepsHistory ==
  ASSUME NEW s, SrvStep(s) \/ Tick(s) \/ Drop(s)
  PROVE  UNCHANGED <<removed, newest>>
<1>1. CASE SrvAccepted(s) \/ SrvHello(s) \/ SrvSendTree(s) \/ SrvSyncInit(s)
  BY Zenon, <1>1 DEF SrvAccepted, SrvHello, SrvSendTree, SrvSyncInit, hist, ghost
<1>2. CASE SrvSyncApply(s) \/ SrvStream(s) \/ SrvAck(s) \/ SrvEnd(s)
  BY Zenon, <1>2 DEF SrvSyncApply, SrvStream, SrvAck, SrvEnd, hist, ghost
<1>3. CASE SrvFileCreate(s) \/ SrvFileModify(s) \/ SrvFileDelete(s) \/ SrvFileData(s)
  <2>1. \E type : Live(s, type)
    BY Zenon, <1>3 DEF SrvFileCreate, SrvFileModify, SrvFileDelete, SrvFileData
  <2> QED
    BY Zenon, <2>1 DEF Live, hist, ghost
<1>4. CASE Tick(s) \/ Drop(s)
  BY Zenon, <1>4 DEF Tick, Drop, ghost
<1> QED
  BY Zenon, <1>1, <1>2, <1>3, <1>4 DEF SrvStep

\* nor do those of a client,
LEMMA ClientKeepsHistory ==
  ASSUME NEW c, CliStep(c) \/ CliCrash(c)
  PROVE  UNCHANGED <<removed, newest>>
<1>1. CASE CliHandshakeFails(c) \/ CliLost(c)
  BY Zenon, <1>1 DEF CliHandshakeFails, CliLost, EndSession, hist, ghost
<1>2. CASE CliStart(c) \/ CliConnect(c) \/ CliHelloAck(c) \/ CliTree(c)
  BY Zenon, <1>2 DEF CliStart, CliConnect, CliHelloAck, CliTree, hist, ghost
<1>3. CASE CliApply(c) \/ CliData(c) \/ CliUpload(c) \/ CliUploaded(c) \/ CliLive(c)
  BY Zenon, <1>3 DEF CliApply, CliData, CliUpload, CliUploaded, CliLive, hist, ghost
<1>4. CASE \/ CliFileModify(c) \/ CliFileData(c) \/ CliFileDelete(c) \/ CliSyncApply(c)
           \/ CliOther(c)
  <2>1. \E types : LiveMsg(c, types)
    BY Zenon, <1>4 DEF CliFileModify, CliFileData, CliFileDelete, CliSyncApply, CliOther
  <2> QED
    BY Zenon, <2>1 DEF LiveMsg, hist, ghost
<1>5. CASE CliCrash(c)
  BY Zenon, <1>5 DEF CliCrash, ghost
<1> QED
  BY Zenon, <1>1, <1>2, <1>3, <1>4, <1>5 DEF CliStep

\* nor do the monitors' events and the server's process.
LEMMA OthersKeepHistory ==
  ASSUME \/ \E p : SrvEvent(p) \/ \E c : CliEvent(c, p)
         \/ \E h, p : IgnoreExpires(h, p)
         \/ ServerStart \/ ServerStop \/ ServerCrash \/ UNCHANGED vars
  PROVE  UNCHANGED <<removed, newest>>
<1>1. CASE \E p : SrvEvent(p) \/ \E c : CliEvent(c, p)
  BY Zenon, <1>1 DEF SrvEvent, CliEvent, hist, ghost
<1>2. CASE \E h, p : IgnoreExpires(h, p)
  BY Zenon, <1>2 DEF IgnoreExpires, hist, ghost
<1>3. CASE ServerStart \/ ServerStop \/ ServerCrash
  BY Zenon, <1>3 DEF ServerStart, ServerStop, ServerCrash, ServerDies, hist, ghost
<1>4. CASE UNCHANGED vars
  BY Zenon, <1>4 DEF vars, hist, ghost
<1> QED
  BY Zenon, <1>1, <1>2, <1>3, <1>4

\* What users do keeps the type of the history.
LEMMA UserHistory ==
  ASSUME Types, HistoryOK, NEW h \in Hosts, NEW p \in Paths, UserStep(h, p)
  PROVE  HistoryOK'
<1>1. IsDisk(disk[h]) /\ now + 1 \in Nat /\ FileMode \in Modes /\ <<>> \in Seq(Nat)
  BY OnHost, FileSyncAssumption
<1>2. \/ removed' = removed
      \/ removed' = removed \cup {p}
  BY Zenon DEF UserStep, UserWrite, UserMkdir, UserDelete
<1>3. \E v \in Versions : newest' = [newest EXCEPT ![p] = v]
  <2>1. CASE UserMkdir(h, p)
    BY Zenon, <1>1, <2>1, VersionsAre DEF UserMkdir
  <2>2. CASE UserDelete(h, p)
    BY Zenon, <2>2, VersionsAre DEF UserDelete
  <2>3. ASSUME NEW n \in Sizes, UserWrite(h, p, n)
        PROVE  \E v \in Versions : newest' = [newest EXCEPT ![p] = v]
    <3> DEFINE data == [i \in 1 .. n |-> now + 1]
               d == Put(disk[h], p, File(data, now + 1))
    <3>1. newest' = [newest EXCEPT ![p] = Holds(d[p].data)]
      BY Zenon, <2>3 DEF UserWrite
    <3>2. n \in Nat
      BY Zenon, FileSyncAssumption
    <3>3. data \in Seq(Nat)
      BY <1>1, <3>2
    <3> HIDE DEF data
    <3>4. File(data, now + 1) \in Inodes /\ File(data, now + 1).data = data
      BY Zenon, <1>1, <3>3 DEF File, Inodes
    <3>5. d[p] = File(data, now + 1)
      BY Zenon, <1>1, <3>4, PutDisk
    <3> HIDE DEF d
    <3> QED
      BY Zenon, <3>1, <3>3, <3>4, <3>5, VersionsAre
  <2> QED
    BY Zenon, <2>1, <2>2, <2>3 DEF UserStep
<1>4. removed' \in SUBSET Paths
  BY Zenon, <1>2 DEF HistoryOK
<1>5. newest' \in [Paths -> Versions]
  BY Zenon, <1>3 DEF HistoryOK
<1> QED
  BY Zenon, <1>4, <1>5 DEF HistoryOK

\* Every step keeps the type of the history.
LEMMA StepHistory == Types /\ HistoryOK /\ [Next]_vars => HistoryOK'
<1> SUFFICES ASSUME Types, HistoryOK, [Next]_vars PROVE HistoryOK'
  BY Zenon
<1>1. CASE UNCHANGED <<removed, newest>>
  BY Zenon, <1>1 DEF HistoryOK
<1>2. CASE \E h \in Hosts, p \in Paths : UserStep(h, p)
  BY Zenon, <1>2, UserHistory
<1> QED
  BY ZenonT(30), <1>1, <1>2, ServerKeepsHistory, ClientKeepsHistory, OthersKeepHistory DEF Next

-----------------------------------------------------------------------------
(* Types: the theorem.                                                     *)

\* The kinds of the messages under way on a connection.
LEMMA ChannelType ==
  ASSUME NEW q, IsSeq(q), NEW T, Carries(q, T)
  PROVE  [i \in DOMAIN q |-> [type |-> q[i].type]] \in Seq([type : T])
<1>1. Len(q) \in Nat /\ DOMAIN q = 1 .. Len(q)
  BY Zenon, SeqDomain
<1>2. \A i \in 1 .. Len(q) : [type |-> q[i].type] \in [type : T]
  BY Zenon, <1>1 DEF Carries
<1> QED
  BY <1>1, <1>2

\* The invariants have the types that TypeOK states.
LEMMA TypesTypeOK == Inv /\ Types /\ HistoryOK => TypeOK
<1> SUFFICES ASSUME Inv, Types, HistoryOK PROVE TypeOK
  BY Zenon
<1>1. /\ [s \in Sessions |-> [i \in DOMAIN c2s[s] |-> [type |-> c2s[s][i].type]]]
           \in Channels(ClientMessages)
      /\ [s \in Sessions |-> [i \in DOMAIN s2c[s] |-> [type |-> s2c[s][i].type]]]
           \in Channels(ServerMessages)
  <2>1. ASSUME NEW s \in Sessions
        PROVE  /\ [i \in DOMAIN c2s[s] |-> [type |-> c2s[s][i].type]]
                    \in Seq([type : ClientMessages])
               /\ [i \in DOMAIN s2c[s] |-> [type |-> s2c[s][i].type]]
                    \in Seq([type : ServerMessages])
    BY Zenon, ChannelType DEF Inv, Typed, Types, ToServerOK, ToClientOK
  <2> QED
    BY Zenon, <2>1 DEF Channels
<1>2. Typed /\ FilesOK /\ EnginesOK /\ SavedOK /\ MonitorsOK /\ HandlersOK /\ HistoryOK
  BY Zenon DEF Inv, Types
<1> QED
  BY ONLY Zenon, <1>1, <1>2
     DEF TypeOK, Typed, FilesOK, EnginesOK, SavedOK, MonitorsOK, HandlersOK, HistoryOK,
         Versions, ServerPhases, ClientPhases

\* Type correctness.  Whatever users do and whatever fails,
\* every directory, engine, tree and tombstone file stays one, through every
\* path from a message to the disk and from the disk to a message; a handler
\* and a client are at one of their phases; and a connection carries only the
\* kinds of messages that its reader is sent.
THEOREM TypeCorrect == ASSUME Hashed, Past PROVE Spec => []TypeOK
<1>1. Spec => []Inv
  BY InitInv, StepInv, PTL DEF Spec
<1>2. Spec => [](Inv /\ Types)
  BY <1>1, InitTypes, StepTypes, PTL DEF Spec
<1>3. Spec => []HistoryOK
  BY <1>2, InitHistory, StepHistory, PTL DEF Spec
<1> QED
  BY <1>2, <1>3, TypesTypeOK, PTL

=============================================================================
