------------------------------ MODULE Transfer ------------------------------
(***************************************************************************)
(* Who waits for whom while files are transferred.                         *)
(*                                                                         *)
(* A write blocks while the socket buffers are full, and most goroutines   *)
(* do not read while they write: both ends send their tree before they     *)
(* read the other's, the server streams its files before it reads, a       *)
(* client uploads its files before it reads, and the handler of a client   *)
(* passes each chunk on to all other clients before it reads the next one. *)
(*                                                                         *)
(* Sizes are counted in units of the buffers; all units of a message but   *)
(* the last are "part", the last one has its kind.  The sessions start     *)
(* when every client has received its HELLO_ACK.                           *)
(***************************************************************************)
EXTENDS Naturals, Sequences, FiniteSets, Functions

CONSTANTS Clients,
          Cap,        \* units one direction of a connection holds
          ServerTree, \* size of the server's tree
          ClientTree, \* size of each client's tree
          Streamed,   \* chunks the server streams in an initial sync
          Uploads,    \* kinds of the messages each client uploads after it
          MaxChanges, \* local changes of the clients in live sessions
          MaxEvents   \* monitor events and ticks of the server

ASSUME TransferAssumption ==
  /\ IsFiniteSet(Clients)
  /\ Cap \in Nat \ {0} /\ ServerTree \in Nat \ {0} /\ Streamed \in Nat
  /\ ClientTree \in [Clients -> Nat \ {0}]
  /\ Uploads \in [Clients -> Seq({"create", "data", "delete"})]
  /\ MaxChanges \in Nat /\ MaxEvents \in Nat

VARIABLES phase,   \* where the main goroutine of each client is
          hphase,  \* where the handler of each client is on the server
          out,     \* messages a goroutine has to write before it does anything else
          pipe,    \* units under way in each direction of each connection
          wmu,     \* the goroutine that writes in that direction, or none
          changes, events

vars == <<phase, hphase, out, pipe, wmu, changes, events>>

\* The goroutines: two on each client, a handler and a ticker per client and
\* the monitor's on the server.
Main(c) == <<"main", c>>
Sender(c) == <<"sender", c>>
Handler(c) == <<"handler", c>>
Ticker(c) == <<"ticker", c>>
Monitor == <<"monitor", "server">>
Goroutines ==
  {Main(c) : c \in Clients} \cup {Sender(c) : c \in Clients} \cup
  {Handler(c) : c \in Clients} \cup {Ticker(c) : c \in Clients} \cup {Monitor}

UpTo(c) == <<"up", c>>      \* to the server
DownTo(c) == <<"down", c>>  \* to the client
Pipes == {UpTo(c) : c \in Clients} \cup {DownTo(c) : c \in Clients}

Nobody == <<"none", "none">>

Kinds == {"tree", "apply", "data", "ack", "create", "modify", "delete"}
Message(to, kind, size) == [to |-> to, kind |-> kind, size |-> size]
Messages(to, kinds) == [i \in DOMAIN kinds |-> Message(to, kinds[i], 1)]
Times(n, m) == [i \in 1 .. n |-> m]

\* The orders in which Go may iterate over a map with these keys.
Orders(S) == Bijection(1 .. Cardinality(S), S)

\* Messages of these kinds to one client after another.
ToEach(order, kinds) ==
  [i \in 1 .. Len(order) * Len(kinds) |->
     Message(DownTo(order[((i - 1) \div Len(kinds)) + 1]), kinds[((i - 1) % Len(kinds)) + 1], 1)]

\* runSession has sent HELLO and read HELLO_ACK, the handler of the client has
\* sent it; both now send their tree.
Init ==
  /\ phase = [c \in Clients |-> "tree"]
  /\ hphase = [c \in Clients |-> "tree"]
  /\ out = [g \in Goroutines |->
              CASE g[1] = "main"    -> <<Message(UpTo(g[2]), "tree", ClientTree[g[2]])>>
                [] g[1] = "handler" -> <<Message(DownTo(g[2]), "tree", ServerTree)>>
                [] OTHER            -> <<>>]
  /\ pipe = [x \in Pipes |-> <<>>]
  /\ wmu = [x \in Pipes |-> Nobody]
  /\ changes = 0 /\ events = 0

-----------------------------------------------------------------------------
(* Writing and reading a unit.                                             *)

CanWrite(g) ==
  /\ out[g] # <<>>
  /\ wmu[Head(out[g]).to] \in {Nobody, g}
  /\ Len(pipe[Head(out[g]).to]) < Cap

\* Mutant: one unit too many is counted.
WriteOneMore(g) ==
  /\ CanWrite(g)
  /\ LET m == Head(out[g]) IN
       /\ wmu' = [wmu EXCEPT ![m.to] = IF m.size > 0 THEN g ELSE Nobody]
       /\ IF m.size > 0
          THEN /\ pipe' = [pipe EXCEPT ![m.to] = Append(@, "part")]
               /\ out' = [out EXCEPT ![g][1].size = @ - 1]
          ELSE /\ pipe' = [pipe EXCEPT ![m.to] = Append(@, m.kind)]
               /\ out' = [out EXCEPT ![g] = Tail(@)]
  /\ UNCHANGED <<phase, hphase, changes, events>>

Write(g) ==
  /\ CanWrite(g)
  /\ LET m == Head(out[g]) IN
       /\ wmu' = [wmu EXCEPT ![m.to] = IF m.size > 1 THEN g ELSE Nobody]
       /\ IF m.size > 1
          THEN /\ pipe' = [pipe EXCEPT ![m.to] = Append(@, "part")]
               /\ out' = [out EXCEPT ![g][1].size = @ - 1]
          ELSE /\ pipe' = [pipe EXCEPT ![m.to] = Append(@, m.kind)]
               /\ out' = [out EXCEPT ![g] = Tail(@)]
  /\ UNCHANGED <<phase, hphase, changes, events>>

Takes(x, unit) ==
  /\ pipe[x] # <<>> /\ Head(pipe[x]) = unit
  /\ pipe' = [pipe EXCEPT ![x] = Tail(@)]
  /\ UNCHANGED <<wmu, changes, events>>

\* ReadMessage waits for the rest of a message.
ReadsPart(g, x) ==
  /\ out[g] = <<>>
  /\ Takes(x, "part")
  /\ UNCHANGED <<phase, hphase, out>>

-----------------------------------------------------------------------------
(* The main goroutine of client c, and its sender.                         *)

\* A first message other than the server's tree skips the initial sync.
ClientReadsTree(c, kind) ==
  /\ phase[c] = "tree" /\ out[Main(c)] = <<>>
  /\ Takes(DownTo(c), kind)
  /\ phase' = [phase EXCEPT ![c] = IF kind = "tree" THEN "apply" ELSE "live"]
  /\ UNCHANGED <<hphase, out>>

\* Mutant: the client uploads before it has read what the server streams.
ClientUploadsEarly(c, kind) ==
  /\ phase[c] = "apply" /\ out[Main(c)] = <<>>
  /\ Takes(DownTo(c), kind)
  /\ phase' = [phase EXCEPT ![c] = "upload"]
  /\ out' = [out EXCEPT ![Main(c)] = Messages(UpTo(c), Uploads[c])]
  /\ UNCHANGED hphase

\* Whatever it is, the next message is taken for the SYNC_APPLY.
ClientReadsApply(c, kind) ==
  /\ phase[c] = "apply" /\ out[Main(c)] = <<>>
  /\ Takes(DownTo(c), kind)
  /\ phase' = [phase EXCEPT ![c] = "data"]
  /\ UNCHANGED <<hphase, out>>

\* Chunks until the ACK, then the client's own files.
ClientReadsData(c, kind) ==
  /\ phase[c] = "data" /\ out[Main(c)] = <<>>
  /\ Takes(DownTo(c), kind)
  /\ phase' = [phase EXCEPT ![c] = IF kind = "ack" THEN "upload" ELSE "data"]
  /\ out' = IF kind = "ack"
            THEN [out EXCEPT ![Main(c)] = Messages(UpTo(c), Uploads[c])]
            ELSE out
  /\ UNCHANGED hphase

\* Mutant: the upload is thought to end only with a last file.
UploadEndsWithFile(c) ==
  /\ phase[c] = "upload" /\ out[Main(c)] = <<>>
  /\ Uploads[c] # <<>>
  /\ phase' = [phase EXCEPT ![c] = "live"]
  /\ UNCHANGED <<hphase, out, pipe, wmu, changes, events>>

UploadEnds(c) ==
  /\ phase[c] = "upload" /\ out[Main(c)] = <<>>
  /\ phase' = [phase EXCEPT ![c] = "live"]
  /\ UNCHANGED <<hphase, out, pipe, wmu, changes, events>>

ClientReadsLive(c, kind) ==
  /\ phase[c] = "live" /\ out[Main(c)] = <<>>
  /\ Takes(DownTo(c), kind)
  /\ UNCHANGED <<phase, hphase, out>>

\* A local change in a live session: FILE_CREATE and the content of a file,
\* FILE_CREATE of a directory, or FILE_DELETE.
LocalChange(c) ==
  /\ phase[c] = "live" /\ out[Sender(c)] = <<>>
  /\ changes < MaxChanges
  /\ changes' = changes + 1
  /\ \E kinds \in {<<"create", "data">>, <<"create">>, <<"delete">>} :
       out' = [out EXCEPT ![Sender(c)] = Messages(UpTo(c), kinds)]
  /\ UNCHANGED <<phase, hphase, pipe, wmu, events>>

-----------------------------------------------------------------------------
(* The server.                                                             *)

\* SYNC_APPLY, the files and the ACK.
HandlerReadsTree(c) ==
  /\ hphase[c] = "tree" /\ out[Handler(c)] = <<>>
  /\ Takes(UpTo(c), "tree")
  /\ hphase' = [hphase EXCEPT ![c] = "stream"]
  /\ out' = [out EXCEPT ![Handler(c)] =
               <<Message(DownTo(c), "apply", 1)>>
                 \o Times(Streamed, Message(DownTo(c), "data", 1))
                 \o <<Message(DownTo(c), "ack", 1)>>]
  /\ UNCHANGED phase

\* The ticker is started and the handler begins to read.
HandlerGoesLive(c) ==
  /\ hphase[c] = "stream" /\ out[Handler(c)] = <<>>
  /\ hphase' = [hphase EXCEPT ![c] = "live"]
  /\ UNCHANGED <<phase, out, pipe, wmu, changes, events>>

\* handleMessage: FILE_DATA and FILE_DELETE are passed on to all other clients,
\* one after another.
HandlerReadsLive(c, kind) ==
  /\ hphase[c] = "live" /\ out[Handler(c)] = <<>>
  /\ Takes(UpTo(c), kind)
  /\ IF kind \in {"data", "delete"}
     THEN \E others \in Orders(Clients \ {c}) :
            out' = [out EXCEPT ![Handler(c)] =
                      [i \in DOMAIN others |-> Message(DownTo(others[i]), kind, 1)]]
     ELSE out' = out
  /\ UNCHANGED <<phase, hphase>>

\* handleMonitorEvent: FILE_MODIFY and the content of a file, FILE_MODIFY of a
\* directory or FILE_DELETE, to one client after another.
MonitorEvent ==
  /\ out[Monitor] = <<>>
  /\ events < MaxEvents
  /\ events' = events + 1
  /\ \E order \in Orders(Clients),
        kinds \in {<<"modify", "data">>, <<"modify">>, <<"delete">>} :
       out' = [out EXCEPT ![Monitor] = ToEach(order, kinds)]
  /\ UNCHANGED <<phase, hphase, pipe, wmu, changes>>

\* monitorClientChanges found a difference.
Tick(c) ==
  /\ hphase[c] = "live" /\ out[Ticker(c)] = <<>>
  /\ events < MaxEvents
  /\ events' = events + 1
  /\ out' = [out EXCEPT ![Ticker(c)] = <<Message(DownTo(c), "apply", 1)>>]
  /\ UNCHANGED <<phase, hphase, pipe, wmu, changes>>

-----------------------------------------------------------------------------
ClientNext(c) ==
  \/ ReadsPart(Main(c), DownTo(c)) \/ UploadEnds(c)
  \/ \E kind \in Kinds : \/ ClientReadsTree(c, kind) \/ ClientReadsApply(c, kind)
                         \/ ClientReadsData(c, kind) \/ ClientReadsLive(c, kind)

HandlerNext(c) ==
  \/ ReadsPart(Handler(c), UpTo(c)) \/ HandlerReadsTree(c) \/ HandlerGoesLive(c)
  \/ \E kind \in Kinds : HandlerReadsLive(c, kind)

\* What is done without any further change of a file.
Progress ==
  \/ \E g \in Goroutines : Write(g)
  \/ \E c \in Clients : ClientNext(c) \/ HandlerNext(c)

Next ==
  \/ Progress
  \/ \E c \in Clients : LocalChange(c) \/ Tick(c)
  \/ MonitorEvent

Spec == Init /\ [][Next]_vars

\* As long as some goroutine can go on, one of them does.
FairSpec == Spec /\ WF_vars(Progress)

-----------------------------------------------------------------------------
TypeOK ==
  /\ phase \in [Clients -> {"tree", "apply", "data", "upload", "live"}]
  /\ hphase \in [Clients -> {"tree", "stream", "live"}]
  /\ out \in [Goroutines -> Seq([to : Pipes, kind : Kinds, size : Nat \ {0}])]
  /\ pipe \in [Pipes -> Seq(Kinds \cup {"part"})]
  /\ \A x \in Pipes : Len(pipe[x]) <= Cap
  /\ wmu \in [Pipes -> Goroutines \cup {Nobody}]
  /\ changes \in 0 .. MaxChanges /\ events \in 0 .. MaxEvents

Reader(x) == IF x[1] = "up" THEN Handler(x[2]) ELSE Main(x[2])

\* The goroutine a blocked writer waits for: the one that holds the lock, or
\* the one that has to read.
Awaited(g) ==
  LET x == Head(out[g]).to
  IN IF wmu[x] \in {Nobody, g} THEN Reader(x) ELSE wmu[x]

Blocked == {g \in Goroutines : out[g] # <<>> /\ ~CanWrite(g)}

\* No circle of goroutines in which each waits for the next to read or to
\* unlock: of any blocked goroutines one waits for a goroutine outside of them,
\* so that every chain of waiting goroutines ends at one that can go on.
NoCircularWait == \A S \in SUBSET Blocked : S # {} => \E g \in S : Awaited(g) \notin S

\* All sessions get through their initial sync and everything that was sent is
\* read by somebody.
Settled ==
  /\ \A c \in Clients : phase[c] = "live" /\ hphase[c] = "live"
  /\ \A g \in Goroutines : out[g] = <<>>
  /\ \A x \in Pipes : pipe[x] = <<>>

Settles == <>[]Settled

=============================================================================
