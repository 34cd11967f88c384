------------------------------ MODULE FileSync ------------------------------
(***************************************************************************)
(* The whole system: one server and its clients (cmd/server, cmd/client),  *)
(* their directories, engines and monitors, the TCP connections between    *)
(* them, users that change the directories, lost connections, and stops,   *)
(* crashes and restarts of the processes.                                  *)
(*                                                                         *)
(* Simplifications, each the subject of a module of its own or listed in   *)
(* the README: ScanLocal and SaveTombstones are atomic (see Engine), a     *)
(* monitor has no queues and no timers (see Monitor), connections deliver  *)
(* messages in order (see Wire) and their buffers never fill up (see       *)
(* Transfer), a session's goroutines end with it (see ClientProcess), a    *)
(* file's content travels as one FILE_DATA, and paths are not nested.      *)
(***************************************************************************)
EXTENDS EngineOps, LocalDisk, FiniteSets

CONSTANTS
  Server, Clients,
  InitInodes,   \* what a path may hold when the programs are first started
  Sizes,        \* lengths, in blocks, of the files users write
  Kinds,        \* what users create: "file", "dir"
  Editors,      \* the hosts whose users change files
  EditWhen,     \* when they do, see Mode; likewise
  TickWhen,     \* when the server's tickers tick
  FailWhen,     \* when connections and processes fail
  Limit         \* bounds: Limit.edit, .drop, .tick, .crash, .stop, .connect

ASSUME FileSyncAssumption ==
  /\ Server \notin Clients
  /\ InitInodes \subseteq Inodes
  /\ Sizes \subseteq Nat
  /\ Kinds \subseteq {"file", "dir"}
  /\ Trimmed \in [Paths -> Paths]
  /\ FileMode \in Modes
  /\ Limit \in [{"edit", "drop", "tick", "crash", "stop", "connect"} -> Nat]

Hosts == Clients \cup {Server}
Sessions == 1 .. Limit.connect

VARIABLES
  now,      \* the clock: advances with every write
  disk,     \* disk[h]: the synchronised directory of a host
  saved,    \* saved[h]: its tombstone file
  eng,      \* eng[h]: the engine of its process
  pend,     \* pend[h][p]: fsnotify operations debounced for a path
  ign,      \* ign[h]: the paths its monitor ignores
  up,       \* the server process runs
  sphase,   \* sphase[s]: where handleClient of a session is
  theirs,   \* theirs[s]: the paths of the tree its client sent
  stodo,    \* stodo[s]: the changes whose content it has yet to stream
  cphase,   \* cphase[c]: where runSession of a client is
  csess,    \* csess[c]: the connection it uses
  ctodo,    \* ctodo[c]: the changes it has yet to send
  conn,     \* conn[s]: "none", "open" or "closed"
  c2s, s2c, \* c2s[s], s2c[s]: messages under way on a connection
  spent,    \* how much of each Limit is used up
  removed,  \* history: paths that a user has deleted somewhere
  newest    \* history: newest[p]: what the latest change of a user left at p

fs   == <<now, disk>>
mon  == <<pend, ign>>
srv  == <<up, sphase, theirs, stodo>>
cli  == <<cphase, csess, ctodo>>
net  == <<conn, c2s, s2c>>
ghost == <<removed, newest>>
hist == <<spent, ghost>>
vars == <<fs, saved, eng, mon, srv, cli, net, hist>>

-----------------------------------------------------------------------------
(* Messages (protocol/message.go), with the fields that are read.          *)

Hello          == [type |-> "HELLO"]
HelloAck       == [type |-> "HELLO_ACK"]
Ack            == [type |-> "ACK"]
SyncInit(tree) == [type |-> "SYNC_INIT", tree |-> tree]
SyncApply(ops) == [type |-> "SYNC_APPLY", ops |-> ops]
FileCreate(e, p) == [type |-> "FILE_CREATE", path |-> p, entry |-> e]
\* Mutant: the wrong message type.
FileModifyAsCreate(e, p) == [type |-> "FILE_CREATE", path |-> p, entry |-> e]

FileModify(e, p) == [type |-> "FILE_MODIFY", path |-> p, entry |-> e]
FileDelete(p)    == [type |-> "FILE_DELETE", path |-> p]
FileData(p, data) == [type |-> "FILE_DATA", path |-> p, data |-> data]

\* ReadFileChunked of a path whose entry is a regular file's.
Content(d, p, e) ==
  IF e.type = "file" /\ Readable(d, p) THEN <<FileData(p, d[p].data)>> ELSE <<>>

-----------------------------------------------------------------------------
NoPending == [p \in Paths |-> {}]

Gone == [there |-> FALSE, data |-> <<>>]
Holds(data) == [there |-> TRUE, data |-> data]

\* The content of the last modified of some versions of a file.
LatestOf(inodes) ==
  IF inodes = {} THEN Gone
  ELSE Holds((CHOOSE i \in inodes : \A j \in inodes : j.mtime <= i.mtime).data)

\* The time at which the programs are first started.
FirstStart == 2

Init ==
  /\ now = FirstStart
  /\ disk \in [Hosts -> UNION {[D -> InitInodes] : D \in SUBSET Paths}]
  /\ saved = [h \in Hosts |-> NoFile]
  /\ eng = [h \in Hosts |-> NewEngine(NoFile)]
  /\ pend = [h \in Hosts |-> NoPending]
  /\ ign = [h \in Hosts |-> {}]
  /\ up = FALSE
  /\ sphase = [s \in Sessions |-> "none"]
  /\ theirs = [s \in Sessions |-> {}]
  /\ stodo = [s \in Sessions |-> {}]
  /\ cphase = [c \in Clients |-> "start"]
  /\ csess = [c \in Clients |-> 0]
  /\ ctodo = [c \in Clients |-> {}]
  /\ conn = [s \in Sessions |-> "none"]
  /\ c2s = [s \in Sessions |-> <<>>]
  /\ s2c = [s \in Sessions |-> <<>>]
  /\ spent = [k \in DOMAIN Limit |-> 0]
  /\ removed = {}
  /\ newest = [p \in Paths |-> LatestOf({disk[h][p] : h \in {g \in Hosts : p \in DOMAIN disk[g]}})]

Spend(k) == spent[k] < Limit[k] /\ spent' = [spent EXCEPT ![k] = @ + 1]

\* Sessions in Server.clients: from accept until the handler returns.
Registered == {s \in Sessions : sphase[s] \notin {"none", "ended"}}

Connected(c) == cphase[c] \notin {"start", "dial"}

\* Nothing is under way, every client is connected and has synchronised.
Quiescent ==
  /\ up
  /\ \A h \in Hosts : pend[h] = NoPending
  /\ \A s \in Registered : sphase[s] = "live" /\ c2s[s] = <<>> /\ s2c[s] = <<>>
  /\ \A c \in Clients : cphase[c] = "live" /\ csess[c] \in Registered
                        /\ conn[csess[c]] = "open"

\* When users act, tickers tick and failures strike: "quiet", everything was
\* exchanged and the monitors listen again; "down" or "offline", after a first
\* session, no client is connected and the server does not run or does;
\* "upload", a client sends its own files after an initial synchronisation;
\* "busy", otherwise.
Mode ==
  CASE Quiescent /\ \A h \in Hosts : ign[h] = {} -> "quiet"
    [] spent["connect"] > 0 /\ Registered = {} /\ ~ \E c \in Clients : Connected(c) ->
         IF up THEN "offline" ELSE "down"
    [] \E c \in Clients : cphase[c] = "upload" -> "upload"
    [] OTHER -> "busy"

\* WriteMessage: a write to a connection that is closed has no effect.
Send(chan, s, ms) ==
  IF conn[s] = "open" THEN [chan EXCEPT ![s] = @ \o ms] ELSE chan

SendAll(S, ms) ==
  [s \in Sessions |-> IF s \in S /\ conn[s] = "open" THEN s2c[s] \o ms ELSE s2c[s]]

ScanLocal(e, d) == CommitScan(e, WalkDirectory(d))

-----------------------------------------------------------------------------
(* Monitor: fsnotify events that are not ignored are debounced per path.   *)

Monitoring(h) == IF h = Server THEN up ELSE cphase[h] = "live"

\* The operations a change from old to new is reported as; written: the paths
\* whose content was written or truncated.  Attribute changes are not.
Events(old, new, written) ==
  [p \in Paths |->
     CASE p \in DOMAIN new \ DOMAIN old -> {"create"}
       [] p \in DOMAIN old \ DOMAIN new -> {"remove"}
       [] p \in DOMAIN old \cap DOMAIN new \cap written -> {"write"}
       [] OTHER -> {}]

Observe(h, old, new, written) ==
  LET ops == Events(old, new, written)
  IN  pend' = IF Monitoring(h)
              THEN [pend EXCEPT ![h] = [p \in Paths |->
                      IF p \in ign[h] THEN @[p] ELSE @[p] \cup ops[p]]]
              ELSE pend

\* flushDebounce: deletion dominates creation, creation dominates writing.
EventType(ops) ==
  IF "remove" \in ops THEN "delete"
  ELSE IF "create" \in ops THEN "create" ELSE "modify"

Flush(h, p) == pend' = [pend EXCEPT ![h][p] = {}]

IgnoreExpires(h, p) ==
  /\ p \in ign[h]
  /\ ign' = [ign EXCEPT ![h] = @ \ {p}]
  /\ UNCHANGED <<fs, saved, eng, pend, srv, cli, net, hist>>

-----------------------------------------------------------------------------
(* Users.                                                                  *)

Edit(h) == h \in Editors /\ Mode \in EditWhen /\ Spend("edit")

UserWrite(h, p, n) ==
  LET d == Put(disk[h], p, File([i \in 1 .. n |-> now + 1], now + 1))
  IN  /\ "file" \in Kinds
      /\ CanWrite(disk[h], p)
      /\ Edit(h)
      /\ now' = now + 1
      /\ disk' = [disk EXCEPT ![h] = d]
      /\ Observe(h, disk[h], d, {p})
      /\ newest' = [newest EXCEPT ![p] = Holds(d[p].data)]
      /\ UNCHANGED <<saved, eng, ign, srv, cli, net, removed>>

UserMkdir(h, p) ==
  LET d == Put(disk[h], p, Directory(now + 1))
  IN  /\ "dir" \in Kinds
      /\ p \notin DOMAIN disk[h]
      /\ Edit(h)
      /\ now' = now + 1
      /\ disk' = [disk EXCEPT ![h] = d]
      /\ Observe(h, disk[h], d, {})
      /\ newest' = [newest EXCEPT ![p] = Holds(<<>>)]
      /\ UNCHANGED <<saved, eng, ign, srv, cli, net, removed>>

UserDelete(h, p) ==
  LET d == DeleteEntry(disk[h], p)
  IN  /\ p \in DOMAIN disk[h]
      /\ Edit(h)
      /\ disk' = [disk EXCEPT ![h] = d]
      /\ removed' = removed \cup {p}
      /\ newest' = [newest EXCEPT ![p] = Gone]
      /\ Observe(h, disk[h], d, {})
      /\ UNCHANGED <<now, saved, eng, ign, srv, cli, net>>

-----------------------------------------------------------------------------
(* The server: the initial synchronisation of a session (handleClient).    *)

ServerEngine(e) == eng' = [eng EXCEPT ![Server] = e]

\* The next message of a session is of this type.
Reads(s, phase, type) ==
  sphase[s] = phase /\ c2s[s] # <<>> /\ Head(c2s[s]).type = type

Consume(s) == c2s' = [c2s EXCEPT ![s] = Tail(@)]

Goto(s, phase) == sphase' = [sphase EXCEPT ![s] = phase]

SrvAccepted(s) ==
  /\ sphase[s] = "new"
  /\ ServerEngine(ScanLocal(eng[Server], disk[Server]))
  /\ Goto(s, "hello")
  /\ UNCHANGED <<fs, saved, mon, up, theirs, stodo, cli, net, hist>>

SrvHello(s) ==
  /\ Reads(s, "hello", "HELLO")
  /\ Consume(s)
  /\ s2c' = Send(s2c, s, <<HelloAck>>)
  /\ Goto(s, "init")
  /\ UNCHANGED <<fs, saved, eng, mon, up, theirs, stodo, cli, conn, hist>>

SrvSendTree(s) ==
  /\ sphase[s] = "init"
  /\ s2c' = Send(s2c, s, <<SyncInit(eng[Server].local)>>)
  /\ Goto(s, "tree")
  /\ UNCHANGED <<fs, saved, eng, mon, up, theirs, stodo, cli, conn, c2s, hist>>

SrvSyncInit(s) ==
  /\ Reads(s, "tree", "SYNC_INIT")
  /\ Consume(s)
  /\ LET tree == Head(c2s[s]).tree
     IN  /\ ServerEngine(AddToPreviousPaths(SetRemoteTree(eng[Server], tree), DOMAIN tree))
         /\ theirs' = [theirs EXCEPT ![s] = DOMAIN tree]
  /\ Goto(s, "diff")
  /\ UNCHANGED <<fs, saved, mon, up, stodo, cli, conn, s2c, hist>>

\* Mutant: everything the server does not have is deleted.
InitialChangesAll(e, paths) == Diff(e.local, e.remote)

\* Creations and modifications, and deletions of what only the client has and
\* the server remembers as deleted.
InitialChanges(e, paths) ==
  DiffInitial(e.local, e.remote) \cup Deleted((paths \ DOMAIN e.local) \cap e.tomb)

SrvSyncApply(s) ==
  LET changes == InitialChanges(eng[Server], theirs[s])
  IN  /\ sphase[s] = "diff"
      /\ s2c' = Send(s2c, s, <<SyncApply(buildSyncOps(changes))>>)
      /\ stodo' = [stodo EXCEPT ![s] = {ch \in changes : ch.type # "delete"}]
      /\ theirs' = [theirs EXCEPT ![s] = {}]
      /\ Goto(s, "stream")
      /\ UNCHANGED <<fs, saved, eng, mon, up, cli, conn, c2s, hist>>

SrvStream(s) ==
  /\ sphase[s] = "stream"
  /\ \E ch \in stodo[s] :
       /\ s2c' = Send(s2c, s, Content(disk[Server], ch.path, ch.entry))
       /\ stodo' = [stodo EXCEPT ![s] = @ \ {ch}]
  /\ UNCHANGED <<fs, saved, eng, mon, up, sphase, theirs, cli, conn, c2s, hist>>

SrvAck(s) ==
  /\ sphase[s] = "stream" /\ stodo[s] = {}
  /\ s2c' = Send(s2c, s, <<Ack>>)
  /\ ServerEngine(ClearTombstones(eng[Server]))
  /\ saved' = [saved EXCEPT ![Server] = NoFile]
  /\ Goto(s, "live")
  /\ UNCHANGED <<fs, mon, up, theirs, stodo, cli, conn, c2s, hist>>

\* The handler returns: a read found the end of a closed connection, or a
\* write to it failed.  The connection is closed, the session unregistered.
SrvEnd(s) ==
  /\ conn[s] = "closed"
  /\ \/ sphase[s] \in {"hello", "tree", "live"} /\ c2s[s] = <<>>
     \/ sphase[s] \in {"init", "diff", "stream"}
  /\ Goto(s, "ended")
  /\ theirs' = [theirs EXCEPT ![s] = {}]
  /\ stodo' = [stodo EXCEPT ![s] = {}]
  /\ c2s' = [c2s EXCEPT ![s] = <<>>]
  /\ UNCHANGED <<fs, saved, eng, mon, up, cli, conn, s2c, hist>>

-----------------------------------------------------------------------------
(* The server: messages of a live session (handleMessage).                 *)

ServerIgnores(p) == ign' = [ign EXCEPT ![Server] = @ \cup {p}]

Live(s, type) ==
  /\ Reads(s, "live", type)
  /\ Consume(s)
  /\ UNCHANGED <<saved, up, sphase, theirs, stodo, cli, conn, hist>>

SrvFileCreate(s) ==
  LET m  == Head(c2s[s])
      d  == disk[Server]
      ok == IF m.entry.type = "dir" THEN CanMkdir(d, m.path) ELSE CanWrite(d, m.path)
      d2 == IF m.entry.type = "dir" THEN Mkdir(d, m.path, m.entry, now + 1)
                                    ELSE CreateFile(d, m.path, m.entry)
  IN  /\ Live(s, "FILE_CREATE")
      /\ ServerIgnores(m.path)
      /\ IF ok
         THEN /\ disk' = [disk EXCEPT ![Server] = d2]
              /\ now' = IF m.entry.type = "dir" THEN now + 1 ELSE now
              /\ ServerEngine(ScanLocal(RemoteSet(ClearTombstone(eng[Server], m.path),
                                                  m.path, m.entry), d2))
         ELSE UNCHANGED <<fs, eng>>
      /\ UNCHANGED <<pend, s2c>>

SrvFileModify(s) ==
  LET m  == Head(c2s[s])
      d2 == ApplyAttrs(disk[Server], m.path, m.entry)
  IN  /\ Live(s, "FILE_MODIFY")
      /\ ServerIgnores(m.path)
      /\ IF m.path \in DOMAIN disk[Server]
         THEN /\ disk' = [disk EXCEPT ![Server] = d2]
              /\ ServerEngine(ScanLocal(RemoteSet(eng[Server], m.path, m.entry), d2))
         ELSE UNCHANGED <<disk, eng>>
      /\ UNCHANGED <<now, pend, s2c>>

\* Mutant: a deletion is not passed on to the other clients.
SrvFileDeleteSilent(s) ==
  LET m  == Head(c2s[s])
      d2 == DeleteEntry(disk[Server], m.path)
      e  == LocalRemove(RemoteRemove(eng[Server], m.path), m.path)
  IN  /\ Live(s, "FILE_DELETE")
      /\ ServerIgnores(m.path)
      /\ disk' = [disk EXCEPT ![Server] = d2]
      /\ ServerEngine(ScanLocal(AddTombstone(e, m.path), d2))
      /\ UNCHANGED <<now, pend, s2c>>

SrvFileDelete(s) ==
  LET m  == Head(c2s[s])
      d2 == DeleteEntry(disk[Server], m.path)
      e  == LocalRemove(RemoteRemove(eng[Server], m.path), m.path)
  IN  /\ Live(s, "FILE_DELETE")
      /\ ServerIgnores(m.path)
      /\ disk' = [disk EXCEPT ![Server] = d2]
      /\ ServerEngine(ScanLocal(AddTombstone(e, m.path), d2))
      /\ s2c' = SendAll(Registered \ {s}, <<m>>)
      /\ UNCHANGED <<now, pend>>

\* Mutant: content is not passed on to the other clients.
SrvFileDataSilent(s) ==
  LET m  == Head(c2s[s])
      d2 == WriteChunkAt(disk[Server], m.path, m.data, now + 1)
  IN  /\ Live(s, "FILE_DATA")
      /\ IF CanWrite(disk[Server], m.path)
         THEN /\ now' = now + 1
              /\ disk' = [disk EXCEPT ![Server] = d2]
              /\ Observe(Server, disk[Server], d2, IF m.data = <<>> THEN {} ELSE {m.path})
         ELSE UNCHANGED <<fs, pend>>
      /\ UNCHANGED <<eng, ign, s2c>>

SrvFileData(s) ==
  LET m  == Head(c2s[s])
      d2 == WriteChunkAt(disk[Server], m.path, m.data, now + 1)
  IN  /\ Live(s, "FILE_DATA")
      /\ IF CanWrite(disk[Server], m.path)
         THEN /\ now' = now + 1
              /\ disk' = [disk EXCEPT ![Server] = d2]
              /\ Observe(Server, disk[Server], d2, IF m.data = <<>> THEN {} ELSE {m.path})
              /\ s2c' = SendAll(Registered \ {s}, <<m>>)
         ELSE UNCHANGED <<fs, pend, s2c>>
      /\ UNCHANGED <<eng, ign>>

\* The ticker of monitorClientChanges: operations without any content.
Tick(s) ==
  LET e   == ScanLocal(eng[Server], disk[Server])
      ops == buildSyncOps(Diff(e.local, e.remote))
  IN  /\ sphase[s] = "live"
      /\ Mode \in TickWhen
      /\ Spend("tick")
      /\ ServerEngine(e)
      /\ s2c' = IF ops = {} THEN s2c ELSE Send(s2c, s, <<SyncApply(ops)>>)
      /\ UNCHANGED <<fs, saved, mon, srv, cli, conn, c2s, ghost>>

-----------------------------------------------------------------------------
(* The server: its own file changes (handleMonitorEvent).                  *)

SrvEvent(p) ==
  LET type  == EventType(pend[Server][p])
      d     == disk[Server]
      e     == ScanLocal(eng[Server], d)
      entry == BuildEntry(d[p])
  IN  /\ up /\ pend[Server][p] # {}
      /\ Flush(Server, p)
      /\ IF type = "delete"
         THEN /\ ServerEngine(RemoteRemove(e, p))
              /\ IF Registered = {}
                 THEN saved' = [saved EXCEPT ![Server] = TombstoneLines(e)]
                 ELSE UNCHANGED saved
              /\ s2c' = SendAll(Registered, <<FileDelete(p)>>)
              /\ UNCHANGED ign
         ELSE IF p \in DOMAIN d
         THEN /\ ServerEngine(RemoteSet(e, p, entry))
              /\ ServerIgnores(p)
              /\ s2c' = SendAll(Registered, <<FileModify(entry, p)>> \o Content(d, p, entry))
              /\ UNCHANGED saved
         ELSE ServerEngine(e) /\ UNCHANGED <<saved, s2c, ign>>
      /\ UNCHANGED <<fs, srv, cli, conn, c2s, hist>>

-----------------------------------------------------------------------------
(* The server process.                                                     *)

ServerStart ==
  /\ ~up
  /\ up' = TRUE
  /\ ServerEngine(ScanLocal(NewEngine(saved[Server]), disk[Server]))
  /\ UNCHANGED <<fs, saved, mon, sphase, theirs, stodo, cli, net, hist>>

ServerDies ==
  /\ up
  /\ Mode \in FailWhen
  /\ up' = FALSE
  /\ sphase' = [s \in Sessions |-> IF s \in Registered THEN "ended" ELSE sphase[s]]
  /\ theirs' = [s \in Sessions |-> {}]
  /\ stodo' = [s \in Sessions |-> {}]
  /\ conn' = [s \in Sessions |-> IF conn[s] = "open" THEN "closed" ELSE conn[s]]
  /\ c2s' = [s \in Sessions |-> <<>>]
  /\ pend' = [pend EXCEPT ![Server] = NoPending]
  /\ ign' = [ign EXCEPT ![Server] = {}]
  /\ UNCHANGED <<fs, eng, cli, s2c, ghost>>

ServerStop ==
  /\ Spend("stop")
  /\ saved' = [saved EXCEPT ![Server] = TombstoneLines(eng[Server])]
  /\ ServerDies

ServerCrash == Spend("crash") /\ ServerDies /\ UNCHANGED saved

-----------------------------------------------------------------------------
(* A client: connection and initial synchronisation (runSession).          *)

ClientEngine(c, e) == eng' = [eng EXCEPT ![c] = e]

Enter(c, phase) == cphase' = [cphase EXCEPT ![c] = phase]

\* The client is at this point and a message is there to be read.
Receives(c, phase) ==
  /\ cphase[c] = phase /\ s2c[csess[c]] # <<>>
  /\ s2c' = [s2c EXCEPT ![csess[c]] = Tail(@)]

Msg(c) == Head(s2c[csess[c]])

Disconnect(c) ==
  /\ conn' = [conn EXCEPT ![csess[c]] = "closed"]
  /\ s2c' = [s2c EXCEPT ![csess[c]] = <<>>]

\* runSession returns: its deferred calls stop the monitor and save.
EndSession(c) ==
  /\ Enter(c, "start")
  /\ ctodo' = [ctodo EXCEPT ![c] = {}]
  /\ Disconnect(c)
  /\ saved' = [saved EXCEPT ![c] = TombstoneLines(eng[c])]
  /\ pend' = [pend EXCEPT ![c] = NoPending]
  /\ ign' = [ign EXCEPT ![c] = {}]
  /\ UNCHANGED <<fs, eng, srv, csess, c2s, hist>>

CliStart(c) ==
  /\ cphase[c] = "start"
  /\ ClientEngine(c, ScanLocal(NewEngine(saved[c]), disk[c]))
  /\ Enter(c, "dial")
  /\ UNCHANGED <<fs, saved, mon, srv, csess, ctodo, net, hist>>

\* Mutant: HELLO is sent once by Connect and once by SendHello.
CliConnectTwice(c) ==
  LET s == spent["connect"] + 1
  IN  /\ cphase[c] = "dial" /\ up
      /\ Spend("connect")
      /\ conn' = [conn EXCEPT ![s] = "open"]
      /\ c2s' = [c2s EXCEPT ![s] = <<Hello, Hello>>]
      /\ csess' = [csess EXCEPT ![c] = s]
      /\ Goto(s, "new")
      /\ Enter(c, "ack")
      /\ UNCHANGED <<fs, saved, eng, mon, up, theirs, stodo, ctodo, s2c, ghost>>

\* Connect retries until the server accepts; the session is then registered.
CliConnect(c) ==
  LET s == spent["connect"] + 1
  IN  /\ cphase[c] = "dial" /\ up
      /\ Spend("connect")
      /\ conn' = [conn EXCEPT ![s] = "open"]
      /\ c2s' = [c2s EXCEPT ![s] = <<Hello>>]
      /\ csess' = [csess EXCEPT ![c] = s]
      /\ Goto(s, "new")
      /\ Enter(c, "ack")
      /\ UNCHANGED <<fs, saved, eng, mon, up, theirs, stodo, ctodo, s2c, ghost>>

CliHelloAck(c) ==
  /\ Receives(c, "ack")
  /\ Msg(c) = HelloAck
  /\ c2s' = Send(c2s, csess[c], <<SyncInit(eng[c].local)>>)
  /\ Enter(c, "tree")
  /\ UNCHANGED <<fs, saved, eng, mon, srv, csess, ctodo, conn, hist>>

\* Any other answer to HELLO fails the handshake.
CliHandshakeFails(c) ==
  /\ cphase[c] = "ack" /\ s2c[csess[c]] # <<>>
  /\ Msg(c) # HelloAck
  /\ EndSession(c)

\* Anything but SYNC_INIT skips the whole initial synchronisation.
CliTree(c) ==
  /\ Receives(c, "tree")
  /\ IF Msg(c).type = "SYNC_INIT"
     THEN ClientEngine(c, SetRemoteTree(eng[c], Msg(c).tree)) /\ Enter(c, "apply")
     ELSE UNCHANGED eng /\ Enter(c, "live")
  /\ UNCHANGED <<fs, saved, mon, srv, csess, ctodo, conn, c2s, hist>>

\* ApplyChanges: stops at the first failing operation, else rescans.
ApplyChanges(c, ops) ==
  \E done \in AppliedOps(disk[c], ops) :
    LET d == AfterOps(disk[c], done, now + 1)
        written == {op.path : op \in {o \in done : o.type = "createFile"}}
    IN  /\ now' = now + 1
        /\ disk' = [disk EXCEPT ![c] = d]
        /\ ClientEngine(c, IF done = ops THEN ScanLocal(eng[c], d) ELSE eng[c])
        /\ Observe(c, disk[c], d, written)

CliApply(c) ==
  /\ Receives(c, "apply")
  /\ IF Msg(c).type = "SYNC_APPLY" /\ Msg(c).ops # {}
     THEN ApplyChanges(c, Msg(c).ops)
     ELSE UNCHANGED <<fs, eng, pend>>
  /\ Enter(c, "data")
  /\ UNCHANGED <<saved, ign, srv, csess, ctodo, conn, c2s, hist>>

\* FILE_DATA of handleServerMessage, without its monitor.
WriteData(c, m) ==
  IF CanWrite(disk[c], m.path)
  THEN /\ now' = now + 1
       /\ disk' = [disk EXCEPT ![c] = WriteChunkAt(@, m.path, m.data, now + 1)]
  ELSE UNCHANGED fs

\* Up to the ACK, everything but FILE_DATA is dropped.
CliData(c) ==
  LET e == ScanLocal(eng[c], disk[c])
  IN  /\ Receives(c, "data")
      /\ IF Msg(c) = Ack
         THEN /\ ClientEngine(c, e)
              /\ ctodo' = [ctodo EXCEPT ![c] = DiffInitial(e.local, e.remote)]
              /\ Enter(c, "upload")
              /\ UNCHANGED fs
         ELSE /\ IF Msg(c).type = "FILE_DATA" THEN WriteData(c, Msg(c)) ELSE UNCHANGED fs
              /\ UNCHANGED <<eng, ctodo, cphase>>
      /\ UNCHANGED <<saved, mon, srv, csess, conn, c2s, hist>>

\* handleLocalEvent: the messages sent for a change.
Messages(c, ch) ==
  IF ch.type = "delete" THEN <<FileDelete(ch.path)>>
  ELSE <<IF ch.type = "create" THEN FileCreate(ch.entry, ch.path)
                               ELSE FileModify(ch.entry, ch.path)>>
         \o Content(disk[c], ch.path, ch.entry)

CliUpload(c) ==
  /\ cphase[c] \in {"upload", "forget"}
  /\ \E ch \in ctodo[c] :
       /\ c2s' = Send(c2s, csess[c], Messages(c, ch))
       /\ ctodo' = [ctodo EXCEPT ![c] = @ \ {ch}]
  /\ UNCHANGED <<fs, saved, eng, mon, srv, cphase, csess, conn, s2c, hist>>

\* The uploads are followed by deletions of what the client has tombstoned and
\* the server's tree contains.
CliUploaded(c) ==
  /\ cphase[c] = "upload" /\ ctodo[c] = {}
  /\ ctodo' = [ctodo EXCEPT ![c] = Deleted(eng[c].tomb \cap DOMAIN eng[c].remote)]
  /\ Enter(c, "forget")
  /\ UNCHANGED <<fs, saved, eng, mon, srv, csess, net, hist>>

CliLive(c) ==
  /\ cphase[c] = "forget" /\ ctodo[c] = {}
  /\ ClientEngine(c, ClearTombstones(eng[c]))
  /\ saved' = IF eng[c].tomb = {} THEN saved ELSE [saved EXCEPT ![c] = NoFile]
  /\ Enter(c, "live")
  /\ UNCHANGED <<fs, mon, srv, csess, ctodo, net, hist>>

\* Mutant: the end of a session is noticed only in the main receive loop.
CliLostLive(c) ==
  /\ cphase[c] = "live"
  /\ conn[csess[c]] = "closed" /\ s2c[csess[c]] = <<>>
  /\ EndSession(c)

\* A read finds the end of a closed connection.
CliLost(c) ==
  /\ cphase[c] \in {"ack", "tree", "apply", "data", "live"}
  /\ conn[csess[c]] = "closed" /\ s2c[csess[c]] = <<>>
  /\ EndSession(c)

-----------------------------------------------------------------------------
(* A client: messages and local changes of a live session.                 *)

ClientIgnores(c, p) == ign' = [ign EXCEPT ![c] = @ \cup {p}]

LiveMsg(c, types) ==
  /\ Receives(c, "live")
  /\ Msg(c).type \in types
  /\ UNCHANGED <<saved, srv, cli, conn, c2s, hist>>

\* FILE_MODIFY changes nothing but the monitor's ignore list.
CliFileModify(c) ==
  /\ LiveMsg(c, {"FILE_MODIFY"})
  /\ ClientIgnores(c, Msg(c).path)
  /\ UNCHANGED <<fs, eng, pend>>

CliFileData(c) ==
  /\ LiveMsg(c, {"FILE_DATA"})
  /\ ClientIgnores(c, Msg(c).path)
  /\ WriteData(c, Msg(c))
  /\ UNCHANGED <<eng, pend>>

CliFileDelete(c) ==
  LET p == Msg(c).path
      d == DeleteEntry(disk[c], p)
  IN  /\ LiveMsg(c, {"FILE_DELETE"})
      /\ ClientIgnores(c, p)
      /\ disk' = [disk EXCEPT ![c] = d]
      /\ ClientEngine(c, ScanLocal(RemoteRemove(eng[c], p), d))
      /\ UNCHANGED <<now, pend>>

CliSyncApply(c) ==
  /\ LiveMsg(c, {"SYNC_APPLY"})
  /\ ApplyChanges(c, Msg(c).ops)
  /\ UNCHANGED ign

\* What is left of a skipped initial synchronisation.
CliOther(c) ==
  /\ LiveMsg(c, {"SYNC_INIT", "ACK"})
  /\ UNCHANGED <<fs, eng, mon>>

CliEvent(c, p) ==
  LET type == EventType(pend[c][p])
      ch   == IF type = "delete" THEN [type |-> type, path |-> p]
              ELSE [type |-> type, path |-> p, entry |-> BuildEntry(disk[c][p])]
  IN  /\ cphase[c] = "live" /\ pend[c][p] # {}
      /\ Flush(c, p)
      /\ c2s' = IF type = "delete" \/ p \in DOMAIN disk[c]
                THEN Send(c2s, csess[c], Messages(c, ch)) ELSE c2s
      /\ UNCHANGED <<fs, saved, eng, ign, srv, cli, conn, s2c, hist>>

\* The process is killed; what it has sent is still delivered.
CliCrash(c) ==
  /\ Connected(c)
  /\ Mode \in FailWhen
  /\ Spend("crash")
  /\ Enter(c, "start")
  /\ ctodo' = [ctodo EXCEPT ![c] = {}]
  /\ Disconnect(c)
  /\ pend' = [pend EXCEPT ![c] = NoPending]
  /\ ign' = [ign EXCEPT ![c] = {}]
  /\ UNCHANGED <<fs, saved, eng, srv, csess, c2s, ghost>>

-----------------------------------------------------------------------------
(* The network: a lost connection delivers a prefix of what was sent.      *)

Prefixes(q) == {SubSeq(q, 1, n) : n \in 0 .. Len(q)}

Drop(s) ==
  /\ conn[s] = "open"
  /\ Mode \in FailWhen
  /\ Spend("drop")
  /\ conn' = [conn EXCEPT ![s] = "closed"]
  /\ \E q \in Prefixes(c2s[s]) : c2s' = [c2s EXCEPT ![s] = q]
  /\ \E q \in Prefixes(s2c[s]) : s2c' = [s2c EXCEPT ![s] = q]
  /\ UNCHANGED <<fs, saved, eng, mon, srv, cli, ghost>>

-----------------------------------------------------------------------------
SrvStep(s) ==
  \/ SrvAccepted(s) \/ SrvHello(s) \/ SrvSendTree(s) \/ SrvSyncInit(s) \/ SrvSyncApply(s)
  \/ SrvStream(s) \/ SrvAck(s) \/ SrvEnd(s)
  \/ SrvFileCreate(s) \/ SrvFileModify(s) \/ SrvFileDelete(s) \/ SrvFileData(s)

CliStep(c) ==
  \/ CliStart(c) \/ CliConnect(c) \/ CliHelloAck(c) \/ CliHandshakeFails(c)
  \/ CliTree(c) \/ CliApply(c) \/ CliData(c) \/ CliUpload(c) \/ CliUploaded(c)
  \/ CliLive(c) \/ CliLost(c)
  \/ CliFileModify(c) \/ CliFileData(c) \/ CliFileDelete(c) \/ CliSyncApply(c)
  \/ CliOther(c)

UserStep(h, p) ==
  UserMkdir(h, p) \/ UserDelete(h, p) \/ \E n \in Sizes : UserWrite(h, p, n)

Next ==
  \/ \E s \in Sessions : SrvStep(s) \/ Tick(s) \/ Drop(s)
  \/ \E c \in Clients : CliStep(c) \/ CliCrash(c)
  \/ \E p \in Paths : SrvEvent(p) \/ \E c \in Clients : CliEvent(c, p)
  \/ \E h \in Hosts, p \in Paths : IgnoreExpires(h, p) \/ UserStep(h, p)
  \/ ServerStart \/ ServerStop \/ ServerCrash

Spec == Init /\ [][Next]_vars

\* Goroutines and processes that can run do; the server is restarted.
Fairness ==
  /\ \A s \in Sessions : WF_vars(SrvStep(s))
  /\ \A c \in Clients : WF_vars(CliStep(c))
  /\ \A p \in Paths : WF_vars(SrvEvent(p)) /\ \A c \in Clients : WF_vars(CliEvent(c, p))
  /\ WF_vars(ServerStart)

FairSpec == Spec /\ Fairness

-----------------------------------------------------------------------------
(* Properties.                                                             *)

FileMessages == {"FILE_CREATE", "FILE_MODIFY", "FILE_DELETE", "FILE_DATA"}
ClientMessages == {"HELLO", "SYNC_INIT"} \cup FileMessages
ServerMessages == {"HELLO_ACK", "SYNC_INIT", "SYNC_APPLY", "ACK",
                   "FILE_MODIFY", "FILE_DELETE", "FILE_DATA"}

Channels(types) == [Sessions -> Seq([type : types])]

TypeOK ==
  /\ now \in Nat
  /\ DOMAIN disk = Hosts /\ \A h \in Hosts : IsDisk(disk[h])
  /\ DOMAIN eng = Hosts /\ \A h \in Hosts : IsEngine(eng[h])
  /\ saved \in [Hosts -> TombstoneFiles]
  /\ pend \in [Hosts -> [Paths -> SUBSET {"create", "write", "remove"}]]
  /\ ign \in [Hosts -> SUBSET Paths]
  /\ up \in BOOLEAN
  /\ sphase \in [Sessions -> {"none", "new", "hello", "init", "tree", "diff",
                              "stream", "live", "ended"}]
  /\ theirs \in [Sessions -> SUBSET Paths]
  /\ cphase \in [Clients -> {"start", "dial", "ack", "tree", "apply", "data",
                             "upload", "forget", "live"}]
  /\ csess \in [Clients -> Sessions \cup {0}]
  /\ conn \in [Sessions -> {"none", "open", "closed"}]
  /\ [s \in Sessions |-> [i \in DOMAIN c2s[s] |-> [type |-> c2s[s][i].type]]]
       \in Channels(ClientMessages)
  /\ [s \in Sessions |-> [i \in DOMAIN s2c[s] |-> [type |-> s2c[s][i].type]]]
       \in Channels(ServerMessages)
  /\ removed \in SUBSET Paths
  /\ newest \in [Paths -> [there : BOOLEAN, data : Seq(Nat)]]

\* What the handler of a session reads is what it expects at that point,
\* whatever is lost, crashes or is broadcast meanwhile: its branches for a wrong
\* first or second message are never taken.  (The event goroutine of an earlier
\* session of the client is taken to have ended; see ClientProcess.)
ServerReadsInOrder ==
  \A s \in Registered : c2s[s] # <<>> =>
    Head(c2s[s]).type \in
      IF sphase[s] \in {"new", "hello"} THEN {"HELLO"}
      ELSE IF sphase[s] \in {"init", "tree"} THEN {"SYNC_INIT"} ELSE FileMessages

\* When everything has been exchanged, the directories of the server and of
\* every client hold the same paths with the same content.
Converged ==
  Quiescent => \A c \in Clients :
    /\ DOMAIN disk[c] = DOMAIN disk[Server]
    /\ \A p \in DOMAIN disk[c] : disk[c][p].type = disk[Server][p].type
                                 /\ disk[c][p].data = disk[Server][p].data

\* No data loss: when everything has been exchanged, a file that existed at the
\* start or was written by a user, and that no user has deleted, still exists.
NoDataLoss ==
  Quiescent => \A p \in Paths \ removed :
    newest[p].there => \E h \in Hosts : p \in DOMAIN disk[h]

\* What a user left at a path since the programs were first started.
EditedSince(p, start) == \A i \in DOMAIN newest[p].data : newest[p].data[i] > start

\* Last write wins: when everything has been exchanged, a file that users have
\* written since the first start, and nobody has deleted, has on every host the
\* content its users wrote last.
LastWriteWins ==
  Quiescent => \A h \in Hosts : \A p \in DOMAIN disk[h] \ removed :
    disk[h][p].type = "file" /\ EditedSince(p, FirstStart)
      => disk[h][p].data = newest[p].data

\* A file whose last change by a user was its deletion is, when everything has
\* been exchanged, on no host.
DeletionsStick ==
  Quiescent => \A p \in Paths : ~newest[p].there =>
                 \A h \in Hosts : p \notin DOMAIN disk[h]

\* Reconnection: once connections stop being lost, every client gets through
\* the handshake and the initial synchronisation and stays connected.
SyncResumes == <>[](\A c \in Clients : cphase[c] = "live" /\ conn[csess[c]] = "open")

=============================================================================
