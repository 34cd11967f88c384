-------------------------- MODULE FirstSyncProofs ---------------------------
(***************************************************************************)
(* The first synchronisation is right: the client's side of it, what the   *)
(* server makes of the client's files and sends back, and the theorems.    *)
(* The situation, the invariant and the server's side are those of         *)
(* FirstSyncSteps.                                                         *)
(***************************************************************************)
EXTENDS FirstSyncSteps

-----------------------------------------------------------------------------
(* The client's steps, and those of the server once it is live.            *)

\* The client reads the server's tree.
LEMMA ReadTree ==
  ASSUME NEW c, Kinship(c), Inv(c), CliTree(c)
  PROVE  Inv(c)'
  <1> DEFINE T == WalkDirectory(disk[Server])
             q == s2c[1]
             v == View(disk[Server])
             w == View(disk[c])
  <1>1. csess[c] = 1 /\ cphase[c] = "tree" /\ q # <<>>
    BY Zenon DEF CliTree, Receives, Inv, Linked, Connected
  <1>2. sphase[1] \in {"init", "tree", "diff", "stream", "live"}
    BY Zenon, <1>1 DEF Inv, Linked, Together
  <1>3. Head(q) = SyncInit(T)
    <2>1. CASE sphase[1] \in {"init", "tree", "diff"}
      <3>1. q = <<SyncInit(T)>>
        BY Zenon, <1>1, <2>1 DEF Inv, Stage, Greeting
      <3> HIDE DEF q
      <3> QED
        BY Zenon, <3>1, Short
    <2>2. CASE sphase[1] \in {"stream", "live"}
      <3>1. Streaming(c)
        BY Zenon, <1>1, <2>2 DEF Inv, Stage
      <3>2. q[1] = SyncInit(T) /\ IsQueue(q)
        BY Zenon, <1>1, <3>1 DEF Streaming, StreamOK
      <3> HIDE DEF q
      <3> QED
        BY Zenon, <1>1, <3>2, Rest
    <2> QED
      BY Zenon, <1>2, <2>1, <2>2
  <1>4. Msg(c).type = "SYNC_INIT" /\ Msg(c).tree = T
    BY SMTT(30), <1>1, <1>3 DEF Msg, SyncInit
  <1>5. /\ cphase' = [cphase EXCEPT ![c] = "apply"]
        /\ s2c' = [s2c EXCEPT ![1] = Tail(@)]
        /\ eng' = [eng EXCEPT ![c] = SetRemoteTree(@, T)]
        /\ UNCHANGED <<disk, saved, pend, up, sphase, stodo, csess, ctodo, conn, c2s, spent, newest>>
    BY Zenon, <1>1, <1>4 DEF CliTree, Receives, ClientEngine, Enter, fs, mon, srv, net, hist, ghost
  <1>6. sphase[1] # "init"
    BY Zenon, <1>1 DEF Inv, Stage, Greeting
  <1>7. cphase'[c] = "apply" /\ s2c'[1] = Tail(q) /\ eng'[Server] = eng[Server]
        /\ eng'[c] = [eng[c] EXCEPT !.remote = T]
    BY Zenon, <1>5, Context DEF Inv, Domains, SetRemoteTree
  <1>8. Linked(c)'
    BY Zenon, <1>1, <1>2, <1>5, <1>6, <1>7 DEF Inv, Linked, Connected, Together
  <1>9. Domains' /\ Quiet(c)'
    BY Zenon, <1>5, Context DEF Inv, Domains, Quiet
  <1>10. Disks(c)'
    BY Zenon, <1>5 DEF Inv, Disks
  <1>11. Engines(c)'
    <2>1. IsRecord(eng[c])
      BY Zenon DEF Inv, Engines
    <2>2. /\ IsRecord(eng'[c]) /\ eng'[c].remote = T /\ eng'[c].local = eng[c].local
          /\ eng'[c].tomb = eng[c].tomb /\ eng'[c].prev = eng[c].prev
      BY Zenon, <1>7, <2>1 DEF IsRecord
    <2> QED
      BY Zenon, <1>1, <1>5, <1>7, <2>2 DEF Inv, Engines
  <1>12. Stage(c)'
    <2>1. CASE sphase[1] \in {"tree", "diff"}
      <3>1. q = <<SyncInit(T)>> /\ Greeting(c)
        BY Zenon, <1>1, <2>1 DEF Inv, Stage, Greeting
      <3>2. s2c'[1] = <<>>
        BY ZenonT(30), <1>7, <3>1, Short
      <3>3. NoEvents' /\ NoLonger(View(disk[c]), View(disk[Server]))'
        BY Zenon, <1>5, <3>1 DEF Greeting, NoEvents
      <3>4. c2s'[1] = IF sphase[1] = "tree" THEN <<SyncInit(WalkDirectory(disk[c]))>> ELSE <<>>
        BY Zenon, <1>1, <1>5, <2>1, <3>1 DEF Greeting
      <3> QED
        BY Zenon, <1>5, <1>7, <2>1, <3>2, <3>3, <3>4 DEF Stage, Greeting
    <2>2. CASE sphase[1] \in {"stream", "live"}
      <3>1. Streaming(c)
        BY Zenon, <1>1, <2>2 DEF Inv, Stage
      <3>2. /\ StreamOK(q, 2, sphase[1], stodo[1], v, w)
            /\ q[2] = SyncApply(FirstOps(c))
        BY Zenon, <1>1, <3>1 DEF Streaming, Ahead
      <3> HIDE DEF q, v, w
      <3>3. StreamOK(Tail(q), 2 - 1, sphase[1], stodo[1], v, w)
        BY SMTT(30), <3>2, StreamTail
      <3>4. Tail(q)[1] = q[2]
        <4>1. IsQueue(q) /\ Len(q) >= 2
          BY Zenon, <3>2 DEF StreamOK
        <4>2. Len(q) \in Nat /\ \A i \in 1 .. Len(q) - 1 : Tail(q)[i] = q[i + 1]
          BY Zenon, <1>1, <4>1, Rest
        <4>3. 1 \in 1 .. Len(q) - 1
          BY <4>1, <4>2
        <4> QED
          BY SMTT(30), <4>2, <4>3
      <3>5. StreamOK(Tail(q), 1, sphase[1], stodo[1], v, w)
        BY SMTT(30), <3>3
      <3>6. NoEvents'
        BY Zenon, <1>5, <3>1 DEF Streaming, NoEvents
      <3>7. Streaming(c)'
        BY Zenon, <1>5, <1>7, <3>1, <3>2, <3>4, <3>5, <3>6 DEF Streaming, Ahead, q, v, w, FirstOps
      <3> QED
        BY Zenon, <1>5, <1>7, <2>2, <3>7 DEF Stage
    <2> QED
      BY Zenon, <1>2, <1>6, <2>1, <2>2
  <1> QED
    BY Zenon, <1>8, <1>9, <1>10, <1>11, <1>12 DEF Inv

\* ApplyChanges of the first SYNC_APPLY: it succeeds, and only adds.
LEMMA AppliedFirst ==
  ASSUME NEW c, Kinship(c), Inv(c), cphase[c] = "apply", ApplyChanges(c, FirstOps(c))
  PROVE  /\ pend' = pend
         /\ \E d : /\ disk' = [disk EXCEPT ![c] = d]
                   /\ eng' = [eng EXCEPT ![c] = CommitScan(@, WalkDirectory(d))]
                   /\ IsDir(d) /\ Grown(View(disk[c]), View(d), View(disk[Server]))
  <1> DEFINE ops == FirstOps(c)
             d == AfterOps(disk[c], ops, now + 1)
  <1>1. IsDir(disk[Server]) /\ IsDir(disk[c]) /\ SameTypes(disk[c], disk[Server])
    BY Zenon DEF Inv, Disks
  <1>2. /\ AppliedOps(disk[c], ops) = {ops}
        /\ IsDir(d) /\ Grown(View(disk[c]), View(d), View(disk[Server]))
    BY Zenon, <1>1, Applied DEF FirstOps
  <1> HIDE DEF ops
  <1>3. /\ disk' = [disk EXCEPT ![c] = d]
        /\ eng' = [eng EXCEPT ![c] = ScanLocal(eng[c], d)]
        /\ \E written : Observe(c, disk[c], d, written)
    BY Zenon, <1>2 DEF ApplyChanges, ClientEngine, ops
  <1>4. ~Monitoring(c)
    BY Zenon, Context DEF Monitoring
  <1>5. pend' = pend
    BY Zenon, <1>3, <1>4 DEF Observe
  <1> HIDE DEF d
  <1>6. eng' = [eng EXCEPT ![c] = CommitScan(@, WalkDirectory(d))]
    BY Zenon, <1>3 DEF ScanLocal
  <1> QED
    BY Zenon, <1>2, <1>3, <1>5, <1>6

\* A directory that has got what it lacked of another.
LEMMA GrownDir ==
  ASSUME NEW d, NEW d2, NEW e, IsDir(d), IsDir(d2), IsDir(e), SameTypes(d, e),
         NoLonger(View(d), View(e)), Grown(View(d), View(d2), View(e))
  PROVE  /\ SameTypes(d2, e) /\ NoLonger(View(d2), View(e))
         /\ DOMAIN d2 = DOMAIN d \cup DOMAIN e
  <1> DEFINE w == View(d)
             w2 == View(d2)
             v == View(e)
  <1>1. /\ DOMAIN w = DOMAIN d /\ \A p \in DOMAIN d : w[p].type = d[p].type
        /\ DOMAIN w2 = DOMAIN d2 /\ \A p \in DOMAIN d2 : w2[p].type = d2[p].type
        /\ DOMAIN v = DOMAIN e /\ \A p \in DOMAIN e : v[p].type = e[p].type /\ IsItem(v[p])
    BY Zenon, Seen
  <1> HIDE DEF w, w2, v
  <1>2. /\ DOMAIN w2 = DOMAIN w \cup DOMAIN v
        /\ \A p \in DOMAIN w : w2[p] = w[p]
        /\ \A p \in DOMAIN v \ DOMAIN w : w2[p].type = v[p].type /\ w2[p].data = <<>>
    BY SMTT(30) DEF Grown, Item, w, w2, v
  <1>3. SameTypes(d2, e)
    BY ZenonT(30), <1>1, <1>2 DEF SameTypes
  <1>4. NoLonger(w2, v)
    <2> SUFFICES ASSUME NEW p \in DOMAIN w2 \cap DOMAIN v
                 PROVE  Len(w2[p].data) <= Len(v[p].data)
      BY Zenon DEF NoLonger
    <2>1. CASE p \in DOMAIN w
      BY Zenon, <1>2, <2>1 DEF NoLonger, w, v
    <2>2. CASE p \notin DOMAIN w
      <3>1. w2[p].data = <<>> /\ v[p].data \in Seq(Nat)
        BY Zenon, <1>1, <1>2, <2>2 DEF IsItem
      <3>2. Len(w2[p].data) = 0 /\ Len(v[p].data) \in Nat
        BY SMTT(30), <3>1
      <3> QED
        BY SMTT(30), <3>2
    <2> QED
      BY Zenon, <2>1, <2>2
  <1> QED
    BY Zenon, <1>1, <1>2, <1>3, <1>4 DEF w2, v

\* The client applies the operations: it now has every path of the server.
LEMMA ReadApply ==
  ASSUME NEW c, Kinship(c), Inv(c), CliApply(c)
  PROVE  Inv(c)'
  <1> DEFINE q == s2c[1]
             ds == disk[Server]
             v == View(ds)
             w == View(disk[c])
  <1>1. csess[c] = 1 /\ cphase[c] = "apply" /\ q # <<>>
    BY Zenon DEF CliApply, Receives, Inv, Linked, Connected
  <1>2. sphase[1] \in {"stream", "live"} /\ Streaming(c)
    BY Zenon, <1>1 DEF Inv, Linked, Together, Stage, Greeting
  <1>3. /\ StreamOK(q, 1, sphase[1], stodo[1], v, w)
        /\ q[1] = SyncApply(FirstOps(c))
    BY Zenon, <1>1, <1>2 DEF Streaming, Ahead
  <1>4. Head(q) = q[1]
    <2>1. IsQueue(q)
      BY Zenon, <1>3 DEF StreamOK
    <2> HIDE DEF q
    <2> QED
      BY Zenon, <1>1, <2>1, Rest
  <1>5. Msg(c).type = "SYNC_APPLY" /\ Msg(c).ops = FirstOps(c)
    BY SMTT(30), <1>1, <1>3, <1>4 DEF Msg, SyncApply
  <1>6. /\ cphase' = [cphase EXCEPT ![c] = "data"]
        /\ s2c' = [s2c EXCEPT ![1] = Tail(@)]
        /\ IF FirstOps(c) # {} THEN ApplyChanges(c, FirstOps(c)) ELSE UNCHANGED <<fs, eng, pend>>
        /\ UNCHANGED <<saved, up, sphase, stodo, csess, ctodo, conn, c2s, spent, newest>>
    BY Zenon, <1>1, <1>5 DEF CliApply, Receives, Enter, srv, net, hist, ghost
  <1>7. IsDir(ds) /\ IsDir(disk[c]) /\ SameTypes(disk[c], ds) /\ NoLonger(w, v)
    BY Zenon, <1>2 DEF Inv, Disks, Streaming
  <1>8. PICK d2 :
          /\ DOMAIN disk' = Hosts /\ disk'[c] = d2 /\ disk'[Server] = ds /\ pend' = pend
          /\ DOMAIN eng' = Hosts /\ eng'[Server] = eng[Server]
          /\ eng'[c] = eng[c] \/ eng'[c] = CommitScan(eng[c], WalkDirectory(d2))
          /\ IsDir(d2) /\ Grown(w, View(d2), v)
    <2>1. CASE FirstOps(c) # {}
      <3>1. PICK d : /\ disk' = [disk EXCEPT ![c] = d] /\ pend' = pend
                     /\ eng' = [eng EXCEPT ![c] = CommitScan(@, WalkDirectory(d))]
                     /\ IsDir(d) /\ Grown(w, View(d), v)
        BY Zenon, <1>1, <1>6, <2>1, AppliedFirst
      <3> QED
        BY Zenon, <3>1, Context DEF Inv, Domains
    <2>2. CASE FirstOps(c) = {}
      <3>1. disk' = disk /\ eng' = eng /\ pend' = pend
        BY Zenon, <1>6, <2>2 DEF fs
      <3>2. DOMAIN ds \subseteq DOMAIN disk[c]
        BY Zenon, <1>7, <2>2, Applied DEF FirstOps
      <3>3. DOMAIN v = DOMAIN ds /\ DOMAIN w = DOMAIN disk[c]
        BY Zenon, <1>7, Seen
      <3>4. Grown(w, w, v)
        BY Zenon, <3>2, <3>3 DEF Grown
      <3> QED
        BY Zenon, <1>7, <3>1, <3>4 DEF Inv, Domains
    <2> QED
      BY Zenon, <2>1, <2>2
  <1>9. /\ SameTypes(d2, ds) /\ NoLonger(View(d2), v)
        /\ DOMAIN d2 = DOMAIN disk[c] \cup DOMAIN ds
    BY ZenonT(30), <1>7, <1>8, GrownDir
  <1>10. cphase'[c] = "data" /\ s2c'[1] = Tail(q)
    BY Zenon, <1>6, Context DEF Inv, Domains
  <1>11. Linked(c)'
    BY Zenon, <1>1, <1>2, <1>6, <1>10 DEF Inv, Linked, Connected, Together
  <1>12. Domains' /\ Quiet(c)'
    BY Zenon, <1>6, <1>8, Context DEF Inv, Domains, Quiet
  <1>13. Disks(c)'
    BY Zenon, <1>6, <1>7, <1>8, <1>9 DEF Inv, Disks
  <1>14. Engines(c)'
    <2>1. DOMAIN WalkDirectory(d2) = DOMAIN d2
      BY Zenon DEF WalkDirectory
    <2>2. /\ IsRecord(eng'[c]) /\ eng'[c].tomb = {} /\ eng'[c].prev \subseteq DOMAIN d2
          /\ eng'[c].remote = eng[c].remote
      BY SMTT(30), <1>8, <1>9, <2>1 DEF Inv, Engines, IsRecord, CommitScan
    <2> QED
      BY Zenon, <1>1, <1>2, <1>6, <1>8, <1>10, <2>2 DEF Inv, Engines
  <1>15. Stage(c)'
    <2> HIDE DEF q, v, w
    <2>1. StreamOK(Tail(q), 1 - 1, sphase[1], stodo[1], v, w)
      BY <1>3, StreamTail
    <2>2. StreamOK(Tail(q), 0, sphase[1], stodo[1], v, w)
      BY SMTT(30), <2>1
    <2>3. StreamOK(Tail(q), 0, sphase[1], stodo[1], v, View(d2))
      BY Zenon, <1>8, <2>2, StreamGrown
    <2>4. NoEvents' /\ c2s'[1] = <<>>
      BY Zenon, <1>2, <1>6, <1>8 DEF Streaming, NoEvents
    <2>5. Streaming(c)'
      BY Zenon, <1>6, <1>8, <1>9, <1>10, <2>3, <2>4 DEF Streaming, Ahead, v
    <2> QED
      BY Zenon, <1>2, <1>6, <1>10, <2>5 DEF Stage
  <1> QED
    BY Zenon, <1>11, <1>12, <1>13, <1>14, <1>15 DEF Inv

\* A file that both sides have is written.
LEMMA WrittenDir ==
  ASSUME NEW d, NEW e, IsDir(d), IsDir(e), SameTypes(d, e), NEW p \in DOMAIN e,
         p \in DOMAIN d, e[p].type = "file", NEW data \in Seq(Nat),
         Len(d[p].data) <= Len(data), NEW t
  PROVE  LET d2 == WriteChunkAt(d, p, data, t)
         IN  /\ CanWrite(d, p) /\ IsDir(d2) /\ SameTypes(d2, e) /\ SameTypes(e, d2)
             /\ DOMAIN d2 = DOMAIN d
             /\ View(d2) = TreeSet(View(d), p, Item("file", data))
  <1> DEFINE d2 == WriteChunkAt(d, p, data, t)
  <1>1. d[p].type = "file"
    BY Zenon DEF SameTypes
  <1>2. CanWrite(d, p) /\ IsDir(d2) /\ View(d2) = TreeSet(View(d), p, Item("file", data))
    BY Zenon, <1>1, Written
  <1> HIDE DEF d2
  <1>3. /\ DOMAIN View(d) = DOMAIN d /\ \A x \in DOMAIN d : View(d)[x].type = d[x].type
        /\ DOMAIN View(d2) = DOMAIN d2 /\ \A x \in DOMAIN d2 : View(d2)[x].type = d2[x].type
    BY Zenon, <1>2, Seen
  <1>4. DOMAIN d2 = DOMAIN d /\ \A x \in DOMAIN d : d2[x].type = d[x].type
    <2> DEFINE w == View(d)
               w2 == View(d2)
    <2> HIDE DEF w, w2
    <2>1. w2 = TreeSet(w, p, Item("file", data)) /\ p \in DOMAIN w /\ w[p].type = "file"
      BY Zenon, <1>1, <1>2, <1>3 DEF w, w2
    <2>2. DOMAIN w2 = DOMAIN w /\ \A x \in DOMAIN w : w2[x].type = w[x].type
      BY Zenon, <2>1 DEF TreeSet, Item
    <2> QED
      BY Zenon, <1>3, <2>2 DEF w, w2
  <1>5. SameTypes(d2, e) /\ SameTypes(e, d2)
    BY Zenon, <1>4 DEF SameTypes
  <1> QED
    BY Zenon, <1>2, <1>4, <1>5 DEF d2

\* The client writes the content that the server streams; at ACK it has all of
\* the server's files, and begins to send its own.
LEMMA ReadData ==
  ASSUME NEW c, Kinship(c), Inv(c), CliData(c)
  PROVE  Inv(c)'
  <1> DEFINE q == s2c[1]
             ds == disk[Server]
             v == View(ds)
             w == View(disk[c])
  <1>1. csess[c] = 1 /\ cphase[c] = "data" /\ q # <<>> /\ s2c' = [s2c EXCEPT ![1] = Tail(@)]
    BY Zenon DEF CliData, Receives, Inv, Linked, Connected
  <1>2. sphase[1] \in {"stream", "live"} /\ Streaming(c)
    BY Zenon, <1>1 DEF Inv, Linked, Together, Stage, Greeting
  <1>3. StreamOK(q, 0, sphase[1], stodo[1], v, w) /\ DOMAIN ds \subseteq DOMAIN disk[c]
    BY Zenon, <1>1, <1>2 DEF Streaming, Ahead
  <1>4. IsDir(ds) /\ IsDir(disk[c]) /\ SameTypes(disk[c], ds) /\ NoLonger(w, v)
    BY Zenon, <1>2 DEF Inv, Disks, Streaming
  <1>5. /\ DOMAIN v = DOMAIN ds /\ DOMAIN w = DOMAIN disk[c]
        /\ \A p \in DOMAIN ds : v[p].type = ds[p].type /\ v[p].data = ds[p].data /\ IsItem(v[p])
        /\ \A p \in DOMAIN disk[c] : w[p].type = disk[c][p].type /\ w[p].data = disk[c][p].data
    BY Zenon, <1>4, Seen
  <1>6. s2c'[1] = Tail(q) /\ Msg(c) = Head(q)
    BY Zenon, <1>1, Context DEF Inv, Domains, Msg
  <1>7. UNCHANGED <<saved, pend, up, sphase, stodo, csess, conn, c2s, spent, newest>>
    BY Zenon DEF CliData, mon, srv, hist, ghost
  <1>8. CASE Head(q) = Ack
    <2> DEFINE todo == DiffInitial(WalkDirectory(disk[c]), WalkDirectory(ds))
    <2>1. /\ cphase' = [cphase EXCEPT ![c] = "upload"] /\ disk' = disk
          /\ eng' = [eng EXCEPT ![c] = CommitScan(@, WalkDirectory(disk[c]))]
          /\ ctodo' = [ctodo EXCEPT ![c] = DiffInitial(WalkDirectory(disk[c]), eng[c].remote)]
      <3>1. /\ cphase' = [cphase EXCEPT ![c] = "upload"] /\ disk' = disk
            /\ eng' = [eng EXCEPT ![c] = ScanLocal(eng[c], disk[c])]
            /\ ctodo' = [ctodo EXCEPT ![c] = DiffInitial(ScanLocal(eng[c], disk[c]).local,
                                                         ScanLocal(eng[c], disk[c]).remote)]
        BY Zenon, <1>6, <1>8 DEF CliData, ClientEngine, Enter, fs
      <3> QED
        BY Zenon, <3>1 DEF ScanLocal, CommitScan
    <2>2. eng[c].remote = WalkDirectory(ds)
      BY Zenon, <1>1 DEF Inv, Engines
    <2>3. cphase'[c] = "upload" /\ ctodo'[c] = todo /\ eng'[Server] = eng[Server]
          /\ eng'[c] = CommitScan(eng[c], WalkDirectory(disk[c]))
      BY Zenon, <2>1, <2>2, Context DEF Inv, Domains
    <2>4. /\ sphase[1] = "live" /\ IsQueue(Tail(q)) /\ Len(Tail(q)) = 0
          /\ \A p \in DOMAIN v : v[p].type = "file" => p \in DOMAIN w /\ w[p].data = v[p].data
      <3> HIDE DEF q, v, w
      <3> QED
        BY SMTT(30), <1>1, <1>3, <1>8, StreamEnd
    <2>5. Linked(c)'
      BY Zenon, <1>1, <1>7, <2>3, <2>4 DEF Inv, Linked, Connected, Together
    <2>6. Domains' /\ Quiet(c)'
      BY Zenon, <1>1, <1>7, <2>1, Context DEF Inv, Domains, Quiet
    <2>7. Disks(c)'
      BY Zenon, <1>7, <2>1 DEF Inv, Disks
    <2>8. Engines(c)'
      <3>1. DOMAIN WalkDirectory(disk[c]) = DOMAIN disk[c]
        BY Zenon DEF WalkDirectory
      <3>2. IsRecord(eng'[c]) /\ eng'[c].tomb = {} /\ eng'[c].prev \subseteq DOMAIN disk[c]
        BY SMTT(30), <2>3, <3>1 DEF Inv, Engines, IsRecord, CommitScan
      <3> QED
        BY Zenon, <1>7, <2>1, <2>3, <2>4, <3>2 DEF Inv, Engines
    <2>9. Stage(c)'
      <3>1. UploadOK(<<>>, todo, v, w)
        <4>1. SameTypes(ds, disk[c])
          BY Zenon, <1>4 DEF SameTypes
        <4>2. \A p \in DOMAIN v : v[p].type = "file" => w[p].data = v[p].data
          BY Zenon, <2>4
        <4> HIDE DEF ds
        <4> QED
          BY Zenon, <1>3, <1>4, <4>1, <4>2, UploadStart
      <3>2. EchoOK(Tail(q), w)
        <4> HIDE DEF q, w
        <4> QED
          BY SMTT(30), <2>4 DEF EchoOK
      <3>3. EventsOK(pend[Server], v, w)
        BY Zenon, <1>2 DEF Streaming, NoEvents, EventsOK
      <3>4. c2s[1] = <<>>
        BY Zenon, <1>2 DEF Streaming
      <3> HIDE DEF q, todo
      <3>5. Uploading(c)'
        BY Zenon, <1>6, <1>7, <2>1, <2>3, <3>1, <3>2, <3>3, <3>4 DEF Uploading
      <3> QED
        BY Zenon, <1>7, <2>3, <2>4, <3>5 DEF Stage
    <2> QED
      BY Zenon, <2>5, <2>6, <2>7, <2>8, <2>9 DEF Inv
  <1>9. CASE Head(q) # Ack
    <2>1. PICK p \in DOMAIN v :
            /\ v[p].type = "file" /\ Head(q) = FileData(p, v[p].data)
            /\ StreamOK(Tail(q), 0, sphase[1], stodo[1], v, TreeSet(w, p, Item("file", v[p].data)))
      <3> HIDE DEF q, v, w
      <3> QED
        BY Zenon, <1>1, <1>3, <1>9, StreamData
    <2> DEFINE data == v[p].data
               d2 == WriteChunkAt(disk[c], p, data, now + 1)
    <2>2. /\ p \in DOMAIN ds /\ p \in DOMAIN disk[c] /\ ds[p].type = "file"
          /\ data \in Seq(Nat) /\ Len(disk[c][p].data) <= Len(data)
      BY Zenon, <1>3, <1>4, <1>5, <2>1 DEF IsItem, NoLonger
    <2> HIDE DEF data
    <2>3. /\ CanWrite(disk[c], p) /\ IsDir(d2) /\ SameTypes(d2, ds) /\ DOMAIN d2 = DOMAIN disk[c]
          /\ View(d2) = TreeSet(w, p, Item("file", data))
      BY SMTT(30), <1>4, <2>2, WrittenDir
    <2>4. /\ Head(q).type = "FILE_DATA" /\ Head(q).path = p /\ Head(q).data = data
      BY SMTT(30), <2>1, IsFileData DEF data
    <2>5. /\ disk' = [disk EXCEPT ![c] = d2] /\ UNCHANGED <<eng, ctodo, cphase>>
      BY Zenon, <1>6, <1>9, <2>3, <2>4 DEF CliData, WriteData
    <2> HIDE DEF d2
    <2>6. disk'[c] = d2 /\ disk'[Server] = ds
      BY Zenon, <2>5, Context DEF Inv, Domains
    <2>7. Linked(c)'
      BY Zenon, <1>7, <2>5 DEF Inv, Linked, Connected
    <2>8. Domains' /\ Quiet(c)'
      BY Zenon, <1>1, <1>7, <2>5, Context DEF Inv, Domains, Quiet
    <2>9. Disks(c)'
      BY Zenon, <1>4, <1>7, <2>3, <2>6 DEF Inv, Disks
    <2>10. Engines(c)'
      BY Zenon, <1>1, <1>2, <1>7, <2>3, <2>5, <2>6 DEF Inv, Engines
    <2>11. Stage(c)'
      <3>1. NoLonger(View(d2), v)
        <4> SUFFICES ASSUME NEW x \in DOMAIN View(d2) \cap DOMAIN v
                     PROVE  Len(View(d2)[x].data) <= Len(v[x].data)
          BY Zenon DEF NoLonger
        <4> HIDE DEF v, w
        <4>1. CASE x = p
          <5>1. View(d2)[x].data = data /\ v[x].data = data
            BY SMTT(30), <2>3, <4>1 DEF TreeSet, Item, data
          <5>2. Len(data) \in Nat
            BY SMTT(30), <2>2
          <5> QED
            BY SMTT(30), <5>1, <5>2
        <4>2. CASE x # p
          <5>1. x \in DOMAIN w /\ View(d2)[x] = w[x]
            BY Zenon, <2>3, <4>2 DEF TreeSet
          <5> QED
            BY Zenon, <1>4, <5>1 DEF NoLonger
        <4> QED
          BY Zenon, <4>1, <4>2
      <3>2. NoEvents' /\ c2s'[1] = <<>>
        BY Zenon, <1>2, <1>7 DEF Streaming, NoEvents
      <3>3. StreamOK(Tail(q), 0, sphase[1], stodo[1], v, View(d2))
        BY Zenon, <2>1, <2>3 DEF data
      <3>4. Streaming(c)'
        BY Zenon, <1>1, <1>3, <1>6, <1>7, <2>3, <2>5, <2>6, <3>1, <3>2, <3>3 DEF Streaming, Ahead
      <3> QED
        BY Zenon, <1>1, <1>2, <1>7, <2>5, <3>4 DEF Stage
    <2> QED
      BY Zenon, <2>7, <2>8, <2>9, <2>10, <2>11 DEF Inv
  <1> QED
    BY Zenon, <1>8, <1>9

\* Once the client has the server's files, its session is live on the server.
LEMMA InUpload ==
  ASSUME NEW c, Inv(c), cphase[c] \in {"upload", "forget", "live"}
  PROVE  /\ up /\ sphase[1] = "live" /\ csess[c] = 1 /\ conn[1] = "open"
         /\ Connected(c) /\ Uploading(c)
  BY Zenon DEF Inv, Linked, Together, Connected, Stage

\* The client sends one of its changes, with the content of the file.
LEMMA Uploaded ==
  ASSUME NEW c, Kinship(c), Inv(c), CliUpload(c)
  PROVE  Inv(c)'
  <1>1. PICK ch \in ctodo[c] :
          /\ c2s' = Send(c2s, csess[c], Messages(c, ch))
          /\ ctodo' = [ctodo EXCEPT ![c] = @ \ {ch}]
    BY Zenon DEF CliUpload
  <1>2. /\ cphase[c] \in {"upload", "forget"}
        /\ UNCHANGED <<disk, saved, eng, pend, up, sphase, stodo, cphase, csess, conn, s2c,
                       spent, newest>>
    BY Zenon DEF CliUpload, fs, mon, srv, hist, ghost
  <1>3. sphase[1] = "live" /\ csess[c] = 1 /\ conn[1] = "open" /\ Uploading(c)
    BY Zenon, <1>2, InUpload
  <1> DEFINE r == c2s[1]
             v == View(disk[Server])
             w == View(disk[c])
             first == IF ch.type = "create" THEN FileCreate(ch.entry, ch.path)
                                            ELSE FileModify(ch.entry, ch.path)
             ms == <<first>> \o Content(disk[c], ch.path, ch.entry)
  <1>4. cphase[c] = "upload" /\ UploadOK(r, ctodo[c], v, w) /\ IsDir(disk[c])
    BY Zenon, <1>1, <1>2, <1>3 DEF Uploading, Inv, Disks
  <1>5. ch.type # "delete"
    BY Zenon, <1>4 DEF UploadOK, ToUpload
  <1>6. Messages(c, ch) = ms
    BY Zenon, <1>5 DEF Messages
  <1>7. UploadOK(r \o ms, ctodo[c] \ {ch}, v, w)
    <2> HIDE DEF r, v
    <2> QED
      BY Zenon, <1>4, UploadSend
  <1> HIDE DEF ms
  <1>8. c2s' = [c2s EXCEPT ![1] = @ \o ms]
    BY Zenon, <1>1, <1>3, <1>6 DEF Send
  <1>9. c2s'[1] = r \o ms /\ ctodo'[c] = ctodo[c] \ {ch}
    BY Zenon, <1>1, <1>8, Context DEF Inv, Domains
  <1>10. Domains' /\ Quiet(c)'
    BY Zenon, <1>1, <1>2, <1>8, Context DEF Inv, Domains, Quiet
  <1>11. Linked(c)' /\ Disks(c)'
    BY Zenon, <1>2 DEF Inv, Linked, Connected, Disks
  <1>12. Engines(c)'
    BY Zenon, <1>2 DEF Inv, Engines
  <1>13. Uploading(c)'
    BY Zenon, <1>2, <1>3, <1>4, <1>7, <1>9 DEF Uploading
  <1>14. Stage(c)'
    BY Zenon, <1>2, <1>3, <1>13 DEF Stage
  <1> QED
    BY Zenon, <1>10, <1>11, <1>12, <1>14 DEF Inv

\* The client has no tombstones to send.
LEMMA Forgot ==
  ASSUME NEW c, Kinship(c), Inv(c), CliUploaded(c)
  PROVE  Inv(c)'
  <1>1. /\ cphase[c] = "upload" /\ ctodo[c] = {}
        /\ ctodo' = [ctodo EXCEPT ![c] = Deleted(eng[c].tomb \cap DOMAIN eng[c].remote)]
        /\ cphase' = [cphase EXCEPT ![c] = "forget"]
        /\ UNCHANGED <<disk, saved, eng, pend, up, sphase, stodo, csess, conn, c2s, s2c,
                       spent, newest>>
    BY Zenon DEF CliUploaded, Enter, fs, mon, srv, net, hist, ghost
  <1>2. sphase[1] = "live" /\ csess[c] = 1 /\ conn[1] = "open" /\ Uploading(c) /\ up
    BY Zenon, <1>1, InUpload
  <1>3. Deleted(eng[c].tomb \cap DOMAIN eng[c].remote) = {}
    BY Zenon DEF Inv, Engines, Deleted
  <1>4. cphase'[c] = "forget" /\ ctodo'[c] = {}
    BY Zenon, <1>1, <1>3, Context DEF Inv, Domains
  <1>5. Domains' /\ Quiet(c)'
    BY Zenon, <1>1, Context DEF Inv, Domains, Quiet
  <1>6. Linked(c)' /\ Disks(c)'
    BY Zenon, <1>1, <1>2, <1>4 DEF Inv, Linked, Together, Connected, Disks
  <1>7. Engines(c)'
    BY Zenon, <1>1, <1>2, <1>4 DEF Inv, Engines
  <1>8. Uploading(c)'
    BY Zenon, <1>1, <1>2, <1>4 DEF Uploading
  <1>9. Stage(c)'
    BY Zenon, <1>1, <1>2, <1>4, <1>8 DEF Stage
  <1> QED
    BY Zenon, <1>5, <1>6, <1>7, <1>9 DEF Inv

\* The client's session is live.
LEMMA WentLive ==
  ASSUME NEW c, Kinship(c), Inv(c), CliLive(c)
  PROVE  Inv(c)'
  <1>1. /\ cphase[c] = "forget" /\ ctodo[c] = {}
        /\ eng' = [eng EXCEPT ![c] = ClearTombstones(@)]
        /\ saved' = IF eng[c].tomb = {} THEN saved ELSE [saved EXCEPT ![c] = NoFile]
        /\ cphase' = [cphase EXCEPT ![c] = "live"]
        /\ UNCHANGED <<disk, pend, up, sphase, stodo, csess, ctodo, conn, c2s, s2c,
                       spent, newest>>
    BY Zenon DEF CliLive, ClientEngine, Enter, fs, mon, srv, net, hist, ghost
  <1>2. sphase[1] = "live" /\ csess[c] = 1 /\ conn[1] = "open" /\ Uploading(c) /\ up
    BY Zenon, <1>1, InUpload
  <1>3. cphase'[c] = "live" /\ saved' = saved /\ eng'[Server] = eng[Server]
        /\ eng'[c] = ClearTombstones(eng[c])
    BY Zenon, <1>1, Context DEF Inv, Domains, Engines
  <1>4. IsRecord(eng'[c]) /\ eng'[c].tomb = {} /\ eng'[c].prev = eng[c].prev
    BY Zenon, <1>3 DEF Inv, Engines, IsRecord, ClearTombstones
  <1>5. Domains' /\ Quiet(c)'
    BY ZenonT(30), <1>1, <1>3, Context DEF Inv, Domains, Quiet
  <1>6. Linked(c)' /\ Disks(c)'
    BY Zenon, <1>1, <1>2, <1>3 DEF Inv, Linked, Together, Connected, Disks
  <1>7. Engines(c)'
    BY Zenon, <1>1, <1>2, <1>3, <1>4 DEF Inv, Engines
  <1>8. Uploading(c)'
    BY Zenon, <1>1, <1>2, <1>3 DEF Uploading
  <1>9. Stage(c)'
    BY Zenon, <1>1, <1>2, <1>3, <1>8 DEF Stage
  <1> QED
    BY Zenon, <1>5, <1>6, <1>7, <1>9 DEF Inv

\* What remains of what the server sends back is of the same kind.
LEMMA EchoTail ==
  ASSUME NEW q, NEW w, q # <<>>, EchoOK(q, w)
  PROVE  EchoOK(Tail(q), w) /\ (Head(q).type = "FILE_MODIFY" \/ IsContent(Head(q), w))
  <1>1. /\ Len(q) \in Nat /\ Len(q) > 0 /\ Head(q) = q[1]
        /\ IsQueue(Tail(q)) /\ Len(Tail(q)) = Len(q) - 1
        /\ \A i \in 1 .. Len(q) - 1 : Tail(q)[i] = q[i + 1]
    BY Zenon, Rest DEF EchoOK
  <1>2. 1 \in 1 .. Len(q)
    BY <1>1
  <1>3. ASSUME NEW i \in 1 .. Len(Tail(q))
        PROVE  Tail(q)[i].type = "FILE_MODIFY" \/ IsContent(Tail(q)[i], w)
    <2>1. i + 1 \in 1 .. Len(q) /\ Tail(q)[i] = q[i + 1]
      BY SMTT(30), <1>1
    <2> QED
      BY Zenon, <2>1 DEF EchoOK
  <1> QED
    BY Zenon, <1>1, <1>2, <1>3 DEF EchoOK

\* The client reads a FILE_MODIFY that the server sent back.
LEMMA ReadModify ==
  ASSUME NEW c, Kinship(c), Inv(c), CliFileModify(c)
  PROVE  Inv(c)'
  <1>1. /\ cphase[c] = "live" /\ s2c[csess[c]] # <<>>
        /\ s2c' = [s2c EXCEPT ![csess[c]] = Tail(@)]
        /\ UNCHANGED <<disk, saved, eng, pend, up, sphase, stodo, cphase, csess, ctodo, conn, c2s,
                       spent, newest>>
    BY Zenon DEF CliFileModify, LiveMsg, Receives, fs, srv, cli, hist, ghost
  <1>2. sphase[1] = "live" /\ csess[c] = 1 /\ Uploading(c)
    BY Zenon, <1>1, InUpload
  <1>3. s2c'[1] = Tail(s2c[1])
    BY Zenon, <1>1, <1>2, Context DEF Inv, Domains
  <1>4. EchoOK(s2c'[1], View(disk[c]))
    BY Zenon, <1>1, <1>2, <1>3, EchoTail DEF Uploading
  <1>5. Domains' /\ Quiet(c)'
    BY Zenon, <1>1, Context DEF Inv, Domains, Quiet
  <1>6. Linked(c)' /\ Disks(c)'
    BY Zenon, <1>1 DEF Inv, Linked, Connected, Disks
  <1>7. Engines(c)'
    BY Zenon, <1>1 DEF Inv, Engines
  <1>8. Uploading(c)'
    BY Zenon, <1>1, <1>2, <1>4 DEF Uploading
  <1>9. Stage(c)'
    BY Zenon, <1>1, <1>2, <1>8 DEF Stage
  <1> QED
    BY Zenon, <1>5, <1>6, <1>7, <1>9 DEF Inv

\* The client writes content that the server sent back, which it already has.
LEMMA ReadEcho ==
  ASSUME NEW c, Kinship(c), Inv(c), CliFileData(c)
  PROVE  Inv(c)'
  <1>1. /\ cphase[c] = "live" /\ s2c[csess[c]] # <<>>
        /\ s2c' = [s2c EXCEPT ![csess[c]] = Tail(@)]
        /\ Head(s2c[csess[c]]).type = "FILE_DATA"
        /\ WriteData(c, Head(s2c[csess[c]]))
        /\ UNCHANGED <<saved, eng, pend, up, sphase, stodo, cphase, csess, ctodo, conn, c2s,
                       spent, newest>>
    BY Zenon DEF CliFileData, LiveMsg, Receives, Msg, srv, cli, hist, ghost
  <1>2. sphase[1] = "live" /\ csess[c] = 1 /\ Uploading(c)
    BY Zenon, <1>1, InUpload
  <1> DEFINE w == View(disk[c])
             q == s2c[1]
  <1>3. s2c'[1] = Tail(q) /\ q # <<>>
    BY Zenon, <1>1, <1>2, Context DEF Inv, Domains
  <1>4. EchoOK(Tail(q), w) /\ IsContent(Head(q), w)
    BY Zenon, <1>1, <1>2, <1>3, EchoTail DEF Uploading
  <1>5. IsDir(disk[c]) /\ IsDir(disk[Server]) /\ SameTypes(disk[c], disk[Server])
    BY Zenon DEF Inv, Disks
  <1>6. /\ DOMAIN w = DOMAIN disk[c]
        /\ \A p \in DOMAIN disk[c] : /\ w[p] = Item(disk[c][p].type, disk[c][p].data)
                                     /\ w[p].type = disk[c][p].type /\ w[p].data = disk[c][p].data
                                     /\ IsItem(w[p])
    BY Zenon, <1>5, Seen
  <1>7. PICK p \in DOMAIN w : w[p].type = "file" /\ Head(q) = FileData(p, w[p].data)
    BY Zenon, <1>4 DEF IsContent
  <1> DEFINE data == w[p].data
             d2 == WriteChunkAt(disk[c], p, data, now + 1)
  <1>8. p \in DOMAIN disk[c] /\ disk[c][p].type = "file" /\ disk[c][p].data = data
        /\ data \in Seq(Nat) /\ Head(q).path = p /\ Head(q).data = data
    BY SMTT(30), <1>6, <1>7, IsFileData DEF IsItem
  <1>9. Len(disk[c][p].data) <= Len(data)
    <2> HIDE DEF data
    <2>1. Len(data) \in Nat
      BY SMTT(30), <1>8
    <2> QED
      BY SMTT(30), <1>8, <2>1
  <1>10. w[p] = Item("file", data)
    BY Zenon, <1>6, <1>7, <1>8
  <1> HIDE DEF data
  <1>11. CanWrite(disk[c], p) /\ IsDir(d2) /\ View(d2) = TreeSet(w, p, Item("file", data))
    BY Zenon, <1>5, <1>8, <1>9, Written
  <1>12. disk' = [disk EXCEPT ![c] = d2]
    BY Zenon, <1>1, <1>2, <1>8, <1>11 DEF WriteData
  <1> HIDE DEF d2
  <1>13. View(d2) = w
    <2>1. w = [x \in DOMAIN w |-> w[x]]
      BY Zenon DEF View
    <2> HIDE DEF w
    <2> QED
      BY Zenon, <1>7, <1>10, <1>11, <2>1 DEF TreeSet
  <1>14. disk'[c] = d2 /\ disk'[Server] = disk[Server]
    BY Zenon, <1>12, Context DEF Inv, Domains
  <1>15. DOMAIN d2 = DOMAIN disk[c] /\ \A x \in DOMAIN d2 : d2[x].type = disk[c][x].type
    <2>1. DOMAIN View(d2) = DOMAIN d2 /\ \A x \in DOMAIN d2 : View(d2)[x].type = d2[x].type
      BY Zenon, <1>11, Seen
    <2> QED
      BY Zenon, <1>6, <1>13, <2>1
  <1>16. Domains' /\ Quiet(c)'
    BY Zenon, <1>1, <1>12, Context DEF Inv, Domains, Quiet
  <1>17. Linked(c)'
    BY Zenon, <1>1 DEF Inv, Linked, Connected
  <1>18. Disks(c)'
    <2>1. SameTypes(d2, disk[Server])
      BY Zenon, <1>5, <1>15 DEF SameTypes
    <2> QED
      BY Zenon, <1>1, <1>5, <1>11, <1>14, <1>15, <2>1 DEF Inv, Disks
  <1>19. Engines(c)'
    BY Zenon, <1>1, <1>2, <1>14, <1>15 DEF Inv, Engines
  <1>20. Uploading(c)'
    BY Zenon, <1>1, <1>2, <1>3, <1>4, <1>13, <1>14 DEF Uploading
  <1>21. Stage(c)'
    BY Zenon, <1>1, <1>2, <1>20 DEF Stage
  <1> QED
    BY Zenon, <1>16, <1>17, <1>18, <1>19, <1>21 DEF Inv

\* The invariant does not depend on the clock and the monitors' ignore lists.
LEMMA Unchanged ==
  ASSUME NEW c, Inv(c),
         UNCHANGED <<disk, saved, eng, pend, up, sphase, stodo, cphase, csess, ctodo, conn, c2s, s2c,
                     spent, newest>>
  PROVE  Inv(c)'
  <1>1. Domains' /\ Quiet(c)' /\ Linked(c)' /\ Disks(c)'
    BY Zenon DEF Inv, Domains, Quiet, Linked, Connected, Disks
  <1>2. Engines(c)'
    BY Zenon DEF Inv, Engines
  <1>3. Greeting(c) => Greeting(c)'
    BY Zenon DEF Greeting, NoEvents
  <1>4. Streaming(c) => Streaming(c)'
    BY Zenon DEF Streaming, NoEvents, FirstOps
  <1>5. Uploading(c) => Uploading(c)'
    BY Zenon DEF Uploading
  <1>6. Stage(c)'
    BY Zenon, <1>3, <1>4, <1>5 DEF Inv, Stage
  <1> QED
    BY Zenon, <1>1, <1>2, <1>6 DEF Inv

\* An ignored path is forgotten by a monitor.
LEMMA Expired ==
  ASSUME NEW c, Inv(c), NEW h, NEW p, IgnoreExpires(h, p)
  PROVE  Inv(c)'
  BY Zenon, Unchanged DEF IgnoreExpires, fs, srv, cli, net, hist, ghost

\* What the client sends once its session is live are uploads.
LEMMA InLive ==
  ASSUME NEW c, Inv(c), sphase[1] = "live", c2s[1] # <<>> \/ ~NoEvents
  PROVE  /\ up /\ csess[c] = 1 /\ conn[1] = "open" /\ Uploading(c)
         /\ cphase[c] \in {"upload", "forget", "live"}
  BY Zenon DEF Inv, Linked, Together, Connected, Stage, Streaming

\* The server's directory changes and holds no less, its engine is a record.
LEMMA ServerChanged ==
  ASSUME NEW c, Kinship(c), Inv(c), sphase[1] = "live",
         cphase[c] \in {"upload", "forget", "live"},
         DOMAIN disk' = Hosts, DOMAIN eng' = Hosts, disk'[c] = disk[c], eng'[c] = eng[c],
         IsDir(disk'[Server]), SameTypes(disk[c], disk'[Server]), IsRecord(eng'[Server]),
         DOMAIN disk[Server] \subseteq DOMAIN disk'[Server],
         DOMAIN disk'[Server] \subseteq DOMAIN disk[c],
         DOMAIN c2s' = Sessions, DOMAIN s2c' = Sessions,
         DOMAIN pend' = Hosts, DOMAIN pend'[Server] = Paths, pend'[c] = pend[c],
         UNCHANGED <<saved, up, sphase, stodo, cphase, csess, ctodo, conn, spent, newest>>,
         Uploading(c)'
  PROVE  Inv(c)'
  <1>1. Domains' /\ Quiet(c)'
    BY Zenon, Context DEF Inv, Domains, Quiet
  <1>2. Linked(c)'
    BY Zenon DEF Inv, Linked, Connected
  <1>3. Disks(c)'
    BY Zenon DEF Inv, Disks
  <1>4. Engines(c)'
    BY Zenon DEF Inv, Engines
  <1>5. Stage(c)'
    BY Zenon DEF Stage
  <1> QED
    BY Zenon, <1>1, <1>2, <1>3, <1>4, <1>5 DEF Inv

\* ScanLocal leaves an engine.
LEMMA Scanned ==
  ASSUME NEW e, NEW d
  PROVE  IsRecord(ScanLocal(e, d))
  BY Zenon DEF IsRecord, ScanLocal, CommitScan

\* Setting an entry of the remote tree leaves an engine.
LEMMA RemoteSetKeeps ==
  ASSUME NEW e, IsRecord(e), NEW p, NEW entry
  PROVE  IsRecord(RemoteSet(e, p, entry))
  BY SMTT(30) DEF IsRecord, RemoteSet

\* handleMessage of FILE_CREATE: the path is free on the server, and is created.
LEMMA GotCreate ==
  ASSUME NEW c, Kinship(c), Inv(c), SrvFileCreate(1)
  PROVE  Inv(c)'
  <1> DEFINE r == c2s[1]
             m == Head(r)
             d == disk[Server]
             v == View(d)
             w == View(disk[c])
             p == r[1].path
             ok == IF m.entry.type = "dir" THEN CanMkdir(d, m.path) ELSE CanWrite(d, m.path)
             d2 == IF m.entry.type = "dir" THEN Mkdir(d, m.path, m.entry, now + 1)
                                           ELSE CreateFile(d, m.path, m.entry)
             e2 == ScanLocal(RemoteSet(ClearTombstone(eng[Server], m.path), m.path, m.entry), d2)
  <1>1. /\ sphase[1] = "live" /\ r # <<>> /\ m.type = "FILE_CREATE"
        /\ c2s' = [c2s EXCEPT ![1] = Tail(@)]
        /\ UNCHANGED <<saved, pend, up, sphase, stodo, cphase, csess, ctodo, conn, s2c,
                       spent, newest>>
    BY Zenon DEF SrvFileCreate, Live, Reads, Consume, cli, hist, ghost
  <1>2. ok => disk' = [disk EXCEPT ![Server] = d2] /\ eng' = [eng EXCEPT ![Server] = e2]
    BY Zenon DEF SrvFileCreate, ServerEngine
  <1>3. Uploading(c) /\ cphase[c] \in {"upload", "forget", "live"}
    BY Zenon, <1>1, InLive
  <1>4. /\ IsDir(d) /\ IsDir(disk[c]) /\ SameTypes(disk[c], d)
        /\ UploadOK(r, ctodo[c], v, w) /\ EchoOK(s2c[1], w) /\ EventsOK(pend[Server], v, w)
    BY Zenon, <1>3 DEF Inv, Disks, Uploading
  <1>5. /\ DOMAIN v = DOMAIN d
        /\ \A x \in DOMAIN d : v[x].type = d[x].type
        /\ DOMAIN w = DOMAIN disk[c]
        /\ \A x \in DOMAIN disk[c] : w[x].type = disk[c][x].type /\ IsItem(w[x])
    BY Zenon, <1>4, Seen
  <1>6. Head(r) = r[1] /\ \A x \in DOMAIN w : IsItem(w[x])
    <2>1. Head(r) = r[1]
      BY Zenon, <1>1, <1>4, NextUpload
    <2> QED
      BY Zenon, <1>5, <2>1
  <1>7. /\ p \in DOMAIN w \ DOMAIN v /\ r[1].entry.type = w[p].type
        /\ UploadOK(Tail(r), ctodo[c], TreeSet(v, p, Item(w[p].type, <<>>)), w)
    <2> HIDE DEF r, v, w
    <2>1. r[1].type = "FILE_CREATE"
      BY Zenon, <1>1, <1>6
    <2> QED
      BY Zenon, <1>1, <1>4, <1>6, <2>1, UploadCreated DEF p
  <1>8. m.path = p /\ m.entry.type = w[p].type /\ p \in Paths /\ p \notin DOMAIN d
        /\ p \in DOMAIN disk[c] /\ w[p].type \in {"file", "dir"}
    BY Zenon, <1>4, <1>5, <1>6, <1>7 DEF IsDir, IsItem
  <1>9. ok
    BY Zenon, <1>8 DEF CanMkdir, CanWrite
  <1>10. IsDir(d2) /\ View(d2) = TreeSet(v, p, Item(w[p].type, <<>>))
    <2>1. CASE w[p].type = "dir"
      <3>1. d2 = Mkdir(d, p, m.entry, now + 1)
        BY Zenon, <1>8, <2>1
      <3> HIDE DEF d2, m, p, w, d
      <3> QED
        BY Zenon, <1>4, <1>8, <2>1, <3>1, DirCreated
    <2>2. CASE w[p].type = "file"
      <3>1. d2 = CreateFile(d, p, m.entry)
        BY Zenon, <1>8, <2>2
      <3> HIDE DEF d2, m, p, w, d
      <3> QED
        BY Zenon, <1>4, <1>8, <2>2, <3>1, FileCreated
    <2> QED
      BY Zenon, <1>8, <2>1, <2>2
  <1>11. IsRecord(e2)
    BY Zenon, Scanned
  <1>12. /\ disk' = [disk EXCEPT ![Server] = d2] /\ eng' = [eng EXCEPT ![Server] = e2]
    BY Zenon, <1>2, <1>9
  <1> HIDE DEF d2, e2, m, p, ok
  <1>13. /\ DOMAIN View(d2) = DOMAIN d2
         /\ \A x \in DOMAIN d2 : View(d2)[x].type = d2[x].type
    BY Zenon, <1>10, Seen
  <1>14. DOMAIN d2 = DOMAIN d \cup {p} /\ d2[p].type = w[p].type
         /\ \A x \in DOMAIN d : View(d2)[x] = v[x] /\ d2[x].type = d[x].type
    <2>1. View(d2) = TreeSet(v, p, Item(w[p].type, <<>>)) /\ p \notin DOMAIN v
      BY Zenon, <1>7, <1>10
    <2> DEFINE v2 == View(d2)
    <2> HIDE DEF v, w, v2
    <2>2. /\ DOMAIN v2 = DOMAIN v \cup {p} /\ v2[p].type = w[p].type
          /\ \A x \in DOMAIN v : v2[x] = v[x]
      BY SMTT(30), <2>1 DEF TreeSet, Item, v2
    <2> QED
      BY Zenon, <1>5, <1>13, <2>2 DEF v2
  <1>15. SameTypes(disk[c], d2)
    BY Zenon, <1>4, <1>5, <1>8, <1>14 DEF SameTypes
  <1>16. DOMAIN d2 \subseteq DOMAIN disk[c]
    BY Zenon, <1>4, <1>5, <1>8, <1>14 DEF UploadOK, Settled
  <1>17. Uploading(c)'
    <2>1. disk'[Server] = d2 /\ disk'[c] = disk[c] /\ c2s'[1] = Tail(r)
      BY Zenon, <1>1, <1>12, Context DEF Inv, Domains
    <2>2. EventsOK(pend[Server], View(d2), w)
      BY ZenonT(30), <1>4, <1>5, <1>13, <1>14 DEF EventsOK
    <2>3. UploadOK(Tail(r), ctodo[c], View(d2), w)
      BY Zenon, <1>7, <1>10
    <2> HIDE DEF r
    <2> QED
      BY Zenon, <1>1, <1>3, <1>4, <2>1, <2>2, <2>3 DEF Uploading
  <1>18. /\ DOMAIN c2s' = Sessions /\ DOMAIN s2c' = Sessions
         /\ DOMAIN pend' = Hosts /\ DOMAIN pend'[Server] = Paths /\ pend'[c] = pend[c]
         /\ DOMAIN disk' = Hosts /\ disk'[Server] = d2 /\ disk'[c] = disk[c]
         /\ DOMAIN eng' = Hosts /\ eng'[Server] = e2 /\ eng'[c] = eng[c]
         /\ DOMAIN d \subseteq DOMAIN d2
    BY Zenon, <1>1, <1>12, <1>14, Context DEF Inv, Domains
  <1> QED
    BY Zenon, <1>1, <1>3, <1>10, <1>11, <1>15, <1>16, <1>17, <1>18, ServerChanged

\* handleMessage of FILE_MODIFY: the path exists, types and content stay.
LEMMA GotModify ==
  ASSUME NEW c, Kinship(c), Inv(c), SrvFileModify(1)
  PROVE  Inv(c)'
  <1> DEFINE r == c2s[1]
             m == Head(r)
             d == disk[Server]
             v == View(d)
             w == View(disk[c])
             d2 == ApplyAttrs(d, m.path, m.entry)
             e2 == ScanLocal(RemoteSet(eng[Server], m.path, m.entry), d2)
  <1>1. /\ sphase[1] = "live" /\ r # <<>> /\ m.type = "FILE_MODIFY"
        /\ c2s' = [c2s EXCEPT ![1] = Tail(@)]
        /\ UNCHANGED <<saved, pend, up, sphase, stodo, cphase, csess, ctodo, conn, s2c,
                       spent, newest>>
    BY Zenon DEF SrvFileModify, Live, Reads, Consume, cli, hist, ghost
  <1>2. m.path \in DOMAIN d =>
          disk' = [disk EXCEPT ![Server] = d2] /\ eng' = [eng EXCEPT ![Server] = e2]
    BY Zenon DEF SrvFileModify, ServerEngine
  <1>3. Uploading(c) /\ cphase[c] \in {"upload", "forget", "live"}
    BY Zenon, <1>1, InLive
  <1>4. /\ IsDir(d) /\ IsDir(disk[c]) /\ SameTypes(disk[c], d)
        /\ UploadOK(r, ctodo[c], v, w) /\ EchoOK(s2c[1], w) /\ EventsOK(pend[Server], v, w)
    BY Zenon, <1>3 DEF Inv, Disks, Uploading
  <1>5. /\ DOMAIN v = DOMAIN d /\ \A x \in DOMAIN d : v[x].type = d[x].type
        /\ DOMAIN w = DOMAIN disk[c]
    BY Zenon, <1>4, Seen
  <1>6. Head(r) = r[1]
    BY Zenon, <1>1, <1>4, NextUpload
  <1>7. r[1].path \in DOMAIN v /\ UploadOK(Tail(r), ctodo[c], v, w)
    <2> HIDE DEF r, v, w
    <2>1. r[1].type = "FILE_MODIFY"
      BY Zenon, <1>1, <1>6
    <2> QED
      BY Zenon, <1>1, <1>4, <2>1, UploadModified
  <1>8. m.path \in DOMAIN d
    BY Zenon, <1>5, <1>6, <1>7
  <1>9. IsDir(d2) /\ View(d2) = v
    <2> HIDE DEF m, d
    <2> QED
      BY Zenon, <1>4, <1>8, AttrsApplied
  <1>10. IsRecord(e2)
    BY Zenon, Scanned
  <1>11. disk' = [disk EXCEPT ![Server] = d2] /\ eng' = [eng EXCEPT ![Server] = e2]
    BY Zenon, <1>2, <1>8
  <1> HIDE DEF d2, e2, m
  <1>12. /\ DOMAIN View(d2) = DOMAIN d2
         /\ \A x \in DOMAIN d2 : View(d2)[x].type = d2[x].type
    BY Zenon, <1>9, Seen
  <1>13. DOMAIN d2 = DOMAIN d /\ \A x \in DOMAIN d : d2[x].type = d[x].type
    BY Zenon, <1>5, <1>9, <1>12
  <1>14. SameTypes(disk[c], d2)
    BY Zenon, <1>4, <1>13 DEF SameTypes
  <1>15. DOMAIN d2 \subseteq DOMAIN disk[c]
    BY Zenon, <1>4, <1>5, <1>13 DEF UploadOK, Settled
  <1>16. Uploading(c)'
    <2>1. disk'[Server] = d2 /\ disk'[c] = disk[c] /\ c2s'[1] = Tail(r)
      BY Zenon, <1>1, <1>11, Context DEF Inv, Domains
    <2> HIDE DEF r
    <2> QED
      BY Zenon, <1>1, <1>3, <1>4, <1>7, <1>9, <2>1 DEF Uploading
  <1>17. /\ DOMAIN c2s' = Sessions /\ DOMAIN s2c' = Sessions
         /\ DOMAIN pend' = Hosts /\ DOMAIN pend'[Server] = Paths /\ pend'[c] = pend[c]
         /\ DOMAIN disk' = Hosts /\ disk'[Server] = d2 /\ disk'[c] = disk[c]
         /\ DOMAIN eng' = Hosts /\ eng'[Server] = e2 /\ eng'[c] = eng[c]
         /\ DOMAIN d \subseteq DOMAIN d2
    BY Zenon, <1>1, <1>11, <1>13, Context DEF Inv, Domains
  <1> QED
    BY Zenon, <1>1, <1>3, <1>9, <1>10, <1>14, <1>15, <1>16, <1>17, ServerChanged

\* Observe: what a file's content being written adds to the pending events.
LEMMA WriteObserved ==
  ASSUME NEW c, Kinship(c), Inv(c), up, NEW d2, NEW p, DOMAIN d2 = DOMAIN disk[Server],
         NEW W, W \subseteq {p}, Observe(Server, disk[Server], d2, W)
  PROVE  /\ DOMAIN pend' = Hosts /\ DOMAIN pend'[Server] = Paths /\ pend'[c] = pend[c]
         /\ \A x \in Paths : \/ pend'[Server][x] = pend[Server][x]
                             \/ x = p /\ pend'[Server][x] = pend[Server][x] \cup {"write"}
  <1> DEFINE ops == Events(disk[Server], d2, W)
             pd == [x \in Paths |-> IF x \in ign[Server] THEN pend[Server][x]
                                    ELSE pend[Server][x] \cup ops[x]]
  <1>1. pend' = [pend EXCEPT ![Server] = pd]
    BY Zenon DEF Observe, Monitoring
  <1>2. \A x \in Paths : ops[x] = {} \/ (x = p /\ ops[x] = {"write"})
    BY Zenon DEF Events
  <1> HIDE DEF ops
  <1>3. \A x \in Paths : \/ pd[x] = pend[Server][x]
                         \/ x = p /\ pd[x] = pend[Server][x] \cup {"write"}
    BY Zenon, <1>2
  <1>4. DOMAIN pd = Paths
    BY Zenon
  <1> HIDE DEF pd
  <1>5. pend'[Server] = pd /\ pend'[c] = pend[c] /\ DOMAIN pend' = Hosts
    BY Zenon, <1>1, Context DEF Inv, Domains
  <1> QED
    BY Zenon, <1>3, <1>4, <1>5

\* handleMessage of FILE_DATA: the file holds nothing or already this content,
\* and now has that of the client.
LEMMA GotData ==
  ASSUME NEW c, Kinship(c), Inv(c), SrvFileData(1)
  PROVE  Inv(c)'
  <1> DEFINE r == c2s[1]
             m == Head(r)
             d == disk[Server]
             v == View(d)
             w == View(disk[c])
             p == r[1].path
             data == w[p].data
             d2 == WriteChunkAt(d, p, data, now + 1)
             W == IF m.data = <<>> THEN {} ELSE {m.path}
  <1>1. /\ sphase[1] = "live" /\ r # <<>> /\ m.type = "FILE_DATA"
        /\ c2s' = [c2s EXCEPT ![1] = Tail(@)]
        /\ UNCHANGED <<saved, eng, up, sphase, stodo, cphase, csess, ctodo, conn,
                       spent, newest>>
    BY Zenon DEF SrvFileData, Live, Reads, Consume, cli, hist, ghost
  <1>2. CanWrite(d, m.path) =>
          LET n == WriteChunkAt(d, m.path, m.data, now + 1)
          IN  /\ disk' = [disk EXCEPT ![Server] = n] /\ Observe(Server, d, n, W)
              /\ s2c' = SendAll(Registered \ {1}, <<m>>)
    BY Zenon DEF SrvFileData
  <1>3. Uploading(c) /\ cphase[c] \in {"upload", "forget", "live"} /\ up
    BY Zenon, <1>1, InLive
  <1>4. /\ IsDir(d) /\ IsDir(disk[c]) /\ SameTypes(disk[c], d)
        /\ UploadOK(r, ctodo[c], v, w) /\ EchoOK(s2c[1], w) /\ EventsOK(pend[Server], v, w)
    BY Zenon, <1>3 DEF Inv, Disks, Uploading
  <1>5. /\ DOMAIN v = DOMAIN d
        /\ \A x \in DOMAIN d : v[x].type = d[x].type /\ v[x].data = d[x].data
        /\ DOMAIN w = DOMAIN disk[c]
        /\ \A x \in DOMAIN disk[c] : w[x].type = disk[c][x].type /\ IsItem(w[x])
    BY Zenon, <1>4, Seen
  <1>6. Head(r) = r[1]
    BY Zenon, <1>1, <1>4, NextUpload
  <1>7. /\ p \in DOMAIN v /\ p \in DOMAIN w /\ w[p].type = "file" /\ r[1].data = data
        /\ v[p].data = <<>> \/ v[p].data = data
        /\ UploadOK(Tail(r), ctodo[c], TreeSet(v, p, Item("file", data)), w)
    <2> HIDE DEF r, v, w
    <2>1. r[1].type = "FILE_DATA"
      BY Zenon, <1>1, <1>6
    <2> QED
      BY SMTT(30), <1>1, <1>4, <2>1, UploadWritten DEF p, data
  <1>8. /\ p \in DOMAIN d /\ p \in DOMAIN disk[c] /\ disk[c][p].type = "file"
        /\ m.path = p /\ m.data = data /\ data \in Seq(Nat)
        /\ d[p].data = <<>> \/ d[p].data = data
    BY Zenon, <1>5, <1>6, <1>7 DEF IsItem
  <1> HIDE DEF data
  <1>9. Len(d[p].data) <= Len(data)
    <2>1. Len(data) \in Nat
      BY <1>8
    <2>2. CASE d[p].data = <<>>
      <3>1. Len(d[p].data) = 0
        BY SMTT(30), <2>2
      <3> QED
        BY SMTT(30), <2>1, <3>1
    <2>3. CASE d[p].data = data
      BY SMTT(30), <2>1, <2>3
    <2> QED
      BY Zenon, <1>8, <2>2, <2>3
  <1>10. /\ CanWrite(d, p) /\ IsDir(d2) /\ SameTypes(disk[c], d2) /\ DOMAIN d2 = DOMAIN d
         /\ View(d2) = TreeSet(v, p, Item("file", data))
    <2>1. SameTypes(d, disk[c])
      BY Zenon, <1>4 DEF SameTypes
    <2> HIDE DEF d, p
    <2> QED
      BY SMTT(30), <1>4, <1>8, <1>9, <2>1, WrittenDir
  <1>11. /\ disk' = [disk EXCEPT ![Server] = d2] /\ Observe(Server, d, d2, W)
         /\ s2c' = SendAll(Registered \ {1}, <<m>>)
    BY Zenon, <1>2, <1>8, <1>10
  <1>12. W \subseteq {p}
    BY Zenon, <1>8
  <1>13. DOMAIN s2c' = Sessions /\ s2c'[1] = s2c[1]
    BY Zenon, <1>11, Context DEF SendAll
  <1> HIDE DEF d2, m, W
  <1>14. /\ DOMAIN pend' = Hosts /\ DOMAIN pend'[Server] = Paths /\ pend'[c] = pend[c]
         /\ \A x \in Paths : \/ pend'[Server][x] = pend[Server][x]
                             \/ x = p /\ pend'[Server][x] = pend[Server][x] \cup {"write"}
    BY Zenon, <1>3, <1>10, <1>11, <1>12, WriteObserved
  <1>15. EventsOK(pend'[Server], View(d2), w)
    <2> DEFINE v2 == View(d2)
    <2>1. v2 = TreeSet(v, p, Item("file", data)) /\ p \in DOMAIN v
      BY Zenon, <1>7, <1>10
    <2> HIDE DEF v, v2, p, w
    <2>2. /\ DOMAIN v2 = DOMAIN v /\ v2[p].type = "file" /\ v2[p].data = data
          /\ \A x \in DOMAIN v : x # p => v2[x] = v[x]
      BY Zenon, <2>1 DEF TreeSet, Item
    <2> SUFFICES ASSUME NEW x \in Paths, pend'[Server][x] # {}
                 PROVE  /\ x \in DOMAIN v2 /\ v2[x].type = "file" /\ v2[x].data = w[x].data
                        /\ "remove" \notin pend'[Server][x]
      BY Zenon DEF EventsOK, v2
    <2>3. "remove" \notin pend'[Server][x]
      <3>1. "remove" \notin pend[Server][x]
        <4>1. CASE pend[Server][x] = {}
          BY Zenon, <4>1
        <4>2. CASE pend[Server][x] # {}
          BY Zenon, <1>4, <4>2 DEF EventsOK
        <4> QED
          BY Zenon, <4>1, <4>2
      <3> QED
        BY SMTT(30), <1>14, <3>1
    <2>4. CASE x = p
      BY Zenon, <2>1, <2>2, <2>3, <2>4 DEF data
    <2>5. CASE x # p
      <3>1. pend[Server][x] # {}
        BY Zenon, <1>14, <2>5
      <3> QED
        BY Zenon, <1>4, <2>2, <2>3, <2>5, <3>1 DEF EventsOK
    <2> QED
      BY Zenon, <2>4, <2>5
  <1>16. /\ DOMAIN disk' = Hosts /\ disk'[Server] = d2 /\ disk'[c] = disk[c]
         /\ DOMAIN eng' = Hosts /\ eng'[c] = eng[c] /\ IsRecord(eng'[Server])
         /\ DOMAIN c2s' = Sessions /\ c2s'[1] = Tail(r)
    BY Zenon, <1>1, <1>11, Context DEF Inv, Domains, Engines
  <1>17. DOMAIN d \subseteq DOMAIN d2 /\ DOMAIN d2 \subseteq DOMAIN disk[c]
    BY Zenon, <1>4, <1>5, <1>10 DEF UploadOK, Settled
  <1>18. Uploading(c)'
    <2>1. UploadOK(Tail(r), ctodo[c], View(d2), w)
      BY Zenon, <1>7, <1>10
    <2> HIDE DEF r
    <2> QED
      BY Zenon, <1>1, <1>3, <1>4, <1>13, <1>15, <1>16, <2>1 DEF Uploading
  <1> QED
    BY ZenonT(30), <1>1, <1>3, <1>10, <1>13, <1>14, <1>16, <1>17, <1>18, ServerChanged

\* handleMonitorEvent: what it sends back is what the client has.
LEMMA EchoSent ==
  ASSUME NEW q, NEW w, EchoOK(q, w), NEW entry, NEW p \in DOMAIN w, w[p].type = "file",
         NEW ms, ms = <<FileModify(entry, p), FileData(p, w[p].data)>>
  PROVE  EchoOK(q \o ms, w)
  <1>1. /\ IsQueue(ms) /\ Len(ms) = 2 /\ ms[1] = FileModify(entry, p)
        /\ ms[2] = FileData(p, w[p].data)
    <2>1. Len(ms) = 2 /\ ms[1] = FileModify(entry, p) /\ ms[2] = FileData(p, w[p].data)
      BY Zenon
    <2> DEFINE a == FileModify(entry, p)
               b == FileData(p, w[p].data)
    <2>2. ms \in Seq({a, b})
      <3> HIDE DEF a, b
      <3>1. <<a, b>> \in Seq({a, b})
        OBVIOUS
      <3> QED
        BY Zenon, <3>1 DEF a, b
    <2> QED
      BY Zenon, <2>1, <2>2 DEF IsQueue
  <1>2. IsQueue(q)
    BY Zenon DEF EchoOK
  <1>3. /\ IsQueue(q \o ms) /\ Len(q) \in Nat /\ Len(q \o ms) = Len(q) + Len(ms)
        /\ \A i \in 1 .. Len(q) : (q \o ms)[i] = q[i]
        /\ \A i \in 1 .. Len(ms) : (q \o ms)[Len(q) + i] = ms[i]
    BY SMTT(30), <1>1, <1>2, Joined
  <1> DEFINE z == q \o ms
  <1>4. z[Len(q) + 1] = ms[1] /\ z[Len(q) + 2] = ms[2]
    <2>1. 1 \in 1 .. Len(ms) /\ 2 \in 1 .. Len(ms)
      BY <1>1
    <2> QED
      BY Zenon, <1>3, <2>1
  <1>5. ms[1].type = "FILE_MODIFY" /\ IsContent(ms[2], w)
    BY Zenon, <1>1 DEF FileModify, IsContent
  <1> HIDE DEF z
  <1>6. ASSUME NEW i \in 1 .. Len(z)
        PROVE  z[i].type = "FILE_MODIFY" \/ IsContent(z[i], w)
    <2>1. CASE i \in 1 .. Len(q)
      BY Zenon, <1>3, <2>1 DEF EchoOK, z
    <2>2. CASE i \notin 1 .. Len(q)
      <3>1. i = Len(q) + 1 \/ i = Len(q) + 2
        BY SMTT(30), <1>1, <1>3, <2>2 DEF z
      <3> QED
        BY Zenon, <1>4, <1>5, <3>1
    <2> QED
      BY Zenon, <2>1, <2>2
  <1> QED
    BY Zenon, <1>3, <1>6 DEF EchoOK, z

\* handleMonitorEvent of what an upload has written to the server's directory.
LEMMA SentEcho ==
  ASSUME NEW c, Kinship(c), Inv(c), NEW p \in Paths, SrvEvent(p)
  PROVE  Inv(c)'
  <1> DEFINE d == disk[Server]
             v == View(d)
             w == View(disk[c])
             e == ScanLocal(eng[Server], d)
             entry == BuildEntry(d[p])
             ms == <<FileModify(entry, p)>> \o Content(d, p, entry)
  <1>1. /\ up /\ pend[Server][p] # {} /\ pend' = [pend EXCEPT ![Server][p] = {}]
        /\ UNCHANGED <<disk, up, sphase, stodo, cphase, csess, ctodo, conn, c2s, spent, newest>>
    BY Zenon DEF SrvEvent, Flush, fs, srv, cli, hist, ghost
  <1>2. ~NoEvents
    BY Zenon, <1>1 DEF NoEvents
  <1>3. sphase[1] = "live"
    BY Zenon, <1>2 DEF Inv, Stage, Greeting, Streaming, Linked, Together
  <1>4. /\ Uploading(c) /\ cphase[c] \in {"upload", "forget", "live"}
        /\ conn[1] = "open"
    BY Zenon, <1>2, <1>3, InLive
  <1>5. /\ IsDir(d) /\ IsDir(disk[c]) /\ SameTypes(disk[c], d)
        /\ UploadOK(c2s[1], ctodo[c], v, w) /\ EchoOK(s2c[1], w) /\ EventsOK(pend[Server], v, w)
    BY Zenon, <1>4 DEF Inv, Disks, Uploading
  <1>6. /\ DOMAIN v = DOMAIN d
        /\ \A x \in DOMAIN d : v[x].type = d[x].type /\ v[x].data = d[x].data
        /\ DOMAIN w = DOMAIN disk[c]
        /\ \A x \in DOMAIN disk[c] : w[x].type = disk[c][x].type
    BY Zenon, <1>5, Seen
  <1>7. DOMAIN d \subseteq DOMAIN disk[c]
    BY Zenon, <1>5, <1>6 DEF UploadOK, Settled
  <1>8. /\ p \in DOMAIN d /\ d[p].type = "file" /\ d[p].data = w[p].data
        /\ p \in DOMAIN w /\ w[p].type = "file"
        /\ "remove" \notin pend[Server][p]
    BY Zenon, <1>1, <1>5, <1>6, <1>7 DEF EventsOK, SameTypes
  <1>9. EventType(pend[Server][p]) # "delete"
    BY Zenon, <1>8 DEF EventType
  <1>10. /\ eng' = [eng EXCEPT ![Server] = RemoteSet(e, p, entry)]
         /\ s2c' = SendAll(Registered, ms) /\ saved' = saved
    BY Zenon, <1>8, <1>9 DEF SrvEvent, ServerEngine
  <1>11. ms = <<FileModify(entry, p), FileData(p, w[p].data)>>
    <2>1. Content(d, p, entry) = <<FileData(p, w[p].data)>>
      BY Zenon, <1>8 DEF Content, Readable, BuildEntry
    <2> DEFINE a == FileModify(entry, p)
               b == FileData(p, w[p].data)
    <2>2. ms = <<a>> \o <<b>>
      BY Zenon, <2>1
    <2> HIDE DEF a, b
    <2> QED
      BY Zenon, <2>2, Short DEF a, b
  <1>12. EchoOK(s2c[1] \o ms, w)
    <2> HIDE DEF w, entry, ms
    <2> QED
      BY Zenon, <1>5, <1>8, <1>11, EchoSent
  <1>13. DOMAIN s2c' = Sessions /\ s2c'[1] = s2c[1] \o ms
    <2>1. 1 \in Registered
      BY Zenon, <1>3, Context DEF Registered
    <2> HIDE DEF ms
    <2> QED
      BY Zenon, <1>4, <1>10, <2>1, Context DEF SendAll
  <1>14. IsRecord(RemoteSet(e, p, entry))
    BY Zenon, Scanned, RemoteSetKeeps
  <1>15. /\ DOMAIN pend' = Hosts /\ DOMAIN pend'[Server] = Paths /\ pend'[c] = pend[c]
         /\ \A x \in Paths : pend'[Server][x] = {} \/ pend'[Server][x] = pend[Server][x]
    BY Zenon, <1>1, Context DEF Inv, Domains
  <1>16. EventsOK(pend'[Server], v, w)
    <2> HIDE DEF v, w
    <2> SUFFICES ASSUME NEW x \in Paths, pend'[Server][x] # {}
                 PROVE  /\ x \in DOMAIN v /\ v[x].type = "file" /\ v[x].data = w[x].data
                        /\ "remove" \notin pend'[Server][x]
      BY Zenon DEF EventsOK
    <2>1. pend'[Server][x] = pend[Server][x]
      BY Zenon, <1>15
    <2> QED
      BY Zenon, <1>5, <2>1 DEF EventsOK
  <1> HIDE DEF ms, e, entry
  <1>17. /\ DOMAIN disk' = Hosts /\ disk' = disk /\ DOMAIN c2s' = Sessions
         /\ DOMAIN eng' = Hosts /\ eng'[c] = eng[c] /\ IsRecord(eng'[Server])
    BY Zenon, <1>1, <1>10, <1>14, Context DEF Inv, Domains
  <1>18. Uploading(c)'
    BY Zenon, <1>1, <1>4, <1>5, <1>12, <1>13, <1>16 DEF Uploading
  <1> QED
    BY Zenon, <1>1, <1>3, <1>4, <1>5, <1>7, <1>10, <1>13, <1>15, <1>17, <1>18, ServerChanged

-----------------------------------------------------------------------------
(* Every step is one of those, every behaviour satisfies the invariant.    *)

\* No step spends an edit, a tick, a drop, a stop or a crash.
LEMMA NothingSpent ==
  ASSUME NEW c, Kinship(c), Inv(c), NEW k \in {"edit", "drop", "tick", "crash", "stop"}
  PROVE  ~Spend(k)
  BY SMTT(30), Context DEF Inv, Quiet, Spend

\* What a session's goroutines on the server do; no deletion is ever received,
\* and there is one session.
LEMMA ServerSteps ==
  ASSUME NEW c, Kinship(c), Inv(c), NEW s \in Sessions, SrvStep(s) \/ Tick(s) \/ Drop(s)
  PROVE  Inv(c)'
  <1>1. ~Tick(s) /\ ~Drop(s) /\ ~SrvEnd(s)
    <2>1. ~Spend("tick") /\ ~Spend("drop")
      BY Zenon, NothingSpent
    <2> QED
      BY Zenon, <2>1 DEF Tick, Drop, SrvEnd, Inv, Quiet
  <1>2. s = 1
    <2>1. sphase[s] # "none"
      BY Zenon, <1>1 DEF SrvStep, SrvAccepted, SrvHello, SrvSendTree, SrvSyncInit, SrvSyncApply,
                  SrvStream, SrvAck, SrvFileCreate, SrvFileModify, SrvFileDelete, SrvFileData,
                  Reads, Live
    <2> QED
      BY Zenon, <2>1 DEF Inv, Quiet
  <1>3. ~SrvFileDelete(s)
    <2> SUFFICES ASSUME SrvFileDelete(1) PROVE FALSE
      BY Zenon, <1>2
    <2>1. sphase[1] = "live" /\ c2s[1] # <<>> /\ Head(c2s[1]).type = "FILE_DELETE"
      BY Zenon DEF SrvFileDelete, Live, Reads
    <2>2. UploadOK(c2s[1], ctodo[c], View(disk[Server]), View(disk[c]))
      BY Zenon, <2>1, InLive DEF Uploading
    <2> DEFINE r == c2s[1]
               w == View(disk[c])
               v == View(disk[Server])
    <2> HIDE DEF r, w, v
    <2>3. r # <<>> /\ UploadOK(r, ctodo[c], v, w) /\ Head(r).type = "FILE_DELETE"
      BY Zenon, <2>1, <2>2 DEF r, v, w
    <2>4. /\ Head(r) = r[1]
          /\ IsCreate(1, r, v, w) \/ IsModify(1, r, v) \/ IsData(1, r, v, w)
      BY Zenon, <2>3, NextUpload
    <2>5. r[1].type \in {"FILE_CREATE", "FILE_MODIFY", "FILE_DATA"}
      <3>1. CASE IsData(1, r, v, w)
        BY SMTT(30), <3>1, IsFileData DEF IsData
      <3> QED
        BY Zenon, <2>4, <3>1 DEF IsCreate, IsModify
    <2> QED
      BY Zenon, <2>3, <2>4, <2>5
  <1> QED
    BY Zenon, <1>1, <1>2, <1>3, Accepted, Greeted, SentTree, GotTree, SentApply, Streamed, SentAck,
       GotCreate, GotModify, GotData DEF SrvStep

\* What the client does: the handshake succeeds, the connection is not lost, and
\* a live session brings nothing but what the server sends back.
LEMMA ClientSteps ==
  ASSUME NEW c, Kinship(c), Inv(c), CliStep(c) \/ CliCrash(c)
  PROVE  Inv(c)'
  <1>1. ~CliCrash(c)
    BY Zenon, NothingSpent DEF CliCrash
  <1>2. ~CliLost(c)
    <2> SUFFICES ASSUME CliLost(c) PROVE FALSE
      BY Zenon
    <2>1. Connected(c) /\ conn[csess[c]] = "closed"
      BY Zenon DEF CliLost, Connected
    <2> QED
      BY Zenon, <2>1 DEF Inv, Linked
  <1>3. ~CliHandshakeFails(c)
    <2> SUFFICES ASSUME CliHandshakeFails(c) PROVE FALSE
      BY Zenon
    <2>1. cphase[c] = "ack" /\ s2c[csess[c]] # <<>> /\ Head(s2c[csess[c]]) # HelloAck
      BY Zenon DEF CliHandshakeFails, Msg
    <2>2. csess[c] = 1 /\ Greeting(c)
      BY Zenon, <2>1 DEF Inv, Linked, Connected, Together, Stage
    <2>3. \/ s2c[1] = <<HelloAck>>
          \/ s2c[1] = <<HelloAck, SyncInit(WalkDirectory(disk[Server]))>>
      BY Zenon, <2>1, <2>2 DEF Greeting
    <2> DEFINE a == HelloAck
               b == SyncInit(WalkDirectory(disk[Server]))
    <2> HIDE DEF a, b
    <2>4. Head(<<a>>) = a /\ Head(<<a, b>>) = a
      OBVIOUS
    <2> QED
      BY Zenon, <2>1, <2>2, <2>3, <2>4 DEF a, b
  <1>4. ~CliFileDelete(c) /\ ~CliSyncApply(c) /\ ~CliOther(c)
    <2> SUFFICES ASSUME CliFileDelete(c) \/ CliSyncApply(c) \/ CliOther(c) PROVE FALSE
      BY Zenon
    <2>1. /\ cphase[c] = "live" /\ s2c[csess[c]] # <<>>
          /\ Head(s2c[csess[c]]).type \in {"FILE_DELETE", "SYNC_APPLY", "SYNC_INIT", "ACK"}
      BY Zenon DEF CliFileDelete, CliSyncApply, CliOther, LiveMsg, Receives, Msg
    <2>2. csess[c] = 1 /\ EchoOK(s2c[1], View(disk[c]))
      BY Zenon, <2>1, InUpload DEF Uploading
    <2>3. Head(s2c[1]).type = "FILE_MODIFY" \/ IsContent(Head(s2c[1]), View(disk[c]))
      BY Zenon, <2>1, <2>2, EchoTail
    <2>4. Head(s2c[1]).type \in {"FILE_MODIFY", "FILE_DATA"}
      BY SMTT(30), <2>3, IsFileData DEF IsContent
    <2> QED
      BY Zenon, <2>1, <2>2, <2>4
  <1> QED
    BY Zenon, <1>1, <1>2, <1>3, <1>4, ClientStarted, ClientConnected, GotHelloAck, ReadTree, ReadApply,
       ReadData, Uploaded, Forgot, WentLive, ReadModify, ReadEcho DEF CliStep

\* Every step of the system keeps the invariant.
LEMMA Steps ==
  ASSUME NEW c, Kinship(c), Inv(c), [Next]_vars
  PROVE  Inv(c)'
  <1>1. CASE UNCHANGED vars
    <2>1. UNCHANGED <<disk, saved, eng, pend, up, sphase, stodo, cphase, csess, ctodo, conn, c2s,
                      s2c, spent, newest>>
      BY Zenon, <1>1 DEF vars, fs, mon, srv, cli, net, hist, ghost
    <2> QED
      BY Zenon, <2>1, Unchanged
  <1>2. ASSUME NEW s \in Sessions, SrvStep(s) \/ Tick(s) \/ Drop(s)
        PROVE  Inv(c)'
    BY Zenon, <1>2, ServerSteps
  <1>3. ASSUME NEW x \in Clients, CliStep(x) \/ CliCrash(x)
        PROVE  Inv(c)'
    <2>1. x = c
      BY Zenon, Context
    <2> QED
      BY Zenon, <1>3, <2>1, ClientSteps
  <1>4. ASSUME NEW p \in Paths, SrvEvent(p)
        PROVE  Inv(c)'
    BY Zenon, <1>4, SentEcho
  <1>5. ASSUME NEW p \in Paths, NEW x \in Clients, CliEvent(x, p)
        PROVE  Inv(c)'
    <2>1. x = c
      BY Zenon, Context
    <2>2. pend[c][p] # {}
      BY Zenon, <1>5, <2>1 DEF CliEvent
    <2> QED
      BY Zenon, <2>2 DEF Inv, Quiet
  <1>6. ASSUME NEW h \in Hosts, NEW p \in Paths, IgnoreExpires(h, p) \/ UserStep(h, p)
        PROVE  Inv(c)'
    <2>1. ~UserStep(h, p)
      BY Zenon, NothingSpent DEF UserStep, UserMkdir, UserDelete, UserWrite, Edit
    <2> QED
      BY Zenon, <1>6, <2>1, Expired
  <1>7. CASE ServerStart
    BY Zenon, <1>7, Started
  <1>8. ~ServerStop /\ ~ServerCrash
    BY Zenon, NothingSpent DEF ServerStop, ServerCrash
  <1> QED
    BY Zenon, <1>1, <1>2, <1>3, <1>4, <1>5, <1>6, <1>7, <1>8 DEF Next

\* What both directories have when the programs are first started is of the same
\* kind, and no longer on the client.
Compatible(c) ==
  SameTypes(disk[c], disk[Server]) /\ NoLonger(View(disk[c]), View(disk[Server]))

\* The invariant holds when the programs are first started.
LEMMA Initially ==
  ASSUME NEW c, Kinship(c), Init, Compatible(c)
  PROVE  Inv(c)
  <1>1. IsDir(disk[c]) /\ IsDir(disk[Server])
    <2> SUFFICES ASSUME NEW h \in Hosts PROVE IsDir(disk[h])
      BY Zenon, Context
    <2>1. PICK D \in SUBSET Paths : disk[h] \in [D -> InitInodes]
      BY SMTT(30) DEF Init
    <2>2. ASSUME NEW p \in DOMAIN disk[h]
          PROVE  disk[h][p] \in Inodes /\ (disk[h][p].type = "dir" => disk[h][p].data = <<>>)
      BY Zenon, <2>1, FileSyncAssumption DEF Kinship, Undisturbed
    <2> QED
      BY Zenon, <2>1, <2>2 DEF IsDir, IsItem, Inodes
  <1>2. Domains
    <2>1. pend[Server] = NoPending
      BY Zenon, Context DEF Init
    <2> QED
      BY Zenon, <2>1 DEF Init, Domains, NoPending
  <1>3. Quiet(c)
    BY Zenon, Context DEF Init, Quiet, NoPending
  <1>4. Linked(c)
    BY Zenon, Context DEF Init, Linked, Connected, Together
  <1>5. Disks(c)
    <2>1. ASSUME NEW p \in Paths
          PROVE  newest[p].there <=> p \in DOMAIN disk[c] \cup DOMAIN disk[Server]
      <3> DEFINE S == {disk[h][p] : h \in {g \in Hosts : p \in DOMAIN disk[g]}}
      <3>1. newest[p] = LatestOf(S)
        BY Zenon DEF Init
      <3>2. S = {} <=> p \notin DOMAIN disk[c] \cup DOMAIN disk[Server]
        BY SMTT(30), Context
      <3> HIDE DEF S
      <3> QED
        BY SMTT(30), <3>1, <3>2 DEF LatestOf, Gone, Holds
    <2>2. DOMAIN disk[c] \cup DOMAIN disk[Server] \subseteq Paths
      BY Zenon, <1>1 DEF IsDir
    <2> QED
      BY Zenon, <1>1, <2>1, <2>2 DEF Disks, Compatible
  <1>6. Engines(c)
    <2>1. eng[c] = NewEngine(NoFile) /\ eng[Server] = NewEngine(NoFile)
          /\ cphase[c] = "start" /\ sphase[1] = "none" /\ ~up
      BY Zenon, Context DEF Init
    <2> QED
      BY SMTT(30), <2>1, NewEngineIsEmpty DEF Engines, IsRecord
  <1>7. Stage(c)
    <2>1. cphase[c] = "start" /\ sphase[1] = "none" /\ c2s[1] = <<>> /\ s2c[1] = <<>>
      BY Zenon, Context DEF Init
    <2>2. NoEvents
      BY Zenon, Context DEF Init, NoEvents, NoPending
    <2> QED
      BY Zenon, <2>1, <2>2 DEF Stage, Greeting, Compatible
  <1> QED
    BY Zenon, <1>2, <1>3, <1>4, <1>5, <1>6, <1>7 DEF Inv

\* When everything has been exchanged, nothing is left to be uploaded.
LEMMA Synchronised ==
  ASSUME NEW c, Kinship(c), Inv(c), Quiescent
  PROVE  /\ DOMAIN disk[c] = DOMAIN disk[Server]
         /\ \A p \in DOMAIN disk[c] : disk[c][p].type = disk[Server][p].type
                                      /\ disk[c][p].data = disk[Server][p].data
  <1> DEFINE v == View(disk[Server])
             w == View(disk[c])
             r == c2s[1]
  <1>1. cphase[c] = "live" /\ csess[c] \in Registered
    BY Zenon, Context DEF Quiescent
  <1>2. csess[c] = 1 /\ Uploading(c)
    BY Zenon, <1>1, InUpload
  <1>3. r = <<>> /\ ctodo[c] = {} /\ UploadOK(r, ctodo[c], v, w)
    BY Zenon, <1>1, <1>2 DEF Quiescent, Uploading
  <1>4. Len(r) = 0
    BY SMTT(30), <1>3
  <1>5. IsDir(disk[c]) /\ IsDir(disk[Server]) /\ SameTypes(disk[c], disk[Server])
    BY Zenon DEF Inv, Disks
  <1>6. /\ DOMAIN v = DOMAIN disk[Server] /\ DOMAIN w = DOMAIN disk[c]
        /\ \A p \in DOMAIN disk[Server] : v[p].data = disk[Server][p].data
        /\ \A p \in DOMAIN disk[c] : w[p].data = disk[c][p].data
    BY Zenon, <1>5, Seen
  <1> HIDE DEF r, v, w
  <1>7. \A p \in DOMAIN w \ DOMAIN v : FALSE
    BY SMTT(30), <1>3, <1>4 DEF UploadOK, Announced
  <1>8. DOMAIN v \subseteq DOMAIN w /\ \A p \in DOMAIN v : v[p].data = w[p].data
    BY SMTT(30), <1>3, <1>4 DEF UploadOK, Settled
  <1> QED
    BY Zenon, <1>5, <1>6, <1>7, <1>8 DEF SameTypes

\* What the invariant means: the properties that the runs sync_offline,
\* sync_live and sync_tick check.
LEMMA SynchronisedIs ==
  ASSUME NEW c, Kinship(c), Inv(c)
  PROVE  Converged /\ NoDataLoss /\ DeletionsStick
  <1>1. Converged
    BY Synchronised, Context DEF Converged
  <1>2. {p \in Paths : newest[p].there} = DOMAIN disk[c] \cup DOMAIN disk[Server]
        /\ Hosts = {c, Server} /\ c \in Hosts /\ Server \in Hosts
    BY Zenon, Context DEF Inv, Disks
  <1>3. NoDataLoss
    BY Zenon, <1>2 DEF NoDataLoss
  <1>4. DeletionsStick
    BY Zenon, <1>2 DEF DeletionsStick
  <1> QED
    BY Zenon, <1>1, <1>3, <1>4

\* The first synchronisation is right, for any two directories whose common
\* paths are of the same kind and no longer on the client, for any paths, content
\* and interleaving of server, client and monitors: when everything has been
\* exchanged both hold the same files with the same content.  A file that is
\* longer on the client is excluded because WriteChunkAt does not truncate: its
\* old end stays.
THEOREM FirstSync ==
  ASSUME NEW c, Clients = {c}, Undisturbed
  PROVE  Compatible(c) /\ Spec => []Converged
  <1>1. Kinship(c)
    BY Zenon DEF Kinship
  <1>2. Init /\ Compatible(c) => Inv(c)
    BY Zenon, <1>1, Initially
  <1>3. Inv(c) /\ [Next]_vars => Inv(c)'
    BY Zenon, <1>1, Steps
  <1>4. Inv(c) => Converged
    BY Zenon, <1>1, SynchronisedIs
  <1> QED
    BY <1>2, <1>3, <1>4, PTL DEF Spec

\* In the same situation no file is lost: what one of the two directories held
\* when the programs were started exists when everything has been exchanged,
\* although DiffInitial, the uploads and the monitors' events decide at
\* different times what the other side lacks.
THEOREM FirstSyncLosesNothing ==
  ASSUME NEW c, Clients = {c}, Undisturbed
  PROVE  Compatible(c) /\ Spec => []NoDataLoss
  <1>1. Kinship(c)
    BY Zenon DEF Kinship
  <1>2. Init /\ Compatible(c) => Inv(c)
    BY Zenon, <1>1, Initially
  <1>3. Inv(c) /\ [Next]_vars => Inv(c)'
    BY Zenon, <1>1, Steps
  <1>4. Inv(c) => NoDataLoss
    BY Zenon, <1>1, SynchronisedIs
  <1> QED
    BY <1>2, <1>3, <1>4, PTL DEF Spec

\* In the same situation nothing appears that was on neither side: neither the
\* operations of SYNC_APPLY nor the server's echo of an upload create a path
\* that no directory held.
THEOREM FirstSyncInventsNothing ==
  ASSUME NEW c, Clients = {c}, Undisturbed
  PROVE  Compatible(c) /\ Spec => []DeletionsStick
  <1>1. Kinship(c)
    BY Zenon DEF Kinship
  <1>2. Init /\ Compatible(c) => Inv(c)
    BY Zenon, <1>1, Initially
  <1>3. Inv(c) /\ [Next]_vars => Inv(c)'
    BY Zenon, <1>1, Steps
  <1>4. Inv(c) => DeletionsStick
    BY Zenon, <1>1, SynchronisedIs
  <1> QED
    BY <1>2, <1>3, <1>4, PTL DEF Spec

=============================================================================
