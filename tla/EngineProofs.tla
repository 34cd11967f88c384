---------------------------- MODULE EngineProofs ----------------------------
(***************************************************************************)
(* Proofs about Engine: the type invariant, LocalKnown, NeverForgets, and  *)
(* that with one goroutine at a time a tombstone means a deletion.         *)
(***************************************************************************)
EXTENDS Engine, TLAPS

-----------------------------------------------------------------------------
(* The operators of FileTree and EngineOps.                                *)

\* FileTree.Set adds one path to a tree and keeps it a tree.
LEMMA TreeSetTree ==
  ASSUME NEW t, IsTree(t), NEW p \in Paths, NEW e \in Entries
  PROVE  IsTree(TreeSet(t, p, e)) /\ DOMAIN TreeSet(t, p, e) = DOMAIN t \cup {p}
BY DEF IsTree, TreeSet

\* FileTree.Remove takes one path out of a tree and keeps it a tree.
LEMMA TreeRemoveTree ==
  ASSUME NEW t, IsTree(t), NEW p
  PROVE  IsTree(TreeRemove(t, p)) /\ DOMAIN TreeRemove(t, p) = DOMAIN t \ {p}
BY DEF IsTree, TreeRemove

\* A new tree is empty.
LEMMA EmptyTreeTree == IsTree(EmptyTree) /\ DOMAIN EmptyTree = {}
BY DEF IsTree, EmptyTree

\* Loading the tombstone file: deleted paths are known and tombstoned.
LEMMA NewEngineFields ==
  ASSUME NEW f \in TombstoneFiles
  PROVE  /\ IsEngine(NewEngine(f))
         /\ NewEngine(f).local = EmptyTree
         /\ NewEngine(f).tomb = LoadedPaths(f.D)
         /\ NewEngine(f).prev = LoadedPaths(f.D) \cup LoadedPaths(f.K)
BY EmptyTreeTree, EngineAssumption
   DEF NewEngine, IsEngine, LoadedPaths, TombstoneFiles

\* The locked part of ScanLocal: vanished paths become tombstones.
LEMMA CommitScanFields ==
  ASSUME NEW e, IsEngine(e), NEW t, IsTree(t)
  PROVE  /\ IsEngine(CommitScan(e, t))
         /\ CommitScan(e, t).local = t
         /\ CommitScan(e, t).tomb = e.tomb \cup (e.prev \ DOMAIN t)
         /\ CommitScan(e, t).prev = DOMAIN t
BY DEF CommitScan, IsEngine, IsTree

\* Each setter of the engine changes one field and keeps the others.
LEMMA SetterFields ==
  ASSUME NEW e, IsEngine(e), NEW t, IsTree(t), NEW s \in SUBSET Paths
  PROVE  /\ [e EXCEPT !.remote = t] =
              [local |-> e.local, remote |-> t, tomb |-> e.tomb, prev |-> e.prev]
         /\ [e EXCEPT !.local = t] =
              [local |-> t, remote |-> e.remote, tomb |-> e.tomb, prev |-> e.prev]
         /\ [e EXCEPT !.tomb = s] =
              [local |-> e.local, remote |-> e.remote, tomb |-> s, prev |-> e.prev]
         /\ [e EXCEPT !.prev = s] =
              [local |-> e.local, remote |-> e.remote, tomb |-> e.tomb, prev |-> s]
<1>1. PICK l, r, d, k : e = [local |-> l, remote |-> r, tomb |-> d, prev |-> k]
  BY DEF IsEngine
<1> QED BY <1>1

\* RemoteTree().Set records an entry as the client's and does nothing else.
LEMMA RemoteSetFields ==
  ASSUME NEW e, IsEngine(e), NEW p \in Paths, NEW x \in Entries
  PROVE  LET n == RemoteSet(e, p, x)
         IN  /\ IsEngine(n) /\ n.local = e.local /\ n.prev = e.prev
             /\ n.tomb = e.tomb
<1>1. IsTree(TreeSet(e.remote, p, x))
  BY ZenonT(30), TreeSetTree DEF IsEngine
<1>2. RemoteSet(e, p, x) = [local |-> e.local, remote |-> TreeSet(e.remote, p, x),
                            tomb |-> e.tomb, prev |-> e.prev]
  BY ZenonT(30), <1>1, SetterFields DEF RemoteSet
<1> QED BY <1>1, <1>2 DEF IsEngine

\* RemoteTree().Remove changes the remote tree only.
LEMMA RemoteRemoveFields ==
  ASSUME NEW e, IsEngine(e), NEW p \in Paths
  PROVE  LET n == RemoteRemove(e, p)
         IN  /\ IsEngine(n) /\ n.local = e.local /\ n.prev = e.prev
             /\ n.tomb = e.tomb
<1>1. IsTree(TreeRemove(e.remote, p))
  BY ZenonT(30), TreeRemoveTree DEF IsEngine
<1>2. RemoteRemove(e, p) = [local |-> e.local, remote |-> TreeRemove(e.remote, p),
                            tomb |-> e.tomb, prev |-> e.prev]
  BY ZenonT(30), <1>1, SetterFields DEF RemoteRemove
<1> QED BY <1>1, <1>2 DEF IsEngine

\* LocalTree().Remove changes the local tree only.
LEMMA LocalRemoveFields ==
  ASSUME NEW e, IsEngine(e), NEW p \in Paths
  PROVE  LET n == LocalRemove(e, p)
         IN  /\ IsEngine(n) /\ n.local = TreeRemove(e.local, p)
             /\ n.prev = e.prev /\ n.tomb = e.tomb
<1>1. IsTree(TreeRemove(e.local, p))
  BY ZenonT(30), TreeRemoveTree DEF IsEngine
<1>2. LocalRemove(e, p) = [local |-> TreeRemove(e.local, p), remote |-> e.remote,
                           tomb |-> e.tomb, prev |-> e.prev]
  BY ZenonT(30), <1>1, SetterFields DEF LocalRemove
<1> QED BY <1>1, <1>2 DEF IsEngine

\* The setters of the tombstones change the tombstones only.
LEMMA TombFields ==
  ASSUME NEW e, IsEngine(e), NEW s \in SUBSET Paths
  PROVE  LET n == [e EXCEPT !.tomb = s]
         IN  /\ IsEngine(n) /\ n.local = e.local /\ n.prev = e.prev
             /\ n.tomb = s
<1>1. [e EXCEPT !.tomb = s] = [local |-> e.local, remote |-> e.remote,
                               tomb |-> s, prev |-> e.prev]
  BY ZenonT(30), EmptyTreeTree, SetterFields
<1> QED BY <1>1 DEF IsEngine

\* FILE_CREATE clears one tombstone and records the entry as the client's.
LEMMA CreateFields ==
  ASSUME NEW e, IsEngine(e), NEW p \in Paths, NEW x \in Entries
  PROVE  LET n == RemoteSet(ClearTombstone(e, p), p, x)
         IN  /\ IsEngine(n) /\ n.local = e.local /\ n.prev = e.prev
             /\ n.tomb = e.tomb \ {p}
<1>1. e.tomb \ {p} \in SUBSET Paths
  BY DEF IsEngine
<1> DEFINE c == ClearTombstone(e, p)
<1>2. c = [e EXCEPT !.tomb = e.tomb \ {p}]
  BY DEF ClearTombstone
<1> HIDE DEF c
<1>3. /\ IsEngine(c) /\ c.local = e.local /\ c.prev = e.prev
      /\ c.tomb = e.tomb \ {p}
  BY <1>1, <1>2, TombFields
<1> QED BY <1>3, RemoteSetFields DEF c

\* FILE_DELETE takes the path out of both trees and tombstones it.
LEMMA DeleteFields ==
  ASSUME NEW e, IsEngine(e), NEW p \in Paths
  PROVE  LET n == AddTombstone(LocalRemove(RemoteRemove(e, p), p), p)
         IN  /\ IsEngine(n) /\ n.local = TreeRemove(e.local, p)
             /\ n.prev = e.prev /\ n.tomb = e.tomb \cup {p}
<1> DEFINE l == LocalRemove(RemoteRemove(e, p), p)
<1>1. /\ IsEngine(l) /\ l.local = TreeRemove(e.local, p)
      /\ l.prev = e.prev /\ l.tomb = e.tomb
  BY RemoteRemoveFields, LocalRemoveFields
<1>2. l.tomb \cup {p} \in SUBSET Paths
  BY <1>1 DEF IsEngine
<1>3. AddTombstone(l, p) = [l EXCEPT !.tomb = l.tomb \cup {p}]
  BY DEF AddTombstone
<1> HIDE DEF l
<1> QED BY <1>1, <1>2, <1>3, TombFields DEF l

\* SYNC_INIT makes the client's tree the remote one and its paths known.
LEMMA ReceiveFields ==
  ASSUME NEW e, IsEngine(e), NEW t, IsTree(t)
  PROVE  LET n == AddToPreviousPaths(SetRemoteTree(e, t), DOMAIN t)
         IN  /\ IsEngine(n) /\ n.local = e.local
             /\ n.prev = e.prev \cup DOMAIN t /\ n.tomb = e.tomb
<1> DEFINE r == SetRemoteTree(e, t)
<1>1. r = [local |-> e.local, remote |-> t, tomb |-> e.tomb, prev |-> e.prev]
  BY ZenonT(30), EmptyTreeTree, SetterFields DEF SetRemoteTree
<1>2. IsEngine(r)
  BY <1>1 DEF IsEngine
<1>3. r.prev \cup DOMAIN t \in SUBSET Paths
  BY <1>1 DEF IsEngine, IsTree
<1> HIDE DEF r
<1>4. AddToPreviousPaths(r, DOMAIN t) =
        [local |-> r.local, remote |-> r.remote, tomb |-> r.tomb,
         prev |-> r.prev \cup DOMAIN t]
  BY ZenonT(30), <1>2, <1>3, EmptyTreeTree, SetterFields DEF AddToPreviousPaths
<1> QED BY <1>1, <1>2, <1>3, <1>4 DEF IsEngine, r

\* ClearTombstones clears the tombstones and nothing else.
LEMMA ClearFields ==
  ASSUME NEW e, IsEngine(e)
  PROVE  LET n == ClearTombstones(e)
         IN  /\ IsEngine(n) /\ n.local = e.local /\ n.prev = e.prev
             /\ n.tomb = {}
BY TombFields DEF ClearTombstones

-----------------------------------------------------------------------------
(* Type correctness.                                                       *)

\* A goroutine's walk becomes the tree it has just read.
LEMMA WalkStarts ==
  ASSUME NEW f, AreWalks(f), NEW w \in Workers, NEW t, IsTree(t)
  PROVE  AreWalks([f EXCEPT ![w] = Walk(t)])
BY ZenonT(30) DEF AreWalks, Walk

\* A goroutine's walk ends, committed or failed.
LEMMA WalkEnds ==
  ASSUME NEW f, AreWalks(f), NEW w \in Workers
  PROVE  AreWalks([f EXCEPT ![w] = NoWalk])
BY ZenonT(30), EmptyTreeTree DEF AreWalks, NoWalk

\* No goroutine walks.
LEMMA NoWalks == AreWalks([w \in Workers |-> NoWalk])
BY ZenonT(30), EmptyTreeTree DEF AreWalks, NoWalk

\* Unlinking the tombstone file takes no line from a save under way.
LEMMA UnlinkedSaves ==
  ASSUME save \in [Savers -> Saves]
  PROVE  /\ Unlinked \in [Savers -> Saves]
         /\ \A g \in Savers : Unlinked[g].left = save[g].left
BY DEF Unlinked, Saves

\* The lines to save are those of the engine's sets.
LEMMA LinesToSave ==
  ASSUME NEW e, IsEngine(e)
  PROVE  TombstoneLines(e) \in TombstoneFiles
BY DEF TombstoneLines, TombstoneFiles, IsEngine

\* TypeOK holds throughout: trees hold only known paths and well-formed
\* entries, and every save in progress writes lines of known paths.
THEOREM TypeCorrect == Spec => []TypeOK
<1>0. NoFile \in TombstoneFiles /\ NoSave \in Saves
  BY DEF NoFile, TombstoneFiles, NoSave, Saves
<1>1. Init => TypeOK
  <2> SUFFICES ASSUME Init PROVE TypeOK
    OBVIOUS
  <2>1. IsEngine(engine)
    BY <1>0, NewEngineFields DEF Init
  <2>2. IsTree(disk)
    BY SMTT(30), EngineAssumption DEF Init, IsTree
  <2> QED BY <1>0, <2>1, <2>2, NoWalks DEF Init, TypeOK
<1>2. TypeOK /\ [Next]_vars => TypeOK'
  <2> SUFFICES ASSUME TypeOK, [Next]_vars PROVE TypeOK'
    OBVIOUS
  <2> USE DEF TypeOK, Edit
  <2>1. ASSUME NEW p \in Paths, UserDelete(p) PROVE TypeOK'
    <3>1. IsTree(disk')
      BY ZenonT(30), <2>1, TreeRemoveTree DEF UserDelete
    <3> QED BY <2>1, <3>1 DEF UserDelete
  <2>2. ASSUME NEW p \in Paths, NEW e \in Files, UserWrite(p, e) PROVE TypeOK'
    <3>1. IsTree(disk')
      BY ZenonT(30), <2>2, TreeSetTree, EngineAssumption DEF UserWrite
    <3> QED BY <2>2, <3>1 DEF UserWrite
  <2>3. ASSUME NEW w \in Workers, ScanWalk(w) PROVE TypeOK'
    BY ZenonT(30), <2>3, WalkStarts DEF ScanWalk
  <2>4. ASSUME NEW w \in Workers, ScanCommit(w) PROVE TypeOK'
    <3>1. IsTree(walk[w].tree)
      BY DEF AreWalks
    <3> QED BY ZenonT(30), <2>4, <3>1, WalkEnds, CommitScanFields DEF ScanCommit
  <2>5. ASSUME NEW w \in Workers, ScanFails(w) PROVE TypeOK'
    BY ZenonT(30), <2>5, WalkEnds DEF ScanFails
  <2>6. ASSUME NEW w \in Workers, NEW t \in ClientTrees, ReceiveTree(w, t)
        PROVE  TypeOK'
    BY <2>6, ReceiveFields, EngineAssumption DEF ReceiveTree
  <2>7. ASSUME NEW w \in Workers, NEW p \in Paths, NEW e \in Files,
               ClientCreate(w, p, e)
        PROVE  TypeOK'
    <3>1. e \in Entries
      BY EngineAssumption
    <3>2. IsTree(disk')
      BY ZenonT(30), <2>7, <3>1, TreeSetTree DEF ClientCreate
    <3>3. IsEngine(engine')
      BY <2>7, <3>1, CreateFields DEF ClientCreate
    <3>4. AreWalks(walk')
      BY ZenonT(30), <2>7, <3>2, WalkStarts DEF ClientCreate
    <3> QED BY <2>7, <3>2, <3>3, <3>4 DEF ClientCreate
  <2>8. ASSUME NEW w \in Workers, NEW p \in Paths, NEW e \in Files,
               ClientModify(w, p, e)
        PROVE  TypeOK'
    <3>1. e \in Entries
      BY EngineAssumption
    <3>2. disk[p] \in Entries
      BY <2>8 DEF ClientModify, IsTree
    <3>3. [disk[p] EXCEPT !.mtime = e.mtime, !.mode = e.mode] \in Entries
      BY ZenonT(30), <3>1, <3>2 DEF Entries
    <3>4. IsTree(disk')
      BY ZenonT(30), <2>8, <3>3, TreeSetTree DEF ClientModify
    <3>5. IsEngine(engine')
      BY <2>8, <3>1, RemoteSetFields DEF ClientModify
    <3>6. AreWalks(walk')
      BY ZenonT(30), <2>8, <3>4, WalkStarts DEF ClientModify
    <3> QED BY <2>8, <3>4, <3>5, <3>6 DEF ClientModify
  <2>9. ASSUME NEW w \in Workers, NEW p \in Paths, ClientDelete(w, p)
        PROVE  TypeOK'
    <3>1. IsTree(disk')
      BY ZenonT(30), <2>9, TreeRemoveTree DEF ClientDelete
    <3>2. IsEngine(engine')
      BY <2>9, DeleteFields DEF ClientDelete
    <3>3. AreWalks(walk')
      BY ZenonT(30), <2>9, <3>1, WalkStarts DEF ClientDelete
    <3> QED BY <2>9, <3>1, <3>2, <3>3 DEF ClientDelete
  <2>10. ASSUME NEW w \in Workers, SyncDone(w) PROVE TypeOK'
    <3>1. save' \in [Savers -> Saves]
      BY <2>10, UnlinkedSaves DEF SyncDone
    <3> QED BY <2>10, <1>0, <3>1, ClearFields DEF SyncDone
  <2>11. ASSUME NEW g \in Savers, SaveCopy(g), status' \in {"up", "stopping"}
         PROVE  TypeOK'
    <3>1. save' \in [Savers -> Saves]
      BY <2>11, LinesToSave DEF SaveCopy, Saves
    <3> QED BY <2>11, <3>1 DEF SaveCopy
  <2>12. ASSUME NEW w \in Workers, WorkerSave(w) PROVE TypeOK'
    BY <2>12, <2>11 DEF WorkerSave, Free, Alive, Savers
  <2>13. CASE Terminate
    BY <2>13, <2>11 DEF Terminate, Savers
  <2>14. ASSUME NEW g \in Savers, SaveOpen(g) PROVE TypeOK'
    <3>1. save' \in [Savers -> Saves]
      <4>1. NoSave \in Saves /\ [save[g] EXCEPT !.at = "open"] \in Saves
        BY <1>0 DEF NoSave, Saves
      <4> QED BY <2>14, <4>1, UnlinkedSaves DEF SaveOpen
    <3> QED BY <2>14, <1>0, <3>1 DEF SaveOpen
  <2>15. ASSUME NEW g \in Savers, NEW f \in TombstoneFiles, Lands(g, f)
         PROVE  file' \in TombstoneFiles
    BY <2>15 DEF Lands, TombstoneFiles
  <2>16. ASSUME NEW g \in Savers, SaveLine(g) PROVE TypeOK'
    <3> DEFINE left == save[g].left
    <3>0. left \in TombstoneFiles
      BY DEF Saves
    <3>1. ASSUME NEW p \in left.D,
                 save' = [save EXCEPT ![g].left.D = @ \ {p}],
                 Lands(g, [file EXCEPT !.D = @ \cup {p}])
          PROVE  file' \in TombstoneFiles /\ save' \in [Savers -> Saves]
      <4>1. [file EXCEPT !.D = @ \cup {p}] \in TombstoneFiles
        BY <3>0 DEF TombstoneFiles
      <4>2. save' \in [Savers -> Saves]
        BY <3>1, <3>0 DEF Saves, TombstoneFiles
      <4> QED BY <3>1, <4>1, <4>2, <2>15
    <3>2. ASSUME NEW p \in left.K,
                 save' = [save EXCEPT ![g].left.K = @ \ {p}],
                 Lands(g, [file EXCEPT !.K = @ \cup {p}])
          PROVE  file' \in TombstoneFiles /\ save' \in [Savers -> Saves]
      <4>1. [file EXCEPT !.K = @ \cup {p}] \in TombstoneFiles
        BY <3>0 DEF TombstoneFiles
      <4>2. save' \in [Savers -> Saves]
        BY <3>2, <3>0 DEF Saves, TombstoneFiles
      <4> QED BY <3>2, <4>1, <4>2, <2>15
    <3>3. file' \in TombstoneFiles /\ save' \in [Savers -> Saves]
      BY ZenonT(30), <2>16, <3>1, <3>2 DEF SaveLine
    <3> QED BY <2>16, <3>3 DEF SaveLine
  <2>17. ASSUME NEW g \in Savers, SaveDone(g) PROVE TypeOK'
    <3>1. owed' \in SUBSET Paths
      BY <2>17 DEF SaveDone, TombstoneFiles
    <3> QED BY <2>17, <1>0, <3>1 DEF SaveDone
  <2>18. CASE Start
    <3>1. IsEngine(engine')
      BY <2>18, NewEngineFields, CommitScanFields DEF Start
    <3> QED BY <2>18, <1>0, <3>1, NoWalks DEF Start, FreshGoroutines
  <2>19. CASE Die
    BY <2>19, <1>0, NoWalks DEF Die, FreshGoroutines
  <2>20. CASE UNCHANGED vars
    BY <2>20 DEF vars
  <2> QED
    BY ZenonT(30), <2>1, <2>2, <2>3, <2>4, <2>5, <2>6, <2>7, <2>8, <2>9, <2>10, <2>12,
       <2>13, <2>14, <2>16, <2>17, <2>18, <2>19, <2>20
       DEF Next, Scan, Handler, Saving, Exit, Crash
<1> QED BY <1>1, <1>2, PTL DEF Spec

-----------------------------------------------------------------------------
(* What a step may do to the engine.                                       *)

\* The ways a step can change what the engine knows: not at all, a scan, a
\* client's tree, a client's file created or deleted, a completed sync, or a
\* start of the process.
LEMMA EngineStep ==
  ASSUME TypeOK, [Next]_vars
  PROVE  \/ engine' = engine
         \/ \E t : IsTree(t) /\ engine' = CommitScan(engine, t)
         \/ \E t : /\ IsTree(t)
                  /\ engine' = AddToPreviousPaths(SetRemoteTree(engine, t), DOMAIN t)
         \/ \E p \in Paths, e \in Entries :
              /\ engine' = RemoteSet(ClearTombstone(engine, p), p, e)
              /\ disk' = TreeSet(disk, p, e)
         \/ \E p \in Paths, e \in Entries : engine' = RemoteSet(engine, p, e)
         \/ \E p \in Paths :
              engine' = AddTombstone(LocalRemove(RemoteRemove(engine, p), p), p)
         \/ (\E w \in Workers : SyncDone(w)) /\ engine' = ClearTombstones(engine)
         \/ ~Alive /\ engine' = CommitScan(NewEngine(file), disk)
<1>1. ASSUME NEW w \in Workers, ScanCommit(w)
      PROVE  \E t : IsTree(t) /\ engine' = CommitScan(engine, t)
  BY <1>1 DEF TypeOK, AreWalks, ScanCommit
<1>2. ASSUME NEW w \in Workers, Scan(w), ~ScanCommit(w) PROVE engine' = engine
  BY <1>2 DEF Scan, ScanWalk, ScanFails
<1>3. ASSUME NEW w \in Workers, NEW t \in ClientTrees, ReceiveTree(w, t)
      PROVE  \E u : /\ IsTree(u)
                    /\ engine' = AddToPreviousPaths(SetRemoteTree(engine, u), DOMAIN u)
  BY <1>3, EngineAssumption DEF ReceiveTree
<1>4. ASSUME NEW w \in Workers, NEW p \in Paths, NEW e \in Files, ClientCreate(w, p, e)
      PROVE  /\ e \in Entries
             /\ engine' = RemoteSet(ClearTombstone(engine, p), p, e)
             /\ disk' = TreeSet(disk, p, e)
  BY <1>4, EngineAssumption DEF ClientCreate
<1>5. ASSUME NEW w \in Workers, NEW p \in Paths, NEW e \in Files, ClientModify(w, p, e)
      PROVE  e \in Entries /\ engine' = RemoteSet(engine, p, e)
  BY <1>5, EngineAssumption DEF ClientModify
<1>6. ASSUME NEW w \in Workers, NEW p \in Paths, ClientDelete(w, p)
      PROVE  engine' = AddTombstone(LocalRemove(RemoteRemove(engine, p), p), p)
  BY <1>6 DEF ClientDelete
<1>7. ASSUME NEW w \in Workers, SyncDone(w) PROVE engine' = ClearTombstones(engine)
  BY <1>7 DEF SyncDone
<1>8. Start => ~Alive /\ engine' = CommitScan(NewEngine(file), disk)
  BY DEF Start, Alive
<1>9. ASSUME NEW g \in Savers, Saving(g) \/ SaveCopy(g) PROVE engine' = engine
  BY <1>9 DEF Saving, SaveOpen, SaveLine, SaveDone, SaveCopy
<1>10. ASSUME NEW p \in Paths, UserDelete(p) \/ \E e \in Files : UserWrite(p, e)
       PROVE  engine' = engine
  BY <1>10 DEF UserDelete, UserWrite
<1>11. (Exit \/ Crash \/ UNCHANGED vars) => engine' = engine
  BY DEF Exit, Crash, Die, vars
<1>12. \A w \in Workers : WorkerSave(w) => engine' = engine
  BY DEF WorkerSave, SaveCopy
<1>13. Terminate => engine' = engine
  BY DEF Terminate, SaveCopy
<1>14. ASSUME NEW w \in Workers, Handler(w)
       PROVE  \/ \E t \in ClientTrees : ReceiveTree(w, t)
              \/ \E p \in Paths, e \in Files : ClientCreate(w, p, e)
              \/ \E p \in Paths, e \in Files : ClientModify(w, p, e)
              \/ \E p \in Paths : ClientDelete(w, p)
              \/ SyncDone(w)
              \/ WorkerSave(w)
  BY <1>14 DEF Handler
<1>15. CASE \E w \in Workers : Scan(w)
  BY <1>15, <1>1, <1>2
<1>16. CASE \E w \in Workers \ Tickers : Handler(w)
  BY <1>16, <1>3, <1>4, <1>5, <1>6, <1>7, <1>12, <1>14
<1> QED BY <1>8, <1>9, <1>10, <1>11, <1>13, <1>15, <1>16 DEF Next

\* Every path of the tree the engine announces is one it will miss.
THEOREM LocalIsKnown == Spec => []LocalKnown
<1>1. Init => LocalKnown
  <2>1. NoFile \in TombstoneFiles
    BY SMTT(30) DEF NoFile, TombstoneFiles
  <2> QED BY ZenonT(30), <2>1, NewEngineFields, EmptyTreeTree DEF Init, LocalKnown
<1>2. TypeOK /\ LocalKnown /\ [Next]_vars => LocalKnown'
  <2> SUFFICES ASSUME TypeOK, LocalKnown, [Next]_vars PROVE LocalKnown'
    OBVIOUS
  <2>0. IsEngine(engine) /\ IsTree(disk) /\ file \in TombstoneFiles
    BY DEF TypeOK
  <2> USE <2>0 DEF LocalKnown
  <2>1. CASE engine' = engine
    BY <2>1
  <2>2. ASSUME NEW t, IsTree(t), engine' = CommitScan(engine, t) PROVE LocalKnown'
    BY <2>2, CommitScanFields
  <2>3. ASSUME NEW t, IsTree(t),
               engine' = AddToPreviousPaths(SetRemoteTree(engine, t), DOMAIN t)
        PROVE  LocalKnown'
    BY <2>3, ReceiveFields
  <2>4. ASSUME NEW p \in Paths, NEW e \in Entries,
               engine' = RemoteSet(ClearTombstone(engine, p), p, e)
        PROVE  LocalKnown'
    BY <2>4, CreateFields
  <2>5. ASSUME NEW p \in Paths, NEW e \in Entries, engine' = RemoteSet(engine, p, e)
        PROVE  LocalKnown'
    BY <2>5, RemoteSetFields
  <2>6. ASSUME NEW p \in Paths,
               engine' = AddTombstone(LocalRemove(RemoteRemove(engine, p), p), p)
        PROVE  LocalKnown'
    <3>1. IsTree(engine.local)
      BY DEF IsEngine
    <3>2. DOMAIN engine'.local = DOMAIN engine.local \ {p} /\ engine'.prev = engine.prev
      <4>1. DOMAIN TreeRemove(engine.local, p) = DOMAIN engine.local \ {p}
        BY <3>1, TreeRemoveTree
      <4>2. engine'.local = TreeRemove(engine.local, p) /\ engine'.prev = engine.prev
        BY <2>6, DeleteFields
      <4> QED BY <4>1, <4>2
    <3> QED BY <3>2
  <2>7. CASE engine' = ClearTombstones(engine)
    BY <2>7, ClearFields
  <2>8. CASE engine' = CommitScan(NewEngine(file), disk)
    BY <2>8, NewEngineFields, CommitScanFields
  <2> QED BY <2>1, <2>2, <2>3, <2>4, <2>5, <2>6, <2>7, <2>8, EngineStep
<1> QED BY <1>1, <1>2, TypeCorrect, PTL DEF Spec

\* While the process runs, only a completed sync or a file put back by a
\* client makes the engine forget a path.
THEOREM NothingForgotten == Spec => NeverForgets
<1> DEFINE Kept == Alive => \A p \in Known \ Known' :
                              p \in DOMAIN disk' \/ \E w \in Workers : SyncDone(w)
<1>1. TypeOK /\ [Next]_vars => [Kept]_vars
  <2> SUFFICES ASSUME TypeOK, [Next]_vars, Alive PROVE Kept
    OBVIOUS
  <2>0. IsEngine(engine) /\ IsTree(disk)
    BY DEF TypeOK
  <2> USE <2>0 DEF Known
  <2>1. CASE engine' = engine
    BY <2>1
  <2>2. ASSUME NEW t, IsTree(t), engine' = CommitScan(engine, t) PROVE Kept
    BY <2>2, CommitScanFields
  <2>3. ASSUME NEW t, IsTree(t),
               engine' = AddToPreviousPaths(SetRemoteTree(engine, t), DOMAIN t)
        PROVE  Kept
    BY <2>3, ReceiveFields
  <2>4. ASSUME NEW p \in Paths, NEW e \in Entries,
               engine' = RemoteSet(ClearTombstone(engine, p), p, e),
               disk' = TreeSet(disk, p, e)
        PROVE  Kept
    <3>1. DOMAIN TreeSet(disk, p, e) = DOMAIN disk \cup {p}
      BY ZenonT(30), TreeSetTree
    <3>2. p \in DOMAIN disk'
      BY <2>4, <3>1
    <3> QED BY <2>4, <3>2, CreateFields
  <2>5. ASSUME NEW p \in Paths, NEW e \in Entries, engine' = RemoteSet(engine, p, e)
        PROVE  Kept
    BY <2>5, RemoteSetFields
  <2>6. ASSUME NEW p \in Paths,
               engine' = AddTombstone(LocalRemove(RemoteRemove(engine, p), p), p)
        PROVE  Kept
    BY <2>6, DeleteFields
  <2>7. CASE \E w \in Workers : SyncDone(w)
    BY SMTT(30), <2>7
  <2> QED BY ZenonT(30), <2>1, <2>2, <2>3, <2>4, <2>5, <2>6, <2>7, EngineStep
<1> QED BY <1>1, TypeCorrect, PTL DEF Spec, NeverForgets

-----------------------------------------------------------------------------
(* One goroutine that scans.                                               *)

\* A path in the directory or already deleted stays so, whatever happens.
LEMMA EvidenceStays ==
  ASSUME TypeOK, [Next]_vars
  PROVE  /\ deleted \subseteq deleted'
         /\ DOMAIN disk \cup deleted \subseteq DOMAIN disk' \cup deleted'
<1>0. IsTree(disk)
  BY DEF TypeOK
<1>1. ASSUME NEW p \in Paths, NEW e \in Entries,
             disk' = TreeSet(disk, p, e), UNCHANGED deleted
      PROVE  DOMAIN disk \cup deleted \subseteq DOMAIN disk' \cup deleted'
  <2>1. DOMAIN TreeSet(disk, p, e) = DOMAIN disk \cup {p}
    BY ZenonT(30), <1>0, TreeSetTree
  <2> QED BY <1>1, <2>1
<1>2. ASSUME NEW p \in Paths, disk' = TreeRemove(disk, p), deleted' = deleted \cup {p}
      PROVE  DOMAIN disk \cup deleted \subseteq DOMAIN disk' \cup deleted'
  <2>1. DOMAIN TreeRemove(disk, p) = DOMAIN disk \ {p}
    BY <1>0, TreeRemoveTree
  <2> QED BY <1>2, <2>1
<1>3. ASSUME NEW p \in Paths, NEW e \in Files, UserWrite(p, e)
      PROVE  disk' = TreeSet(disk, p, e) /\ e \in Entries /\ UNCHANGED deleted
  BY <1>3, EngineAssumption DEF UserWrite
<1>4. ASSUME NEW w \in Workers, NEW p \in Paths, NEW e \in Files, ClientCreate(w, p, e)
      PROVE  disk' = TreeSet(disk, p, e) /\ e \in Entries /\ UNCHANGED deleted
  BY <1>4, EngineAssumption DEF ClientCreate
<1>5. ASSUME NEW w \in Workers, NEW p \in Paths, NEW e \in Files, ClientModify(w, p, e)
      PROVE  \E x \in Entries : disk' = TreeSet(disk, p, x) /\ UNCHANGED deleted
  <2>1. e \in Entries /\ disk[p] \in Entries
    BY <1>0, <1>5, EngineAssumption DEF ClientModify, IsTree
  <2>2. [disk[p] EXCEPT !.mtime = e.mtime, !.mode = e.mode] \in Entries
    BY ZenonT(30), <2>1 DEF Entries
  <2> QED BY <1>5, <2>2 DEF ClientModify
<1>6. ASSUME NEW w \in Workers, NEW p \in Paths, ClientDelete(w, p)
      PROVE  disk' = TreeRemove(disk, p) /\ deleted' = deleted \cup {p}
  BY <1>6 DEF ClientDelete
<1>7. ASSUME NEW p \in Paths, UserDelete(p)
      PROVE  disk' = TreeRemove(disk, p) /\ deleted' = deleted \cup {p}
  BY <1>7 DEF UserDelete
<1>8. ASSUME NEW w \in Workers, Scan(w) PROVE UNCHANGED <<disk, deleted>>
  BY <1>8 DEF Scan, ScanWalk, ScanCommit, ScanFails
<1>9. ASSUME NEW w \in Workers,
             SyncDone(w) \/ WorkerSave(w) \/ \E t \in ClientTrees : ReceiveTree(w, t)
      PROVE  UNCHANGED <<disk, deleted>>
  BY <1>9 DEF SyncDone, WorkerSave, SaveCopy, ReceiveTree
<1>10. ASSUME NEW g \in Savers, Saving(g) PROVE UNCHANGED <<disk, deleted>>
  BY <1>10 DEF Saving, SaveOpen, SaveLine, SaveDone
<1>11. Start \/ Terminate \/ Exit \/ Crash \/ UNCHANGED vars => UNCHANGED <<disk, deleted>>
  BY DEF Start, Terminate, SaveCopy, Exit, Crash, Die, vars
<1>12. CASE \E w \in Workers \ Tickers : Handler(w)
  BY <1>12, <1>1, <1>2, <1>4, <1>5, <1>6, <1>9 DEF Handler
<1>13. CASE \E p \in Paths : UserDelete(p) \/ \E e \in Files : UserWrite(p, e)
  BY <1>13, <1>1, <1>2, <1>3, <1>7
<1> QED BY <1>8, <1>10, <1>11, <1>12, <1>13 DEF Next

\* With one goroutine that scans, no client trees and no blanks at the ends of
\* names, ScanLocal, ClientDelete, crashes and restarts never tombstone a path
\* that was not deleted.
THEOREM OneScannerSound ==
  ASSUME NEW only, Workers = {only}, ClientTrees = {}, \A p \in Paths : Trimmed[p] = p
  PROVE  Spec => []TombstonesWereDeleted
<1>0. \A s \in SUBSET Paths : LoadedPaths(s) = s
  BY DEF LoadedPaths
<1>a. NoFile \in TombstoneFiles /\ NoFile.D = {} /\ NoFile.K = {}
  BY DEF NoFile, TombstoneFiles
<1>b. NoSave.left = NoFile /\ NoWalk.walking = FALSE
  BY DEF NoSave, NoWalk
<1>1. Init => DeletionEvidence
  <2> SUFFICES ASSUME Init PROVE DeletionEvidence
    OBVIOUS
  <2>1. engine.tomb = {} /\ engine.prev = {}
    BY SMTT(30), <1>0, <1>a, NewEngineFields DEF Init
  <2> QED BY <1>a, <1>b, <2>1 DEF Init, DeletionEvidence
<1>2. TypeOK /\ DeletionEvidence /\ [Next]_vars => DeletionEvidence'
  <2> SUFFICES ASSUME TypeOK, DeletionEvidence, [Next]_vars PROVE DeletionEvidence'
    OBVIOUS
  <2> DEFINE there == DOMAIN disk \cup deleted
  <2>0. /\ deleted \subseteq deleted' /\ there \subseteq there'
        /\ IsEngine(engine) /\ IsTree(disk) /\ file \in TombstoneFiles
    BY EvidenceStays DEF TypeOK
  \* The parts of the invariant for the engine, the file, the saves, the walk.
  <2> DEFINE EngineEv == engine.tomb \subseteq deleted /\ engine.prev \subseteq there
             FileEv == file.D \subseteq deleted /\ file.K \subseteq there
             SaveEv == \A g \in Savers : /\ save[g].left.D \subseteq deleted
                                         /\ save[g].left.K \subseteq there
             WalkEv == \A w \in Workers : walk[w].walking =>
                         /\ DOMAIN walk[w].tree \subseteq there
                         /\ engine.prev \ DOMAIN walk[w].tree \subseteq deleted
  <2>b. EngineEv /\ FileEv /\ SaveEv /\ WalkEv
    BY DEF DeletionEvidence
  <2>c. SUFFICES EngineEv' /\ FileEv' /\ SaveEv' /\ WalkEv'
    BY DEF DeletionEvidence
  <2>e. UNCHANGED engine => EngineEv'
    BY <2>0, <2>b
  <2>f. UNCHANGED file => FileEv'
    BY <2>0, <2>b
  <2>s. UNCHANGED save => SaveEv'
    BY <2>0, <2>b
  <2>w. UNCHANGED walk /\ engine'.prev = engine.prev => WalkEv'
    BY <2>0, <2>b
  \* The single worker begins a walk, or ends it.
  <2>x. ASSUME NEW w \in Workers, NEW d, walk' = [walk EXCEPT ![w] = Walk(d)],
               d = disk', engine'.prev \subseteq there'
        PROVE  WalkEv'
    <3>1. walk'[w] = Walk(d)
      BY <2>x DEF TypeOK, AreWalks
    <3> QED BY <2>x, <3>1 DEF Walk
  <2>y. ASSUME NEW w \in Workers, walk' = [walk EXCEPT ![w] = NoWalk]
        PROVE  WalkEv'
    <3>1. walk'[w] = NoWalk
      BY SMTT(30), <2>y DEF TypeOK, AreWalks
    <3> QED BY <1>b, <3>1
  <2> HIDE DEF EngineEv, FileEv, SaveEv, WalkEv
  <2>1. ASSUME NEW p \in Paths, UserDelete(p) \/ \E e \in Files : UserWrite(p, e)
        PROVE  EngineEv' /\ FileEv' /\ SaveEv' /\ WalkEv'
    BY ZenonT(30), <2>1, <2>e, <2>f, <2>s, <2>w DEF UserDelete, UserWrite
  <2>2. ASSUME NEW w \in Workers, ScanWalk(w)
        PROVE  EngineEv' /\ FileEv' /\ SaveEv' /\ WalkEv'
    <3>1. EngineEv'
      BY <2>2, <2>e DEF ScanWalk
    <3>2. walk' = [walk EXCEPT ![w] = Walk(disk)] /\ disk = disk'
      BY <2>2 DEF ScanWalk
    <3>3. WalkEv'
      BY ZenonT(30), <3>1, <3>2, <2>x DEF EngineEv
    <3> QED BY <2>2, <3>1, <3>3, <2>f, <2>s DEF ScanWalk
  <2>3. ASSUME NEW w \in Workers, ScanCommit(w)
        PROVE  EngineEv' /\ FileEv' /\ SaveEv' /\ WalkEv'
    <3>1. IsTree(walk[w].tree) /\ walk[w].walking
      BY <2>3 DEF TypeOK, AreWalks, ScanCommit
    <3>2. /\ engine'.tomb = engine.tomb \cup (engine.prev \ DOMAIN walk[w].tree)
          /\ engine'.prev = DOMAIN walk[w].tree
      BY SMTT(30), <2>3, <3>1, <2>0, CommitScanFields DEF ScanCommit
    <3>3. EngineEv'
      BY <3>1, <3>2, <2>0, <2>b DEF EngineEv, WalkEv
    <3> QED BY <2>3, <3>3, <2>f, <2>s, <2>y DEF ScanCommit
  <2>4. ASSUME NEW w \in Workers, ScanFails(w)
        PROVE  EngineEv' /\ FileEv' /\ SaveEv' /\ WalkEv'
    BY <2>4, <2>e, <2>f, <2>s, <2>y DEF ScanFails
  <2>5. ASSUME NEW w \in Workers, NEW p \in Paths, NEW e \in Files, ClientCreate(w, p, e)
        PROVE  EngineEv' /\ FileEv' /\ SaveEv' /\ WalkEv'
    <3>1. engine'.prev = engine.prev /\ engine'.tomb = engine.tomb \ {p}
      BY <2>5, <2>0, CreateFields, EngineAssumption, SMTT(60) DEF ClientCreate
    <3>2. EngineEv'
      BY <3>1, <2>0, <2>b DEF EngineEv
    <3>3. walk' = [walk EXCEPT ![w] = Walk(disk')] /\ UNCHANGED <<file, save>>
      BY <2>5 DEF ClientCreate
    <3> QED BY ZenonT(30), <3>2, <3>3, <2>f, <2>s, <2>x DEF EngineEv
  <2>6. ASSUME NEW w \in Workers, NEW p \in Paths, NEW e \in Files, ClientModify(w, p, e)
        PROVE  EngineEv' /\ FileEv' /\ SaveEv' /\ WalkEv'
    <3>1. engine'.prev = engine.prev /\ engine'.tomb = engine.tomb
      BY <2>6, <2>0, RemoteSetFields, EngineAssumption DEF ClientModify
    <3>2. EngineEv'
      BY <3>1, <2>0, <2>b DEF EngineEv
    <3>3. walk' = [walk EXCEPT ![w] = Walk(disk')] /\ UNCHANGED <<file, save>>
      BY <2>6 DEF ClientModify
    <3> QED BY ZenonT(30), <3>2, <3>3, <2>f, <2>s, <2>x DEF EngineEv
  <2>7. ASSUME NEW w \in Workers, NEW p \in Paths, ClientDelete(w, p)
        PROVE  EngineEv' /\ FileEv' /\ SaveEv' /\ WalkEv'
    <3>1. engine'.prev = engine.prev /\ engine'.tomb = engine.tomb \cup {p}
      BY ZenonT(30), <2>7, <2>0, DeleteFields DEF ClientDelete
    <3>2. p \in deleted'
      BY ZenonT(30), <2>7 DEF ClientDelete
    <3>3. EngineEv'
      BY <3>1, <3>2, <2>0, <2>b DEF EngineEv
    <3>4. walk' = [walk EXCEPT ![w] = Walk(disk')] /\ UNCHANGED <<file, save>>
      BY <2>7 DEF ClientDelete
    <3> QED BY ZenonT(30), <3>3, <3>4, <2>f, <2>s, <2>x DEF EngineEv
  <2>8. ASSUME NEW w \in Workers, SyncDone(w)
        PROVE  EngineEv' /\ FileEv' /\ SaveEv' /\ WalkEv'
    <3>1. engine'.prev = engine.prev /\ engine'.tomb = {}
      BY <2>8, <2>0, ClearFields DEF SyncDone
    <3>2. EngineEv' /\ FileEv'
      BY <2>8, <3>1, <2>0, <2>b, <1>a DEF EngineEv, FileEv, SyncDone
    <3>3. \A g \in Savers : save'[g].left = save[g].left
      BY <2>8, UnlinkedSaves DEF SyncDone, TypeOK
    <3>4. SaveEv'
      BY <3>3, <2>0, <2>b DEF SaveEv
    <3> QED BY <2>8, <3>1, <3>2, <3>4, <2>w DEF SyncDone
  <2>9. ASSUME NEW g \in Savers, SaveCopy(g)
        PROVE  EngineEv' /\ FileEv' /\ SaveEv' /\ WalkEv'
    <3>1. \A h \in Savers : save'[h].left = IF h = g THEN [D |-> engine.tomb, K |-> engine.prev]
                                                   ELSE save[h].left
      BY <2>9 DEF SaveCopy, TypeOK, Saves, TombstoneLines
    <3>2. SaveEv'
      BY <3>1, <2>0, <2>b DEF SaveEv, EngineEv
    <3> QED BY SMTT(30), <2>9, <3>2, <2>e, <2>f, <2>w DEF SaveCopy
  <2>10. ASSUME NEW g \in Savers, SaveOpen(g)
         PROVE  EngineEv' /\ FileEv' /\ SaveEv' /\ WalkEv'
    <3>1. \A h \in Savers : save'[h].left = save[h].left
      <4>1. CASE save[g].left = NoFile
        <5>1. save' = [Unlinked EXCEPT ![g] = NoSave]
          BY <2>10, <4>1 DEF SaveOpen
        <5> QED BY <5>1, <4>1, UnlinkedSaves DEF TypeOK, NoSave
      <4>2. CASE save[g].left # NoFile
        BY <2>10, <4>2 DEF SaveOpen, TypeOK, Saves
      <4> QED BY <4>1, <4>2
    <3>2. SaveEv' /\ FileEv'
      BY <2>10, <3>1, <2>0, <2>b, <1>a DEF SaveEv, FileEv, SaveOpen
    <3> QED BY <2>10, <3>2, <2>e, <2>w DEF SaveOpen
  <2>11. ASSUME NEW g \in Savers, SaveLine(g)
         PROVE  EngineEv' /\ FileEv' /\ SaveEv' /\ WalkEv'
    <3>0. save[g].left \in TombstoneFiles
      BY DEF TypeOK, Saves
    <3>1. ASSUME NEW f \in TombstoneFiles, Lands(g, f),
                 f.D \subseteq deleted', f.K \subseteq there'
          PROVE  FileEv'
      BY <3>1, <2>0, <2>b DEF FileEv, Lands
    <3>2. CASE \E p \in save[g].left.D :
                 /\ save' = [save EXCEPT ![g].left.D = @ \ {p}]
                 /\ Lands(g, [file EXCEPT !.D = @ \cup {p}])
      <4>1. PICK p \in save[g].left.D :
                 /\ save' = [save EXCEPT ![g].left.D = @ \ {p}]
                 /\ Lands(g, [file EXCEPT !.D = @ \cup {p}])
        BY ZenonT(30), <3>2
      <4>2. \A h \in Savers : /\ save'[h].left.D \subseteq save[h].left.D
                              /\ save'[h].left.K = save[h].left.K
        BY <4>1, <3>0 DEF TypeOK, Saves, TombstoneFiles
      <4>3. [file EXCEPT !.D = @ \cup {p}] = [D |-> file.D \cup {p}, K |-> file.K]
        BY SMTT(30), <2>0 DEF TombstoneFiles
      <4>4. [D |-> file.D \cup {p}, K |-> file.K] \in TombstoneFiles
        BY <2>0, <3>0 DEF TombstoneFiles
      <4>5. FileEv'
        BY SMTT(30), <4>1, <4>3, <4>4, <3>1, <2>0, <2>b DEF FileEv, SaveEv
      <4> QED BY <2>11, <4>2, <4>5, <2>0, <2>b, <2>e, <2>w DEF SaveEv, SaveLine
    <3>3. CASE \E p \in save[g].left.K :
                 /\ save' = [save EXCEPT ![g].left.K = @ \ {p}]
                 /\ Lands(g, [file EXCEPT !.K = @ \cup {p}])
      <4>1. PICK p \in save[g].left.K :
                 /\ save' = [save EXCEPT ![g].left.K = @ \ {p}]
                 /\ Lands(g, [file EXCEPT !.K = @ \cup {p}])
        BY ZenonT(30), <3>3
      <4>2. \A h \in Savers : /\ save'[h].left.K \subseteq save[h].left.K
                              /\ save'[h].left.D = save[h].left.D
        BY <4>1, <3>0 DEF TypeOK, Saves, TombstoneFiles
      <4>3. [file EXCEPT !.K = @ \cup {p}] = [D |-> file.D, K |-> file.K \cup {p}]
        BY <2>0 DEF TombstoneFiles
      <4>4. [D |-> file.D, K |-> file.K \cup {p}] \in TombstoneFiles
        BY <2>0, <3>0 DEF TombstoneFiles
      <4>5. FileEv'
        BY <4>1, <4>3, <4>4, <3>1, <2>0, <2>b DEF FileEv, SaveEv
      <4> QED BY <2>11, <4>2, <4>5, <2>0, <2>b, <2>e, <2>w DEF SaveEv, SaveLine
    <3> QED BY ZenonT(30), <2>11, <3>2, <3>3 DEF SaveLine
  <2>12. ASSUME NEW g \in Savers, SaveDone(g)
         PROVE  EngineEv' /\ FileEv' /\ SaveEv' /\ WalkEv'
    <3>1. \A h \in Savers : save'[h].left = save[h].left
      BY <2>12, <1>b DEF SaveDone, TypeOK, Saves
    <3>2. SaveEv'
      BY <3>1, <2>0, <2>b DEF SaveEv
    <3> QED BY <2>12, <3>2, <2>e, <2>f, <2>w DEF SaveDone
  <2>z. FreshGoroutines => SaveEv' /\ WalkEv'
    BY <1>a, <1>b DEF SaveEv, WalkEv, FreshGoroutines
  <2>13. CASE Start
    <3>1. file.D \in SUBSET Paths /\ file.K \in SUBSET Paths
      BY <2>0 DEF TombstoneFiles
    <3>2. /\ engine'.tomb = file.D \cup ((file.D \cup file.K) \ DOMAIN disk)
          /\ engine'.prev = DOMAIN disk /\ disk' = disk
      BY SMTT(30), <2>13, <3>1, <2>0, <1>0, NewEngineFields, CommitScanFields DEF Start
    <3>3. EngineEv'
      BY <3>2, <2>0, <2>b DEF EngineEv, FileEv
    <3>4. FileEv'
      BY <2>13, <2>f DEF Start
    <3> QED BY <2>13, <3>3, <3>4, <2>z DEF Start
  <2>14. CASE Die
    BY <2>14, <2>z, <2>e, <2>f DEF Die
  <2>15. CASE UNCHANGED vars
    BY SMTT(30), <2>15, <2>e, <2>f, <2>s, <2>w DEF vars
  <2>16. ASSUME NEW w \in Workers, Handler(w)
         PROVE  EngineEv' /\ FileEv' /\ SaveEv' /\ WalkEv'
    BY <2>16, <2>5, <2>6, <2>7, <2>8, <2>9 DEF Handler, WorkerSave, Savers
  <2> QED
    BY ZenonT(30), <2>1, <2>2, <2>3, <2>4, <2>9, <2>10, <2>11, <2>12, <2>13, <2>14, <2>15, <2>16
       DEF Next, Scan, Saving, Terminate, Exit, Crash, Savers
<1>3. DeletionEvidence => TombstonesWereDeleted
  BY DEF DeletionEvidence, TombstonesWereDeleted
<1> QED BY <1>1, <1>2, <1>3, TypeCorrect, PTL DEF Spec

=============================================================================
