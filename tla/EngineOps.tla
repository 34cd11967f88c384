----------------------------- MODULE EngineOps ------------------------------
(***************************************************************************)
(* The methods of sync.Engine (sync/engine.go) as operators on the         *)
(* engine's state: the two trees, the tombstones and the previously known  *)
(* paths, and the two sets of lines of the tombstone file.                 *)
(***************************************************************************)
EXTENDS FileTree

CONSTANT
  Trimmed    \* Trimmed[p]: what strings.TrimSpace leaves of the line of p

IsEngine(e) ==
  /\ e = [local |-> e.local, remote |-> e.remote, tomb |-> e.tomb, prev |-> e.prev]
  /\ IsTree(e.local) /\ IsTree(e.remote)
  /\ e.tomb \in SUBSET Paths /\ e.prev \in SUBSET Paths

\* The lines of .sync-tombstones: "D:" deleted, "K:" known.  An absent file
\* and an empty one read alike.
TombstoneFiles == [D : SUBSET Paths, K : SUBSET Paths]

NoFile == [D |-> {}, K |-> {}]

LoadedPaths(lines) == {Trimmed[p] : p \in lines}

NewEngine(file) ==
  [local  |-> EmptyTree,
   remote |-> EmptyTree,
   tomb   |-> LoadedPaths(file.D),
   prev   |-> LoadedPaths(file.D) \cup LoadedPaths(file.K)]

\* Mutant: the known paths are not updated.
CommitScanKeepsKnown(e, tree) ==
  [local  |-> tree,
   remote |-> e.remote,
   tomb   |-> e.tomb \cup (e.prev \ DOMAIN tree),
   prev   |-> e.prev]

\* Mutant: the tombstones are replaced instead of extended.
CommitScanReplaces(e, tree) ==
  [local  |-> tree,
   remote |-> e.remote,
   tomb   |-> e.prev \ DOMAIN tree,
   prev   |-> DOMAIN tree]

\* Mutant: the difference is taken the wrong way round.
CommitScanSwapped(e, tree) ==
  [local  |-> tree,
   remote |-> e.remote,
   tomb   |-> e.tomb \cup (DOMAIN tree \ e.prev),
   prev   |-> DOMAIN tree]

\* Mutant: the tree is replaced only when paths appear or disappear.
CommitScanSamePaths(e, tree) ==
  [local  |-> IF DOMAIN tree = e.prev THEN e.local ELSE tree,
   remote |-> e.remote,
   tomb   |-> e.tomb \cup (e.prev \ DOMAIN tree),
   prev   |-> DOMAIN tree]

\* The locked part of ScanLocal: tree is what WalkDirectory returned.
CommitScan(e, tree) ==
  [local  |-> tree,
   remote |-> e.remote,
   tomb   |-> e.tomb \cup (e.prev \ DOMAIN tree),
   prev   |-> DOMAIN tree]

SetRemoteTree(e, tree) == [e EXCEPT !.remote = tree]

RemoteSet(e, p, entry) == [e EXCEPT !.remote = TreeSet(@, p, entry)]

RemoteRemove(e, p) == [e EXCEPT !.remote = TreeRemove(@, p)]

LocalRemove(e, p) == [e EXCEPT !.local = TreeRemove(@, p)]

AddToPreviousPaths(e, ps) == [e EXCEPT !.prev = @ \cup ps]

AddTombstone(e, p) == [e EXCEPT !.tomb = @ \cup {p}]

ClearTombstone(e, p) == [e EXCEPT !.tomb = @ \ {p}]

\* The engine's part of ClearTombstones; callers also remove the file.
ClearTombstones(e) == [e EXCEPT !.tomb = {}]

\* Mutant: the known paths are not saved.
TombstoneLinesOnly(e) == [D |-> e.tomb, K |-> {}]

\* What SaveTombstones writes.
TombstoneLines(e) == [D |-> e.tomb, K |-> e.prev]

=============================================================================
