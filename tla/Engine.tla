------------------------------- MODULE Engine -------------------------------
(***************************************************************************)
(* One sync.Engine of a server process, used by several goroutines, over a *)
(* directory that users change at any time, with the tombstone file that   *)
(* carries its knowledge across restarts and crashes.                      *)
(*                                                                         *)
(* ScanLocal walks the directory before it takes the engine's lock, and    *)
(* SaveTombstones copies the sets before it writes the file line by line;  *)
(* both are split at these points.  What a session handler does to the     *)
(* directory and the engine up to the walk of its scan is one step.        *)
(***************************************************************************)
EXTENDS EngineOps, FiniteSets

CONSTANTS
  Workers,      \* goroutines that scan: session handlers, tickers, monitor
  Tickers,      \* the workers that only scan: monitorClientChanges
  Signal,       \* the goroutine that waits for SIGTERM
  Files,        \* the entries users and clients may store
  ClientTrees,  \* the trees clients may send in SYNC_INIT
  MaxEdits,     \* bound: changes to the directory
  MaxRuns       \* bound: starts of the process

ASSUME EngineAssumption ==
  /\ Tickers \subseteq Workers
  /\ Signal \notin Workers
  /\ Files \subseteq Entries
  /\ \A t \in ClientTrees : IsTree(t)
  /\ Trimmed \in [Paths -> Paths]
  /\ MaxEdits \in Nat
  /\ MaxRuns \in Nat

VARIABLES
  disk,     \* the directory, as WalkDirectory would report it now
  status,   \* "down", "up", or "stopping" once SIGTERM has arrived
  engine,   \* the in-memory state of the engine
  file,     \* the tombstone file
  walk,     \* walk[w]: the tree a goroutine has walked and not committed
  save,     \* save[g]: a goroutine's SaveTombstones in progress
  deleted,  \* history: paths that have been deleted from the directory
  owed,     \* history: deletions a finished save has put on disk and no
            \*   client has been told about
  edits,    \* changes made to the directory so far
  runs      \* starts of the process so far

vars == <<disk, status, engine, file, walk, save, deleted, owed, edits, runs>>

Savers == Workers \cup {Signal}

NoWalk == [walking |-> FALSE, tree |-> EmptyTree]
Walk(t) == [walking |-> TRUE, tree |-> t]

AreWalks(f) ==
  /\ f = [w \in Workers |-> [walking |-> f[w].walking, tree |-> f[w].tree]]
  /\ \A w \in Workers : f[w].walking \in BOOLEAN /\ IsTree(f[w].tree)

NoSave == [at |-> "idle", left |-> NoFile]

\* "copied": the sets are copied; "open": the file is created and truncated;
\* "orphan": the file was unlinked while open.  left: the lines to write.
Saves == [at : {"idle", "copied", "open", "orphan"}, left : TombstoneFiles]

TypeOK ==
  /\ IsTree(disk)
  /\ status \in {"down", "up", "stopping"}
  /\ IsEngine(engine)
  /\ file \in TombstoneFiles
  /\ AreWalks(walk)
  /\ save \in [Savers -> Saves]
  /\ deleted \in SUBSET Paths
  /\ owed \in SUBSET Paths
  /\ edits \in Nat
  /\ runs \in Nat

Init ==
  /\ \E D \in SUBSET Paths : disk \in [D -> Files]
  /\ status = "down"
  /\ engine = NewEngine(NoFile)
  /\ file = NoFile
  /\ walk = [w \in Workers |-> NoWalk]
  /\ save = [g \in Savers |-> NoSave]
  /\ deleted = {}
  /\ owed = {}
  /\ edits = 0
  /\ runs = 0

Alive == status # "down"

Edit == edits < MaxEdits /\ edits' = edits + 1

\* A goroutine that is in neither ScanLocal nor SaveTombstones.
Free(w) == Alive /\ ~walk[w].walking /\ save[w].at = "idle"

-----------------------------------------------------------------------------
(* The users of the directory.                                             *)

UserWrite(p, e) ==
  /\ Edit
  /\ disk' = TreeSet(disk, p, e)
  /\ UNCHANGED <<status, engine, file, walk, save, deleted, owed, runs>>

UserDelete(p) ==
  /\ Edit
  /\ p \in DOMAIN disk
  /\ disk' = TreeRemove(disk, p)
  /\ deleted' = deleted \cup {p}
  /\ UNCHANGED <<status, engine, file, walk, save, owed, runs>>

-----------------------------------------------------------------------------
(* ScanLocal.  The names of a directory are read at once; a path that has  *)
(* vanished when its turn to be read comes makes the whole scan fail.      *)

ScanWalk(w) ==
  /\ Free(w)
  /\ walk' = [walk EXCEPT ![w] = Walk(disk)]
  /\ UNCHANGED <<disk, status, engine, file, save, deleted, owed, edits, runs>>

ScanCommit(w) ==
  /\ Alive /\ walk[w].walking
  /\ engine' = CommitScan(engine, walk[w].tree)
  /\ walk' = [walk EXCEPT ![w] = NoWalk]
  /\ UNCHANGED <<disk, status, file, save, deleted, owed, edits, runs>>

ScanFails(w) ==
  /\ Alive /\ walk[w].walking
  /\ ~(DOMAIN walk[w].tree \subseteq DOMAIN disk)
  /\ walk' = [walk EXCEPT ![w] = NoWalk]
  /\ UNCHANGED <<disk, status, engine, file, save, deleted, owed, edits, runs>>

-----------------------------------------------------------------------------
(* What the session handlers do to the engine.  FILE_DATA only writes the  *)
(* directory, which for the engine is the same as a user's write.          *)

\* SYNC_INIT arrives: two calls, two locks, no scan of this goroutine between.
ReceiveTree(w, t) ==
  /\ Free(w)
  /\ engine' = AddToPreviousPaths(SetRemoteTree(engine, t), DOMAIN t)
  /\ UNCHANGED <<disk, status, file, walk, save, deleted, owed, edits, runs>>

\* FILE_CREATE: the file is written, its tombstone cleared, a scan begun.
ClientCreate(w, p, e) ==
  /\ Free(w)
  /\ Edit
  /\ disk' = TreeSet(disk, p, e)
  /\ engine' = RemoteSet(ClearTombstone(engine, p), p, e)
  /\ owed' = owed \ {p}
  /\ walk' = [walk EXCEPT ![w] = Walk(disk')]
  /\ UNCHANGED <<status, file, save, deleted, runs>>

\* FILE_MODIFY: the attributes of an existing file are set, a scan begun.
ClientModify(w, p, e) ==
  /\ Free(w)
  /\ p \in DOMAIN disk
  /\ Edit
  /\ disk' = TreeSet(disk, p, [disk[p] EXCEPT !.mtime = e.mtime, !.mode = e.mode])
  /\ engine' = RemoteSet(engine, p, e)
  /\ walk' = [walk EXCEPT ![w] = Walk(disk')]
  /\ UNCHANGED <<status, file, save, deleted, owed, runs>>

\* FILE_DELETE: the file is removed, the path tombstoned, a scan begun.
ClientDelete(w, p) ==
  /\ Free(w)
  /\ Edit
  /\ disk' = TreeRemove(disk, p)
  /\ engine' = AddTombstone(LocalRemove(RemoteRemove(engine, p), p), p)
  /\ deleted' = deleted \cup {p}
  /\ walk' = [walk EXCEPT ![w] = Walk(disk')]
  /\ UNCHANGED <<status, file, save, owed, runs>>

\* os.Remove of the tombstone file while some goroutines have it open.
Unlinked ==
  [g \in Savers |-> IF save[g].at = "open" THEN [save[g] EXCEPT !.at = "orphan"]
                    ELSE save[g]]

\* The end of an initial sync: ClearTombstones unlinks the file as well.
SyncDone(w) ==
  /\ Free(w)
  /\ engine' = ClearTombstones(engine)
  /\ file' = NoFile
  /\ owed' = {}
  /\ save' = Unlinked
  /\ UNCHANGED <<disk, status, walk, deleted, edits, runs>>

-----------------------------------------------------------------------------
(* SaveTombstones, by a goroutine g.                                       *)

SaveCopy(g) ==
  /\ save[g].at = "idle"
  /\ save' = [save EXCEPT ![g] = [at |-> "copied", left |-> TombstoneLines(engine)]]
  /\ UNCHANGED <<disk, engine, file, walk, deleted, owed, edits, runs>>

\* The monitor's handler saves after a deletion while no client is connected.
WorkerSave(w) == Free(w) /\ SaveCopy(w) /\ UNCHANGED status

\* SIGTERM.
Terminate ==
  /\ status = "up"
  /\ status' = "stopping"
  /\ SaveCopy(Signal)

\* With nothing to write the file is removed; otherwise it is truncated.
SaveOpen(g) ==
  /\ Alive /\ save[g].at = "copied"
  /\ file' = NoFile
  /\ save' = IF save[g].left = NoFile THEN [Unlinked EXCEPT ![g] = NoSave]
             ELSE [save EXCEPT ![g] = [@ EXCEPT !.at = "open"]]
  /\ UNCHANGED <<disk, status, engine, walk, deleted, owed, edits, runs>>

\* Two savers that have the file open write over each other.
Overlapped(g) == \E h \in Savers \ {g} : save[h].at = "open"

Lands(g, whole) ==
  CASE save[g].at = "orphan" -> file' = file
    [] Overlapped(g) -> \E D \in SUBSET whole.D, K \in SUBSET whole.K :
                          file' = [D |-> D, K |-> K]
    [] OTHER -> file' = whole

\* The tombstones are written first, then the known paths.
SaveLine(g) ==
  /\ Alive /\ save[g].at \in {"open", "orphan"}
  /\ \/ \E p \in save[g].left.D :
          /\ save' = [save EXCEPT ![g].left.D = @ \ {p}]
          /\ Lands(g, [file EXCEPT !.D = @ \cup {p}])
     \/ \E p \in save[g].left.K :
          /\ save[g].left.D = {}
          /\ save' = [save EXCEPT ![g].left.K = @ \ {p}]
          /\ Lands(g, [file EXCEPT !.K = @ \cup {p}])
  /\ UNCHANGED <<disk, status, engine, walk, deleted, owed, edits, runs>>

SaveDone(g) ==
  /\ Alive /\ save[g].at \in {"open", "orphan"}
  /\ save[g].left = NoFile
  /\ save' = [save EXCEPT ![g] = NoSave]
  /\ owed' = owed \cup (file.D \cap engine.tomb)
  /\ UNCHANGED <<disk, status, engine, file, walk, deleted, edits, runs>>

-----------------------------------------------------------------------------
(* The process.                                                            *)

\* Goroutines begin and end with the process.
FreshGoroutines ==
  /\ walk' = [w \in Workers |-> NoWalk]
  /\ save' = [g \in Savers |-> NoSave]

Start ==
  /\ status = "down" /\ runs < MaxRuns
  /\ status' = "up"
  /\ runs' = runs + 1
  /\ engine' = CommitScan(NewEngine(file), disk)
  /\ FreshGoroutines
  /\ UNCHANGED <<disk, file, deleted, owed, edits>>

Die ==
  /\ status' = "down"
  /\ FreshGoroutines
  /\ UNCHANGED <<disk, engine, file, deleted, owed, edits, runs>>

Exit == status = "stopping" /\ save[Signal].at = "idle" /\ Die

Crash == Alive /\ Die

-----------------------------------------------------------------------------
Scan(w) == ScanWalk(w) \/ ScanCommit(w) \/ ScanFails(w)

Handler(w) ==
  \/ \E t \in ClientTrees : ReceiveTree(w, t)
  \/ \E p \in Paths, e \in Files : ClientCreate(w, p, e) \/ ClientModify(w, p, e)
  \/ \E p \in Paths : ClientDelete(w, p)
  \/ SyncDone(w)
  \/ WorkerSave(w)

Saving(g) == SaveOpen(g) \/ SaveLine(g) \/ SaveDone(g)

Next ==
  \/ \E p \in Paths : UserDelete(p) \/ \E e \in Files : UserWrite(p, e)
  \/ \E w \in Workers : Scan(w)
  \/ \E w \in Workers \ Tickers : Handler(w)
  \/ \E g \in Savers : Saving(g)
  \/ Start \/ Terminate \/ Exit \/ Crash

Spec == Init /\ [][Next]_vars

\* A started scan ends, and a ticker goroutine (monitorClientChanges) starts
\* another one every five seconds as long as its client is connected.
Fairness ==
  /\ \A w \in Workers : WF_vars(ScanCommit(w) \/ ScanFails(w))
  /\ \A w \in Tickers : WF_vars(ScanWalk(w))

FairSpec == Spec /\ Fairness

-----------------------------------------------------------------------------
(* Properties.                                                             *)

Known == engine.prev \cup engine.tomb

\* Every path of the tree the engine announces is one whose disappearance the
\* next ScanLocal will notice, whatever scans and handlers interleave.
LocalKnown == DOMAIN engine.local \subseteq engine.prev

\* While the process runs, a path the engine knows, as present or as deleted,
\* leaves its memory only when a session clears the tombstones at the end of an
\* initial sync or when a client has just put the file back: no order of scan
\* commits, client messages and saves makes ScanLocal lose a deletion.
NeverForgets ==
  [][Alive => \A p \in Known \ Known' :
       p \in DOMAIN disk' \/ \E w \in Workers : SyncDone(w)]_vars

\* "tombstones tracks paths that were previously known and then deleted": no
\* path is tombstoned unless somebody deleted it from the directory.
TombstonesWereDeleted == engine.tomb \subseteq deleted

\* Why TombstonesWereDeleted holds with a single scanner: all that the engine
\* has ever known is in the directory or has been deleted, in its memory, in
\* the file, in a save and in a walk under way, and whatever that walk does not
\* contain has been deleted.
DeletionEvidence ==
  LET there == DOMAIN disk \cup deleted
  IN  /\ engine.tomb \subseteq deleted /\ engine.prev \subseteq there
      /\ file.D \subseteq deleted /\ file.K \subseteq there
      /\ \A g \in Savers : /\ save[g].left.D \subseteq deleted
                           /\ save[g].left.K \subseteq there
      /\ \A w \in Workers : walk[w].walking =>
           /\ DOMAIN walk[w].tree \subseteq there
           /\ engine.prev \ DOMAIN walk[w].tree \subseteq deleted

\* Deletions persisted to disk survive a restart: once a save has finished and
\* until a client has been told, the engine of any later run knows them.
PersistedDeletionsSurvive == Alive => owed \subseteq engine.tomb

\* Once the directory stops changing, the tree the engine announces becomes
\* and stays the directory's, in spite of walks that were under way.
TreeCatchesUp == <>[](Alive => engine.local = disk)

=============================================================================
