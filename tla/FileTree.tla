------------------------------ MODULE FileTree ------------------------------
(***************************************************************************)
(* File trees and their comparison: sync/state.go (FileTree), sync/diff.go *)
(* (Diff, DiffInitial, entryChanged, pickWinner) and buildSyncOps of the   *)
(* two commands.                                                           *)
(*                                                                         *)
(* A tree maps the paths it holds to their entries.  An entry keeps the    *)
(* fields of protocol.FileEntry that the comparison reads; UID, GID,       *)
(* ATime, Size and Seq are never compared and are left out.  Go iterates   *)
(* over maps in no fixed order, so a list of changes is a set here.        *)
(***************************************************************************)
EXTENDS Naturals

CONSTANTS
  Paths,     \* relative paths below the synchronised directory
  Hashes,    \* content hashes; SHA-256 is taken to be free of collisions
  Modes      \* permission bits

EntryTypes == {"file", "dir", "symlink", "other"}

Entries == [type : EntryTypes, mtime : Nat, hash : Hashes, mode : Modes]

IsTree(t) == DOMAIN t \in SUBSET Paths /\ t \in [DOMAIN t -> Entries]

-----------------------------------------------------------------------------
(* FileTree                                                                *)

EmptyTree == [p \in {} |-> p]

TreeSet(t, p, e) == [q \in DOMAIN t \cup {p} |-> IF q = p THEN e ELSE t[q]]

\* Mutant: the entry is overwritten instead of removed.
TreeRemoveKeepsKey(t, p) ==
  [q \in DOMAIN t |-> IF q = p THEN [t[q] EXCEPT !.type = "nil"] ELSE t[q]]

TreeRemove(t, p) == [q \in DOMAIN t \ {p} |-> t[q]]

-----------------------------------------------------------------------------
(* Diff                                                                    *)

\* Mutant: neither the time nor the content is compared.
entryChangedByMode(a, b) == a.type # b.type \/ a.mode # b.mode

entryChanged(a, b) ==
  \/ a.type # b.type
  \/ a.mtime # b.mtime
  \/ a.type = "file" /\ a.hash # b.hash
  \/ a.mode # b.mode

\* Last write wins; on a tie the remote entry does.
pickWinner(local, remote) ==
  IF remote.mtime >= local.mtime THEN remote ELSE local

Created(local, remote) ==
  {[type |-> "create", path |-> p, entry |-> local[p]] :
     p \in DOMAIN local \ DOMAIN remote}

Modified(local, remote) ==
  {[type |-> "modify", path |-> p, entry |-> pickWinner(local[p], remote[p])] :
     p \in {q \in DOMAIN local \cap DOMAIN remote :
              entryChanged(local[q], remote[q])}}

Deleted(ps) == {[type |-> "delete", path |-> p] : p \in ps}

\* Mutant: changes of files that both sides have are left out.
DiffInitialCreates(local, remote) == Created(local, remote)

DiffInitial(local, remote) == Created(local, remote) \cup Modified(local, remote)

Diff(local, remote) ==
  DiffInitial(local, remote) \cup Deleted(DOMAIN remote \ DOMAIN local)

-----------------------------------------------------------------------------
(* The operations that carry a change to the other side.                   *)

SyncOp(c) ==
  CASE c.type = "create" ->
         [type  |-> IF c.entry.type = "dir" THEN "createDir" ELSE "createFile",
          path  |-> c.path, entry |-> c.entry]
    [] c.type = "modify" ->
         [type |-> "setAttrs", path |-> c.path, entry |-> c.entry]
    [] c.type = "delete" -> [type |-> "delete", path |-> c.path]

buildSyncOps(changes) == {SyncOp(c) : c \in changes}

=============================================================================
