----------------------------- MODULE LocalDisk ------------------------------
(***************************************************************************)
(* A synchronised directory and the file operations of utils/fs.go and     *)
(* sync.Engine.applyOp on it, with the errors they return.                 *)
(*                                                                         *)
(* A path holds an inode.  The content of a file is a sequence of blocks;  *)
(* a block is the time at which a user wrote it, so that blocks of         *)
(* different versions differ.  Paths are not nested: EnsureDir of a parent *)
(* always succeeds and changes nothing.                                    *)
(***************************************************************************)
EXTENDS FileTree, Sequences

CONSTANT
  FileMode   \* 0644, the mode of files created for FILE_DATA

Inodes == [type : {"file", "dir"}, data : Seq(Nat), mtime : Nat, mode : Modes]

IsDisk(d) == DOMAIN d \in SUBSET Paths /\ d \in [DOMAIN d -> Inodes]

File(data, t) == [type |-> "file", data |-> data, mtime |-> t, mode |-> FileMode]

Directory(t) == [type |-> "dir", data |-> <<>>, mtime |-> t, mode |-> FileMode]

-----------------------------------------------------------------------------
(* Reading.                                                                *)

\* The hash stands for the content; only regular files have one.
BuildEntry(i) ==
  [type |-> i.type, mtime |-> i.mtime, hash |-> i.data, mode |-> i.mode]

WalkDirectory(d) == [p \in DOMAIN d |-> BuildEntry(d[p])]

\* ReadFileChunked on a file smaller than a chunk; an error sends nothing.
Readable(d, p) == p \in DOMAIN d /\ d[p].type = "file"

-----------------------------------------------------------------------------
(* Writing.  Each operation has its condition for success and its effect.  *)

Put(d, p, i) == TreeSet(d, p, i)

DeleteEntry(d, p) == TreeRemove(d, p)

\* os.Create, os.OpenFile(O_CREATE|O_WRONLY): fail on a directory.
CanWrite(d, p) == p \in DOMAIN d => d[p].type = "file"

\* os.Create truncates; ApplyAttrs then sets mode and time.
CreateFile(d, p, e) ==
  Put(d, p, [type |-> "file", data |-> <<>>, mtime |-> e.mtime, mode |-> e.mode])

\* os.MkdirAll: fails on a file, leaves a directory alone.
CanMkdir(d, p) == p \in DOMAIN d => d[p].type = "dir"

Mkdir(d, p, e, t) ==
  IF p \in DOMAIN d THEN d
  ELSE Put(d, p, [type |-> "dir", data |-> <<>>, mtime |-> t, mode |-> e.mode])

\* Chmod and Chtimes: fail on a missing path.
ApplyAttrs(d, p, e) ==
  Put(d, p, [d[p] EXCEPT !.mtime = e.mtime, !.mode = e.mode])

\* Mutant: the offset of a chunk is taken from the end of the file.
OverlayAppends(old, new) == old \o new

\* WriteAt replaces the blocks it covers and does not truncate the file.
Overlay(old, new) == new \o SubSeq(old, Len(new) + 1, Len(old))

WriteChunkAt(d, p, data, t) ==
  LET old == IF p \in DOMAIN d THEN d[p] ELSE File(<<>>, t)
  IN  Put(d, p, [old EXCEPT !.data  = Overlay(@, data),
                            !.mtime = IF data = <<>> THEN @ ELSE t])

-----------------------------------------------------------------------------
(* ApplyChanges.                                                           *)

applyOpFails(d, op) ==
  CASE op.type = "createDir"  -> ~CanMkdir(d, op.path)
    [] op.type = "createFile" -> ~CanWrite(d, op.path)
    [] op.type = "setAttrs"   -> op.path \notin DOMAIN d
    [] op.type = "delete"     -> FALSE

applyOp(d, op, t) ==
  CASE op.type = "createDir"  -> Mkdir(d, op.path, op.entry, t)
    [] op.type = "createFile" -> CreateFile(d, op.path, op.entry)
    [] op.type = "setAttrs"   -> ApplyAttrs(d, op.path, op.entry)
    [] op.type = "delete"     -> DeleteEntry(d, op.path)

\* No two operations of a SYNC_APPLY have the same path, so that the order in
\* which they are applied shows only in which of them precede a failing one:
\* creations and attributes in any order, deletions after them.
AppliedOps(d, ops) ==
  IF \E op \in ops : applyOpFails(d, op)
  THEN SUBSET {op \in ops : op.type # "delete" /\ ~applyOpFails(d, op)}
  ELSE {ops}

AfterOps(d, ops, t) ==
  LET opOf(p) == CHOOSE op \in ops : op.path = p
      touched == {op.path : op \in ops}
      gone    == {op.path : op \in {o \in ops : o.type = "delete"}}
  IN  [p \in (DOMAIN d \cup touched) \ gone |->
         IF p \in touched THEN applyOp(d, opOf(p), t)[p] ELSE d[p]]

=============================================================================
