--------------------------- MODULE FirstSyncSteps ---------------------------
(***************************************************************************)
(* Proof that the first synchronisation of a client and its server leaves  *)
(* the same files on both, when nobody changes files meanwhile and nothing *)
(* fails: from the start of the two programs through the handshake, the    *)
(* operations and the content that the server sends, the client's uploads, *)
(* and what the server's monitor makes of these and sends back.            *)
(*                                                                         *)
(* The invariant goes by stages.  Up to ACK, every file of the server that *)
(* differs on the client is still to be streamed or under way (StreamOK).  *)
(* From then on, every path that only the client has is still to be        *)
(* announced or is under way, and a file on the server is as on the client *)
(* or empty with its content next in the connection (UploadOK); what the   *)
(* server sends back is what the client has (EchoOK).  Both are stated of  *)
(* queues and of views of directories, and lemmas say how sending, reading *)
(* and writing change them; one lemma per action applies these, up to the  *)
(* client's first messages here and the others in FirstSyncProofs.         *)
(***************************************************************************)
EXTENDS FileSync, TLAPS

-----------------------------------------------------------------------------
(* The situation.                                                          *)

\* Nobody interferes: no user, no ticker and no failure; a directory has no
\* content.
Undisturbed ==
  /\ \A k \in {"edit", "drop", "tick", "crash", "stop"} : Limit[k] = 0
  /\ Limit["connect"] > 0
  /\ \A i \in InitInodes : i.type = "dir" => i.data = <<>>

-----------------------------------------------------------------------------
(* Sequences.                                                              *)

IsQueue(q) == \E S : q \in Seq(S)

\* Messages written to a connection come after those under way in it.
LEMMA Joined ==
  ASSUME NEW q, NEW r, IsQueue(q), IsQueue(r)
  PROVE  /\ IsQueue(q \o r)
         /\ Len(q) \in Nat /\ Len(r) \in Nat /\ Len(q \o r) = Len(q) + Len(r)
         /\ \A i \in 1 .. Len(q) : (q \o r)[i] = q[i]
         /\ \A i \in 1 .. Len(r) : (q \o r)[Len(q) + i] = r[i]
  <1>1. PICK S : q \in Seq(S)
    BY Zenon DEF IsQueue
  <1>2. PICK T : r \in Seq(T)
    BY Zenon DEF IsQueue
  <1> DEFINE U == S \cup T
  <1>3. q \in Seq(U) /\ r \in Seq(U)
    BY <1>1, <1>2
  <1> HIDE DEF U
  <1>4. q \o r \in Seq(U) /\ Len(q \o r) = Len(q) + Len(r) /\ Len(q) \in Nat /\ Len(r) \in Nat
    BY <1>3
  <1>5. \A i \in 1 .. Len(q) : (q \o r)[i] = q[i]
    BY <1>3
  <1>6. ASSUME NEW i \in 1 .. Len(r) PROVE (q \o r)[Len(q) + i] = r[i]
    BY <1>3, <1>4
  <1> QED
    BY Zenon, <1>4, <1>5, <1>6 DEF IsQueue

\* Reading a message leaves the others of the connection, one place ahead.
LEMMA Rest ==
  ASSUME NEW q, IsQueue(q), q # <<>>
  PROVE  /\ Len(q) \in Nat /\ Len(q) > 0 /\ Head(q) = q[1]
         /\ IsQueue(Tail(q)) /\ Len(Tail(q)) = Len(q) - 1
         /\ \A i \in 1 .. Len(q) - 1 : Tail(q)[i] = q[i + 1]
  <1>1. PICK S : q \in Seq(S)
    BY Zenon DEF IsQueue
  <1>2. Len(q) \in Nat /\ Len(q) > 0 /\ Head(q) = q[1]
    BY <1>1
  <1>3. Tail(q) \in Seq(S) /\ Len(Tail(q)) = Len(q) - 1
    BY <1>1, <1>2
  <1>4. \A i \in 1 .. Len(q) - 1 : Tail(q)[i] = q[i + 1]
    BY <1>1, <1>2, <1>3
  <1> QED
    BY Zenon, <1>2, <1>3, <1>4 DEF IsQueue

\* The connections of the handshake hold at most two messages.
LEMMA Short ==
  ASSUME NEW a, NEW b
  PROVE  /\ IsQueue(<<>>) /\ Len(<<>>) = 0
         /\ IsQueue(<<a>>) /\ Len(<<a>>) = 1 /\ <<a>>[1] = a
         /\ <<a>> # <<>> /\ Head(<<a>>) = a /\ Tail(<<a>>) = <<>>
         /\ IsQueue(<<a, b>>) /\ Len(<<a, b>>) = 2 /\ <<a, b>>[1] = a /\ <<a, b>>[2] = b
         /\ <<a, b>> # <<>> /\ Head(<<a, b>>) = a /\ Tail(<<a, b>>) = <<b>>
         /\ <<a>> \o <<b>> = <<a, b>> /\ <<>> \o <<a>> = <<a>> /\ <<a>> \o <<>> = <<a>>
  <1> DEFINE S == {a, b}
  <1>1. <<>> \in Seq(S) /\ <<a>> \in Seq(S) /\ <<a, b>> \in Seq(S) /\ <<b>> \in Seq(S)
    OBVIOUS
  <1>2. IsQueue(<<>>) /\ IsQueue(<<a>>) /\ IsQueue(<<a, b>>)
    BY Zenon, <1>1 DEF IsQueue
  <1>3. /\ Len(<<>>) = 0 /\ Len(<<a>>) = 1 /\ Len(<<a, b>>) = 2
        /\ <<a>>[1] = a /\ <<a, b>>[1] = a /\ <<a, b>>[2] = b
    BY Zenon
  <1>4. <<a>> # <<>> /\ <<a, b>> # <<>> /\ Head(<<a>>) = a /\ Head(<<a, b>>) = a
    BY <1>1, <1>3
  <1>5. Tail(<<a>>) = <<>>
    OBVIOUS
  <1>6. Tail(<<a, b>>) = <<b>>
    OBVIOUS
  <1>7. <<a>> \o <<b>> = <<a, b>>
    <2> DEFINE x == <<a>> \o <<b>>
               y == <<a, b>>
    <2>1. x \in Seq(S) /\ Len(x) = 2 /\ y \in Seq(S) /\ Len(y) = 2
      BY <1>1, <1>3
    <2>2. x[1] = y[1] /\ x[2] = y[2]
      BY <1>1, <1>3
    <2> HIDE DEF x, y
    <2>3. x \in [1 .. 2 -> S] /\ y \in [1 .. 2 -> S]
      BY <2>1
    <2>4. \A i \in 1 .. 2 : x[i] = y[i]
      BY <2>2
    <2>5. x = y
      BY <2>3, <2>4
    <2> QED
      BY Zenon, <2>5 DEF x, y
  <1>8. <<>> \o <<a>> = <<a>> /\ <<a>> \o <<>> = <<a>>
    OBVIOUS
  <1> QED
    BY Zenon, <1>2, <1>3, <1>4, <1>5, <1>6, <1>7, <1>8

\* One message is written to a connection.
LEMMA Added ==
  ASSUME NEW q, IsQueue(q), NEW m, NEW r, r = <<m>>
  PROVE  /\ IsQueue(q \o r) /\ Len(q) \in Nat /\ Len(q \o r) = Len(q) + 1
         /\ \A i \in 1 .. Len(q) : (q \o r)[i] = q[i]
         /\ (q \o r)[Len(q) + 1] = m
  <1>1. r \in Seq({m}) /\ Len(r) = 1 /\ r[1] = m /\ 1 \in 1 .. Len(r)
    OBVIOUS
  <1>2. IsQueue(r)
    BY ONLY Zenon, <1>1 DEF IsQueue
  <1>3. /\ IsQueue(q \o r) /\ Len(q) \in Nat /\ Len(q \o r) = Len(q) + Len(r)
        /\ \A i \in 1 .. Len(q) : (q \o r)[i] = q[i]
        /\ \A i \in 1 .. Len(r) : (q \o r)[Len(q) + i] = r[i]
    BY ONLY IsQueue(q), <1>2, Joined
  <1> QED
    BY ONLY Zenon, <1>1, <1>3

-----------------------------------------------------------------------------
(* Directories.                                                            *)

Item(t, data) == [type |-> t, data |-> data]

\* What synchronisation is about: types and content.
View(d) == [p \in DOMAIN d |-> Item(d[p].type, d[p].data)]

IsItem(x) ==
  /\ x.type \in {"file", "dir"} /\ x.data \in Seq(Nat) /\ (x.type = "dir" => x.data = <<>>)

IsDir(d) ==
  /\ DOMAIN d \subseteq Paths
  /\ \A p \in DOMAIN d :
       /\ d[p] = [type |-> d[p].type, data |-> d[p].data, mtime |-> d[p].mtime, mode |-> d[p].mode]
       /\ IsItem(d[p])

\* A directory's view has its paths, types and content.
LEMMA Seen ==
  ASSUME NEW d, IsDir(d)
  PROVE  /\ DOMAIN View(d) = DOMAIN d
         /\ \A p \in DOMAIN d : /\ View(d)[p] = Item(d[p].type, d[p].data)
                                /\ View(d)[p].type = d[p].type /\ View(d)[p].data = d[p].data
                                /\ IsItem(View(d)[p])
  BY Zenon DEF View, Item, IsDir, IsItem

\* Replacing one entry of a directory replaces it in its view.
LEMMA ViewOfPut ==
  ASSUME NEW d, IsDir(d), NEW p \in Paths, NEW t, NEW data, NEW m, NEW n,
         IsItem(Item(t, data))
  PROVE  LET d2 == Put(d, p, [type |-> t, data |-> data, mtime |-> m, mode |-> n])
         IN  IsDir(d2) /\ View(d2) = TreeSet(View(d), p, Item(t, data))
  <1> DEFINE i == [type |-> t, data |-> data, mtime |-> m, mode |-> n]
             d2 == Put(d, p, i)
  <1>1. DOMAIN d2 = DOMAIN d \cup {p} /\ \A x \in DOMAIN d2 : d2[x] = IF x = p THEN i ELSE d[x]
    BY Zenon DEF Put, TreeSet
  <1>2. IsDir(d2)
    BY <1>1 DEF IsDir, IsItem, Item
  <1>3. View(d2) = TreeSet(View(d), p, Item(t, data))
    BY <1>1 DEF View, TreeSet, Item
  <1> QED
    BY Zenon, <1>2, <1>3

\* WriteAt with no less than a file holds replaces all its content.
LEMMA Overlaid ==
  ASSUME NEW old \in Seq(Nat), NEW new \in Seq(Nat), Len(old) <= Len(new)
  PROVE  Overlay(old, new) = new
  <1>1. SubSeq(old, Len(new) + 1, Len(old)) = <<>>
    OBVIOUS
  <1>2. new \o <<>> = new
    OBVIOUS
  <1> QED
    BY Zenon, <1>1, <1>2 DEF Overlay

WithContent(i, data, m) == [i EXCEPT !.data = data, !.mtime = m]
WithAttrs(i, m, n) == [i EXCEPT !.mtime = m, !.mode = n]

\* Writing content, or setting mode and time, leaves an inode's other fields alone.
LEMMA Updated ==
  ASSUME NEW i, NEW b, NEW m, NEW n,
         i = [type |-> i.type, data |-> i.data, mtime |-> i.mtime, mode |-> i.mode]
  PROVE  /\ WithContent(i, b, m)
              = [type |-> i.type, data |-> b, mtime |-> m, mode |-> i.mode]
         /\ WithAttrs(i, m, n)
              = [type |-> i.type, data |-> i.data, mtime |-> m, mode |-> n]
  <1> DEFINE t == i.type
             u == i.data
             v == i.mtime
             w == i.mode
  <1>1. i = [type |-> t, data |-> u, mtime |-> v, mode |-> w]
    BY Zenon
  <1> HIDE DEF t, u, v, w
  <1>2. [i EXCEPT !.data = b, !.mtime = m] = [type |-> t, data |-> b, mtime |-> m, mode |-> w]
    <2> DEFINE j == [i EXCEPT !.data = b]
    <2>1. j = [type |-> t, data |-> b, mtime |-> v, mode |-> w]
      BY <1>1
    <2>2. [i EXCEPT !.data = b, !.mtime = m] = [j EXCEPT !.mtime = m]
      BY Zenon
    <2> HIDE DEF j
    <2>3. [j EXCEPT !.mtime = m] = [type |-> t, data |-> b, mtime |-> m, mode |-> w]
      BY <2>1
    <2> QED
      BY Zenon, <2>2, <2>3
  <1>3. [i EXCEPT !.mtime = m, !.mode = n] = [type |-> t, data |-> u, mtime |-> m, mode |-> n]
    <2> DEFINE j == [i EXCEPT !.mtime = m]
    <2>1. j = [type |-> t, data |-> u, mtime |-> m, mode |-> w]
      BY <1>1
    <2>2. [i EXCEPT !.mtime = m, !.mode = n] = [j EXCEPT !.mode = n]
      BY Zenon
    <2> HIDE DEF j
    <2>3. [j EXCEPT !.mode = n] = [type |-> t, data |-> u, mtime |-> m, mode |-> n]
      BY <2>1
    <2> QED
      BY Zenon, <2>2, <2>3
  <1> QED
    BY Zenon, <1>2, <1>3 DEF t, u, w, WithContent, WithAttrs

\* WriteChunkAt of no less than a file holds leaves in it just what was written.
LEMMA Written ==
  ASSUME NEW d, IsDir(d), NEW p \in DOMAIN d, d[p].type = "file",
         NEW data \in Seq(Nat), Len(d[p].data) <= Len(data), NEW t
  PROVE  LET d2 == WriteChunkAt(d, p, data, t)
         IN  CanWrite(d, p) /\ IsDir(d2) /\ View(d2) = TreeSet(View(d), p, Item("file", data))
  <1> DEFINE m == IF data = <<>> THEN d[p].mtime ELSE t
  <1>1. d[p] = [type |-> d[p].type, data |-> d[p].data, mtime |-> d[p].mtime, mode |-> d[p].mode]
        /\ d[p].data \in Seq(Nat) /\ p \in Paths
    BY Zenon DEF IsDir, IsItem
  <1>2. Overlay(d[p].data, data) = data
    BY Zenon, <1>1, Overlaid
  <1>3. [d[p] EXCEPT !.data = Overlay(@, data), !.mtime = IF data = <<>> THEN @ ELSE t]
          = [type |-> "file", data |-> data, mtime |-> m, mode |-> d[p].mode]
    <2>1. [d[p] EXCEPT !.data = Overlay(@, data), !.mtime = IF data = <<>> THEN @ ELSE t]
            = WithContent(d[p], data, m)
      BY Zenon, <1>2 DEF WithContent
    <2> HIDE DEF m
    <2>2. WithContent(d[p], data, m)
            = [type |-> d[p].type, data |-> data, mtime |-> m, mode |-> d[p].mode]
      BY Zenon, <1>1, Updated
    <2> QED
      BY Zenon, <2>1, <2>2
  <1>4. WriteChunkAt(d, p, data, t)
          = Put(d, p, [type |-> "file", data |-> data, mtime |-> m, mode |-> d[p].mode])
    BY Zenon, <1>3 DEF WriteChunkAt
  <1>5. IsItem(Item("file", data))
    BY Zenon DEF IsItem, Item
  <1> HIDE DEF m
  <1> QED
    BY <1>1, <1>4, <1>5, ViewOfPut DEF CanWrite

\* os.Create leaves an empty file, whatever was there.
LEMMA FileCreated ==
  ASSUME NEW d, IsDir(d), NEW p \in Paths, NEW e
  PROVE  LET d2 == CreateFile(d, p, e)
         IN  IsDir(d2) /\ View(d2) = TreeSet(View(d), p, Item("file", <<>>))
  <1>1. IsItem(Item("file", <<>>))
    BY DEF IsItem, Item
  <1> QED
    BY <1>1, ViewOfPut DEF CreateFile

\* os.MkdirAll of a path that is free leaves a directory there.
LEMMA DirCreated ==
  ASSUME NEW d, IsDir(d), NEW p \in Paths, p \notin DOMAIN d, NEW e, NEW t
  PROVE  LET d2 == Mkdir(d, p, e, t)
         IN  IsDir(d2) /\ View(d2) = TreeSet(View(d), p, Item("dir", <<>>))
  <1>1. IsItem(Item("dir", <<>>))
    BY DEF IsItem, Item
  <1> QED
    BY <1>1, ViewOfPut DEF Mkdir

\* ApplyAttrs changes neither types nor content.
LEMMA AttrsApplied ==
  ASSUME NEW d, IsDir(d), NEW p \in DOMAIN d, NEW e
  PROVE  LET d2 == ApplyAttrs(d, p, e) IN IsDir(d2) /\ View(d2) = View(d)
  <1>1. /\ d[p] = [type |-> d[p].type, data |-> d[p].data, mtime |-> d[p].mtime, mode |-> d[p].mode]
        /\ IsItem(Item(d[p].type, d[p].data)) /\ p \in Paths
    BY Zenon DEF IsDir, IsItem, Item
  <1>2. [d[p] EXCEPT !.mtime = e.mtime, !.mode = e.mode]
          = [type |-> d[p].type, data |-> d[p].data, mtime |-> e.mtime, mode |-> e.mode]
    <2>1. [d[p] EXCEPT !.mtime = e.mtime, !.mode = e.mode] = WithAttrs(d[p], e.mtime, e.mode)
      BY Zenon DEF WithAttrs
    <2> QED
      BY Zenon, <1>1, <2>1, Updated
  <1>3. ApplyAttrs(d, p, e)
          = Put(d, p, [type |-> d[p].type, data |-> d[p].data, mtime |-> e.mtime, mode |-> e.mode])
    BY Zenon, <1>2 DEF ApplyAttrs
  <1>4. TreeSet(View(d), p, Item(d[p].type, d[p].data)) = View(d)
    BY Zenon DEF TreeSet, View
  <1> QED
    BY <1>1, <1>3, <1>4, ViewOfPut

SameTypes(w, v) == \A p \in DOMAIN w \cap DOMAIN v : w[p].type = v[p].type

\* w2 is w with the paths of v that it lacked, as new files and directories.
Grown(w, w2, v) ==
  /\ DOMAIN w2 = DOMAIN w \cup DOMAIN v
  /\ \A p \in DOMAIN w : w2[p] = w[p]
  /\ \A p \in DOMAIN v \ DOMAIN w : w2[p] = Item(v[p].type, <<>>)

\* A change of DiffInitial creates a path that only the first directory has, or
\* modifies one that both have, and is the only one of its path.
LEMMA DiffOf ==
  ASSUME NEW d, NEW e, IsDir(d), IsDir(e), SameTypes(e, d),
         NEW ch \in DiffInitial(WalkDirectory(d), WalkDirectory(e))
  PROVE  /\ ch.path \in DOMAIN d /\ ch.entry.type = d[ch.path].type
         /\ \/ ch.type = "create" /\ ch.path \notin DOMAIN e
            \/ ch.type = "modify" /\ ch.path \in DOMAIN e
         /\ \A other \in DiffInitial(WalkDirectory(d), WalkDirectory(e)) :
              other.path = ch.path => other = ch
  <1> DEFINE l == WalkDirectory(d)
             r == WalkDirectory(e)
  <1>1. /\ DOMAIN l = DOMAIN d /\ \A p \in DOMAIN d : l[p].type = d[p].type
        /\ DOMAIN r = DOMAIN e /\ \A p \in DOMAIN e : r[p].type = e[p].type
    BY Zenon DEF WalkDirectory, BuildEntry
  <1>2. ASSUME NEW x \in Created(l, r)
        PROVE  /\ x = [type |-> "create", path |-> x.path, entry |-> l[x.path]]
               /\ x.path \in DOMAIN d \ DOMAIN e
    BY <1>1 DEF Created
  <1>3. ASSUME NEW x \in Modified(l, r)
        PROVE  /\ x = [type |-> "modify", path |-> x.path,
                       entry |-> pickWinner(l[x.path], r[x.path])]
               /\ x.path \in DOMAIN d \cap DOMAIN e
    BY <1>1 DEF Modified
  <1>4. \A p \in DOMAIN d \cap DOMAIN e : pickWinner(l[p], r[p]).type = d[p].type
    BY Zenon, <1>1 DEF pickWinner, SameTypes
  <1> HIDE DEF l, r
  <1>5. DiffInitial(l, r) = Created(l, r) \cup Modified(l, r)
    BY Zenon DEF DiffInitial
  <1>6. ch \in Created(l, r) \/ ch \in Modified(l, r)
    BY Zenon, <1>5 DEF l, r
  <1>7. CASE ch \in Created(l, r)
    <2>1. ch.path \in DOMAIN d \ DOMAIN e /\ ch.type = "create" /\ ch.entry = l[ch.path]
      BY <1>2, <1>7
    <2>2. ASSUME NEW x \in DiffInitial(l, r), x.path = ch.path PROVE x = ch
      <3>1. x \in Created(l, r)
        BY Zenon, <1>3, <1>5, <2>1, <2>2
      <3> QED
        BY Zenon, <1>2, <1>7, <2>2, <3>1
    <2> QED
      BY Zenon, <1>1, <2>1, <2>2 DEF l, r
  <1>8. CASE ch \in Modified(l, r)
    <2>1. /\ ch.path \in DOMAIN d \cap DOMAIN e /\ ch.type = "modify"
          /\ ch.entry = pickWinner(l[ch.path], r[ch.path])
      BY <1>3, <1>8
    <2>2. ASSUME NEW x \in DiffInitial(l, r), x.path = ch.path PROVE x = ch
      <3>1. x \in Modified(l, r)
        BY Zenon, <1>2, <1>5, <2>1, <2>2
      <3> QED
        BY Zenon, <1>3, <1>8, <2>2, <3>1
    <2> QED
      BY Zenon, <1>4, <2>1, <2>2 DEF l, r
  <1> QED
    BY Zenon, <1>6, <1>7, <1>8

\* DiffInitial misses no path that only the first directory has, and no file
\* whose content differs.
LEMMA DiffHas ==
  ASSUME NEW d, NEW e, NEW p \in DOMAIN d,
         \/ p \notin DOMAIN e
         \/ p \in DOMAIN e /\ d[p].type = "file" /\ d[p].data # e[p].data
  PROVE  \E ch \in DiffInitial(WalkDirectory(d), WalkDirectory(e)) :
           /\ ch.path = p
           /\ p \notin DOMAIN e => ch.type = "create"
  <1> DEFINE l == WalkDirectory(d)
             r == WalkDirectory(e)
  <1>1. /\ DOMAIN l = DOMAIN d /\ l[p].type = d[p].type /\ l[p].hash = d[p].data
        /\ DOMAIN r = DOMAIN e /\ (p \in DOMAIN e => r[p].hash = e[p].data)
    BY Zenon DEF WalkDirectory, BuildEntry
  <1> HIDE DEF l, r
  <1>2. CASE p \notin DOMAIN e
    <2> DEFINE ch == [type |-> "create", path |-> p, entry |-> l[p]]
    <2>1. ch \in Created(l, r)
      BY Zenon, <1>1, <1>2 DEF Created
    <2>2. ch \in DiffInitial(l, r)
      BY Zenon, <2>1 DEF DiffInitial
    <2> QED
      BY Zenon, <2>2 DEF l, r
  <1>3. CASE p \in DOMAIN e
    <2> DEFINE ch == [type |-> "modify", path |-> p, entry |-> pickWinner(l[p], r[p])]
    <2>1. entryChanged(l[p], r[p])
      BY Zenon, <1>1, <1>3 DEF entryChanged
    <2>2. ch \in Modified(l, r)
      BY Zenon, <1>1, <1>3, <2>1 DEF Modified
    <2>3. ch \in DiffInitial(l, r)
      BY Zenon, <2>2 DEF DiffInitial
    <2> QED
      BY Zenon, <1>3, <2>3 DEF l, r
  <1> QED
    BY Zenon, <1>2, <1>3

\* A path that only the first directory has is created by DiffInitial.
LEMMA DiffCreates ==
  ASSUME NEW d, NEW e, NEW p, p \in DOMAIN d, p \notin DOMAIN e
  PROVE  \E ch \in DiffInitial(WalkDirectory(d), WalkDirectory(e)) :
           ch.path = p /\ ch.type = "create"
  BY DiffHas

\* ApplyChanges of the operations for DiffInitial creates what only the other
\* side has, without content, and leaves the rest as it is.
LEMMA Applied ==
  ASSUME NEW d, NEW e, IsDir(d), IsDir(e), SameTypes(e, d), NEW t
  PROVE  LET ops == buildSyncOps(DiffInitial(WalkDirectory(d), WalkDirectory(e)))
             e2  == AfterOps(e, ops, t)
         IN  /\ AppliedOps(e, ops) = {ops}
             /\ IsDir(e2) /\ Grown(View(e), View(e2), View(d))
             /\ ops = {} => DOMAIN d \subseteq DOMAIN e
  <1> DEFINE chs == DiffInitial(WalkDirectory(d), WalkDirectory(e))
             ops == buildSyncOps(chs)
             e2  == AfterOps(e, ops, t)
             opOf(p) == CHOOSE op \in ops : op.path = p
             touched == {op.path : op \in ops}
  <1>1. ASSUME NEW op \in ops
        PROVE  /\ op.path \in DOMAIN d
               /\ \/ /\ op.path \notin DOMAIN e
                     /\ op.type = IF d[op.path].type = "dir" THEN "createDir" ELSE "createFile"
                  \/ op.path \in DOMAIN e /\ op.type = "setAttrs"
               /\ \A other \in ops : other.path = op.path => other = op
    <2>1. PICK ch \in chs : op = SyncOp(ch)
      BY Zenon DEF buildSyncOps
    <2>2. ASSUME NEW x \in chs
          PROVE  /\ SyncOp(x).path = x.path
                 /\ x.type = "create" =>
                      SyncOp(x).type = IF x.entry.type = "dir" THEN "createDir" ELSE "createFile"
                 /\ x.type = "modify" => SyncOp(x).type = "setAttrs"
      <3>1. x.type = "create" \/ x.type = "modify"
        BY Zenon, DiffOf
      <3> QED
        BY Zenon, <3>1 DEF SyncOp
    <2>3. /\ ch.path \in DOMAIN d /\ ch.entry.type = d[ch.path].type
          /\ \/ ch.type = "create" /\ ch.path \notin DOMAIN e
             \/ ch.type = "modify" /\ ch.path \in DOMAIN e
          /\ \A other \in chs : other.path = ch.path => other = ch
      BY Zenon, DiffOf
    <2>4. ASSUME NEW other \in ops, other.path = op.path PROVE other = op
      <3>1. PICK x \in chs : other = SyncOp(x)
        BY Zenon DEF buildSyncOps
      <3> HIDE DEF chs
      <3> QED
        BY Zenon, <2>1, <2>2, <2>3, <2>4, <3>1
    <2> HIDE DEF chs, ops
    <2> QED
      BY Zenon, <2>1, <2>2, <2>3, <2>4
  <1>2. ASSUME NEW p \in DOMAIN d \ DOMAIN e PROVE \E op \in ops : op.path = p
    <2>1. PICK ch \in chs : ch.path = p /\ ch.type = "create"
      BY DiffHas
    <2>2. SyncOp(ch).path = p
      BY Zenon, <2>1 DEF SyncOp
    <2> QED
      BY Zenon, <2>2 DEF buildSyncOps
  <1> HIDE DEF ops
  <1>3. ASSUME NEW op \in ops PROVE ~applyOpFails(e, op)
    BY Zenon, <1>1 DEF applyOpFails, CanMkdir, CanWrite
  <1>4. AppliedOps(e, ops) = {ops}
    BY Zenon, <1>3 DEF AppliedOps
  <1>5. ASSUME NEW op \in ops
        PROVE  LET f == applyOp(e, op, t)
                   p == op.path
               IN  /\ IsDir(f) /\ p \in DOMAIN f
                   /\ View(f)[p] = IF p \in DOMAIN e THEN View(e)[p]
                                   ELSE Item(d[p].type, <<>>)
    <2> DEFINE p == op.path
               f == applyOp(e, op, t)
    <2>1. p \in Paths /\ p \in DOMAIN d /\ d[p].type \in {"file", "dir"}
      BY Zenon, <1>1 DEF IsDir, IsItem
    <2>2. CASE op.type = "createFile"
      <3>1. f = CreateFile(e, p, op.entry) /\ p \notin DOMAIN e /\ d[p].type = "file"
        BY Zenon, <1>1, <2>1, <2>2 DEF applyOp
      <3>2. IsDir(f) /\ View(f) = TreeSet(View(e), p, Item("file", <<>>))
        BY Zenon, <2>1, <3>1, FileCreated
      <3> QED
        BY Zenon, <3>1, <3>2, Seen DEF TreeSet
    <2>3. CASE op.type = "createDir"
      <3>1. f = Mkdir(e, p, op.entry, t) /\ p \notin DOMAIN e /\ d[p].type = "dir"
        BY Zenon, <1>1, <2>1, <2>3 DEF applyOp
      <3>2. IsDir(f) /\ View(f) = TreeSet(View(e), p, Item("dir", <<>>))
        BY <2>1, <3>1, DirCreated
      <3> QED
        BY Zenon, <3>1, <3>2, Seen DEF TreeSet
    <2>4. CASE op.type = "setAttrs"
      <3>1. f = ApplyAttrs(e, p, op.entry) /\ p \in DOMAIN e
        BY Zenon, <1>1, <2>1, <2>4 DEF applyOp
      <3>2. IsDir(f) /\ View(f) = View(e)
        BY Zenon, <3>1, AttrsApplied
      <3> QED
        BY Zenon, <3>1, <3>2, Seen
    <2> QED
      BY Zenon, <1>1, <2>2, <2>3, <2>4
  <1>6. /\ DOMAIN e2 = DOMAIN e \cup touched
        /\ \A p \in DOMAIN e2 :
             e2[p] = IF p \in touched THEN applyOp(e, opOf(p), t)[p] ELSE e[p]
    <2>1. {op.path : op \in {o \in ops : o.type = "delete"}} = {}
      BY Zenon, <1>1
    <2> QED
      BY Zenon, <2>1 DEF AfterOps
  <1>7. ASSUME NEW p \in touched PROVE opOf(p) \in ops /\ opOf(p).path = p
    BY Zenon
  <1>8. DOMAIN e2 = DOMAIN e \cup DOMAIN d
    BY <1>1, <1>2, <1>6
  <1> HIDE DEF e2, opOf
  <1>9. ASSUME NEW p \in DOMAIN e2
        PROVE  /\ e2[p] = [type |-> e2[p].type, data |-> e2[p].data,
                           mtime |-> e2[p].mtime, mode |-> e2[p].mode]
               /\ IsItem(e2[p])
               /\ Item(e2[p].type, e2[p].data) = IF p \in DOMAIN e THEN View(e)[p]
                                                 ELSE Item(d[p].type, <<>>)
    <2>1. CASE p \in touched
      <3> DEFINE f == applyOp(e, opOf(p), t)
      <3>1. /\ IsDir(f) /\ p \in DOMAIN f
            /\ View(f)[p] = IF p \in DOMAIN e THEN View(e)[p] ELSE Item(d[p].type, <<>>)
        BY Zenon, <1>5, <1>7, <2>1
      <3>2. e2[p] = f[p]
        BY Zenon, <1>6, <2>1
      <3> HIDE DEF f
      <3>3. View(f)[p] = Item(f[p].type, f[p].data)
        BY Zenon, <3>1, Seen
      <3> QED
        BY Zenon, <3>1, <3>2, <3>3 DEF IsDir
    <2>2. CASE p \notin touched
      <3>1. p \in DOMAIN e /\ e2[p] = e[p]
        BY Zenon, <1>6, <2>2
      <3>2. View(e)[p] = Item(e[p].type, e[p].data)
        BY Zenon, <3>1, Seen
      <3> QED
        BY Zenon, <3>1, <3>2 DEF IsDir
    <2> QED
      BY Zenon, <2>1, <2>2
  <1>10. IsDir(e2)
    BY Zenon, <1>8, <1>9 DEF IsDir
  <1>11. Grown(View(e), View(e2), View(d))
    <2>1. /\ DOMAIN View(e2) = DOMAIN e2
          /\ \A p \in DOMAIN e2 : View(e2)[p] = Item(e2[p].type, e2[p].data)
      BY Zenon, <1>10, Seen
    <2>2. ASSUME NEW p \in DOMAIN e PROVE View(e2)[p] = View(e)[p]
      BY Zenon, <1>8, <1>9, <2>1
    <2>3. ASSUME NEW p \in DOMAIN d \ DOMAIN e PROVE View(e2)[p] = Item(View(d)[p].type, <<>>)
      <3>1. View(e2)[p] = Item(d[p].type, <<>>)
        BY Zenon, <1>8, <1>9, <2>1
      <3> QED
        BY Zenon, <3>1, Seen
    <2> QED
      BY Zenon, <1>8, <2>1, <2>2, <2>3, Seen DEF Grown
  <1>12. ops = {} => DOMAIN d \subseteq DOMAIN e
    BY Zenon, <1>2
  <1> QED
    BY Zenon, <1>4, <1>10, <1>11, <1>12 DEF e2, ops

-----------------------------------------------------------------------------
(* The server's files on their way to the client.  v and w are the views   *)
(* of the server's and the client's directory, q the messages under way to *)
(* the client, k how many of them precede the content.                     *)

IsView(v) == \A p \in DOMAIN v : v[p] = Item(v[p].type, v[p].data) /\ IsItem(v[p])

\* No file is longer on the client.
NoLonger(w, v) == \A p \in DOMAIN w \cap DOMAIN v : Len(w[p].data) <= Len(v[p].data)

IsContent(m, v) == \E p \in DOMAIN v : v[p].type = "file" /\ m = FileData(p, v[p].data)

Arrives(p, q, k, todo, v, w) ==
  \/ p \in DOMAIN w /\ w[p].data = v[p].data
  \/ \E ch \in todo : ch.path = p
  \/ \E i \in k + 1 .. Len(q) : q[i] = FileData(p, v[p].data)

\* The ACK comes after all content.
InStream(q, k, sp, v) ==
  \A i \in k + 1 .. Len(q) :
    IF sp = "live" /\ i = Len(q) THEN q[i] = Ack ELSE IsContent(q[i], v)

StreamOK(q, k, sp, todo, v, w) ==
  /\ IsQueue(q) /\ Len(q) >= k
  /\ InStream(q, k, sp, v)
  /\ sp = "live" => Len(q) > k /\ todo = {}
  /\ \A ch \in todo : ch.path \in DOMAIN v /\ ch.entry.type = v[ch.path].type
  /\ \A p \in DOMAIN v : v[p].type = "file" => Arrives(p, q, k, todo, v, w)

\* A chunk of content is not an ACK, and carries its path and its data.
LEMMA IsFileData ==
  ASSUME NEW p, NEW data
  PROVE  /\ FileData(p, data) # Ack /\ FileData(p, data).type = "FILE_DATA"
         /\ FileData(p, data).path = p /\ FileData(p, data).data = data
  <1>1. FileData(p, data).type = "FILE_DATA" /\ Ack.type = "ACK"
    BY Zenon DEF FileData, Ack
  <1> QED
    BY Zenon, <1>1 DEF FileData

\* A connection holds a number of messages.
LEMMA QueueLen ==
  ASSUME NEW q, IsQueue(q)
  PROVE  Len(q) \in Nat
  BY DEF IsQueue

\* SrvStream: a change is replaced by its content.
LEMMA StreamSend ==
  ASSUME NEW q, NEW k \in Nat, NEW todo, NEW v, NEW w, NEW d, v = View(d), IsDir(d),
         StreamOK(q, k, "stream", todo, v, w), NEW ch \in todo
  PROVE  StreamOK(q \o Content(d, ch.path, ch.entry), k, "stream", todo \ {ch}, v, w)
  <1> DEFINE x == ch.path
             ms == Content(d, x, ch.entry)
  <1>1. x \in DOMAIN v /\ ch.entry.type = v[x].type /\ IsQueue(q) /\ Len(q) \in Nat
    BY Zenon, QueueLen DEF StreamOK
  <1>2. CASE v[x].type = "file"
    <2> DEFINE m == FileData(x, v[x].data)
    <2>1. ms = <<m>>
      BY SMTT(30), <1>1, <1>2, Seen DEF Content, Readable
    <2> HIDE DEF ms
    <2>2. /\ IsQueue(q \o ms) /\ Len(q \o ms) = Len(q) + 1
          /\ \A i \in 1 .. Len(q) : (q \o ms)[i] = q[i]
          /\ (q \o ms)[Len(q) + 1] = m
      BY <1>1, <2>1, Added
    <2> DEFINE q2 == q \o ms
    <2> HIDE DEF q2
    <2>3. InStream(q2, k, "stream", v)
      <3> SUFFICES ASSUME NEW i \in k + 1 .. Len(q2) PROVE IsContent(q2[i], v)
        BY Zenon DEF InStream
      <3>1. CASE i <= Len(q)
        BY <1>1, <2>2, <3>1 DEF q2, StreamOK, InStream
      <3>2. CASE i = Len(q) + 1
        BY Zenon, <1>1, <1>2, <2>2, <3>2 DEF q2, IsContent
      <3> QED
        BY <1>1, <2>2, <3>1, <3>2 DEF q2
    <2>4. ASSUME NEW p \in DOMAIN v, v[p].type = "file" PROVE Arrives(p, q2, k, todo \ {ch}, v, w)
      <3>1. Arrives(p, q, k, todo, v, w)
        BY Zenon, <2>4 DEF StreamOK
      <3>2. CASE p = x
        <4>1. Len(q) + 1 \in k + 1 .. Len(q2)
          BY <1>1, <2>2 DEF q2, StreamOK
        <4> QED
          BY Zenon, <2>2, <3>2, <4>1 DEF Arrives, q2
      <3>3. CASE p # x
        <4>1. CASE \E i \in k + 1 .. Len(q) : q[i] = FileData(p, v[p].data)
          <5>1. PICK i \in k + 1 .. Len(q) : q[i] = FileData(p, v[p].data)
            BY Zenon, <4>1
          <5>2. i \in k + 1 .. Len(q2) /\ q2[i] = q[i]
            BY <1>1, <2>2 DEF q2
          <5> QED
            BY Zenon, <5>1, <5>2 DEF Arrives
        <4> QED
          BY Zenon, <3>1, <3>3, <4>1 DEF Arrives
      <3> QED
        BY Zenon, <3>2, <3>3
    <2>5. IsQueue(q2) /\ Len(q2) >= k
      BY <1>1, <2>2 DEF StreamOK, q2
    <2>6. StreamOK(q2, k, "stream", todo \ {ch}, v, w)
      BY Zenon, <2>3, <2>4, <2>5 DEF StreamOK
    <2> QED
      BY Zenon, <2>6 DEF q2, ms
  <1>3. CASE v[x].type # "file"
    <2>1. ms = <<>>
      BY Zenon, <1>1, <1>3 DEF Content
    <2>2. q \o ms = q
      BY <1>1, <2>1 DEF IsQueue
    <2>3. ASSUME NEW p \in DOMAIN v, v[p].type = "file" PROVE Arrives(p, q, k, todo \ {ch}, v, w)
      BY Zenon, <1>3, <2>3 DEF StreamOK, Arrives
    <2> QED
      BY Zenon, <2>2, <2>3 DEF StreamOK
  <1> QED
    BY Zenon, <1>2, <1>3

\* SrvAck: the ACK ends the stream.
LEMMA StreamAck ==
  ASSUME NEW q, NEW k \in Nat, NEW v, NEW w, StreamOK(q, k, "stream", {}, v, w)
  PROVE  StreamOK(q \o <<Ack>>, k, "live", {}, v, w)
  <1> DEFINE q2 == q \o <<Ack>>
  <1>1. IsQueue(q) /\ Len(q) \in Nat
    BY Zenon, QueueLen DEF StreamOK
  <1>2. /\ IsQueue(q2) /\ Len(q2) = Len(q) + 1
        /\ \A i \in 1 .. Len(q) : q2[i] = q[i]
        /\ q2[Len(q) + 1] = Ack
    BY <1>1, Added
  <1> HIDE DEF q2
  <1>3. InStream(q2, k, "live", v)
    BY SMTT(30), <1>1, <1>2 DEF StreamOK, InStream
  <1>4. ASSUME NEW p \in DOMAIN v, v[p].type = "file" PROVE Arrives(p, q2, k, {}, v, w)
    <2>1. Arrives(p, q, k, {}, v, w)
      BY Zenon, <1>4 DEF StreamOK
    <2>2. CASE \E i \in k + 1 .. Len(q) : q[i] = FileData(p, v[p].data)
      <3>1. PICK i \in k + 1 .. Len(q) : q[i] = FileData(p, v[p].data)
        BY Zenon, <2>2
      <3>2. i \in k + 1 .. Len(q2) /\ q2[i] = q[i]
        BY <1>1, <1>2
      <3> QED
        BY Zenon, <3>1, <3>2 DEF Arrives
    <2> QED
      BY Zenon, <2>1, <2>2 DEF Arrives
  <1>5. IsQueue(q2) /\ Len(q2) > k /\ Len(q2) >= k
    BY SMTT(30), <1>1, <1>2 DEF StreamOK
  <1>6. StreamOK(q2, k, "live", {}, v, w)
    BY Zenon, <1>3, <1>4, <1>5 DEF StreamOK
  <1> QED
    BY Zenon, <1>6 DEF q2

\* SrvSyncApply: at first everything is to be streamed that differs.
LEMMA StreamStart ==
  ASSUME NEW d, NEW e, IsDir(d), IsDir(e), SameTypes(e, d), NEW q, IsQueue(q)
  PROVE  StreamOK(q, Len(q), "stream", DiffInitial(WalkDirectory(d), WalkDirectory(e)),
                  View(d), View(e))
  <1> DEFINE todo == DiffInitial(WalkDirectory(d), WalkDirectory(e))
             v == View(d)
             w == View(e)
  <1>1. Len(q) \in Nat
    BY Zenon, QueueLen
  <1>2. InStream(q, Len(q), "stream", v)
    BY <1>1 DEF InStream
  <1>3. /\ DOMAIN v = DOMAIN d /\ DOMAIN w = DOMAIN e
        /\ \A p \in DOMAIN d : v[p].type = d[p].type /\ v[p].data = d[p].data
        /\ \A p \in DOMAIN e : w[p].type = e[p].type /\ w[p].data = e[p].data
    BY Zenon, Seen
  <1>4. ASSUME NEW ch \in todo PROVE ch.path \in DOMAIN v /\ ch.entry.type = v[ch.path].type
    BY SMTT(30), <1>3, DiffOf
  <1> HIDE DEF v, w
  <1>5. ASSUME NEW p \in DOMAIN v, v[p].type = "file" PROVE Arrives(p, q, Len(q), todo, v, w)
    <2>1. CASE p \in DOMAIN e /\ e[p].data = d[p].data
      BY Zenon, <1>3, <2>1 DEF Arrives
    <2>2. CASE ~(p \in DOMAIN e /\ e[p].data = d[p].data)
      <3>1. \E ch \in todo : ch.path = p
        BY <1>3, <1>5, <2>2, DiffHas
      <3> QED
        BY Zenon, <3>1 DEF Arrives
    <2> QED
      BY Zenon, <2>1, <2>2
  <1> HIDE DEF todo
  <1>6. Len(q) >= Len(q)
    BY <1>1
  <1>7. StreamOK(q, Len(q), "stream", todo, v, w)
    BY Zenon, <1>6, <1>2, <1>4, <1>5 DEF StreamOK
  <1> QED
    BY Zenon, <1>7 DEF todo, v, w

\* CliTree, CliApply: a message before the stream is read.
LEMMA StreamTail ==
  ASSUME NEW q, NEW k \in Nat, k > 0, NEW sp, NEW todo, NEW v, NEW w,
         StreamOK(q, k, sp, todo, v, w)
  PROVE  q # <<>> /\ StreamOK(Tail(q), k - 1, sp, todo, v, w)
  <1>1. IsQueue(q) /\ Len(q) \in Nat /\ Len(q) >= k /\ q # <<>>
    BY QueueLen DEF StreamOK
  <1> DEFINE r == Tail(q)
  <1>2. /\ IsQueue(r) /\ Len(r) = Len(q) - 1
        /\ \A i \in 1 .. Len(q) - 1 : r[i] = q[i + 1]
    BY Zenon, <1>1, Rest
  <1> HIDE DEF r
  <1>3. ASSUME NEW i \in (k - 1) + 1 .. Len(r)
        PROVE  i + 1 \in k + 1 .. Len(q) /\ r[i] = q[i + 1]
    BY <1>1, <1>2
  <1>4. InStream(r, k - 1, sp, v)
    <2> SUFFICES ASSUME NEW i \in (k - 1) + 1 .. Len(r)
                 PROVE  IF sp = "live" /\ i = Len(r) THEN r[i] = Ack ELSE IsContent(r[i], v)
      BY Zenon DEF InStream
    <2>1. i + 1 \in k + 1 .. Len(q) /\ r[i] = q[i + 1] /\ (i = Len(r) <=> i + 1 = Len(q))
      BY <1>1, <1>2, <1>3
    <2>2. IF sp = "live" /\ i + 1 = Len(q) THEN q[i + 1] = Ack ELSE IsContent(q[i + 1], v)
      BY Zenon, <2>1 DEF StreamOK, InStream
    <2> QED
      BY Zenon, <2>1, <2>2
  <1>5. ASSUME NEW p \in DOMAIN v, v[p].type = "file" PROVE Arrives(p, r, k - 1, todo, v, w)
    <2>1. Arrives(p, q, k, todo, v, w)
      BY Zenon, <1>5 DEF StreamOK
    <2>2. CASE \E i \in k + 1 .. Len(q) : q[i] = FileData(p, v[p].data)
      <3>1. PICK i \in k + 1 .. Len(q) : q[i] = FileData(p, v[p].data)
        BY Zenon, <2>2
      <3>2. i - 1 \in (k - 1) + 1 .. Len(r) /\ r[i - 1] = q[i]
        BY <1>1, <1>2
      <3> QED
        BY Zenon, <3>1, <3>2 DEF Arrives
    <2> QED
      BY Zenon, <2>1, <2>2 DEF Arrives
  <1>6. Len(r) >= k - 1 /\ (sp = "live" => Len(r) > k - 1 /\ todo = {})
    BY <1>1, <1>2 DEF StreamOK
  <1>7. StreamOK(r, k - 1, sp, todo, v, w)
    BY Zenon, <1>2, <1>4, <1>5, <1>6 DEF StreamOK
  <1> QED
    BY Zenon, <1>1, <1>7 DEF r

\* CliApply: applying the operations keeps what has arrived.
LEMMA StreamGrown ==
  ASSUME NEW q, NEW k, NEW sp, NEW todo, NEW v, NEW w, NEW w2,
         StreamOK(q, k, sp, todo, v, w), Grown(w, w2, v)
  PROVE  StreamOK(q, k, sp, todo, v, w2)
  <1>1. ASSUME NEW p \in DOMAIN v, v[p].type = "file" PROVE Arrives(p, q, k, todo, v, w2)
    <2>1. Arrives(p, q, k, todo, v, w)
      BY Zenon, <1>1 DEF StreamOK
    <2>2. p \in DOMAIN w /\ w[p].data = v[p].data => p \in DOMAIN w2 /\ w2[p].data = v[p].data
      BY Zenon DEF Grown
    <2> QED
      BY Zenon, <2>1, <2>2 DEF Arrives
  <1> QED
    BY Zenon, <1>1 DEF StreamOK

\* CliData: the content of a file is written.
LEMMA StreamData ==
  ASSUME NEW q, NEW sp, NEW todo, NEW v, NEW w, q # <<>>,
         StreamOK(q, 0, sp, todo, v, w), Head(q) # Ack
  PROVE  \E p \in DOMAIN v :
           /\ v[p].type = "file" /\ Head(q) = FileData(p, v[p].data)
           /\ StreamOK(Tail(q), 0, sp, todo, v, TreeSet(w, p, Item("file", v[p].data)))
  <1>1. /\ IsQueue(q) /\ Len(q) \in Nat /\ Len(q) > 0 /\ Head(q) = q[1]
        /\ IsQueue(Tail(q)) /\ Len(Tail(q)) = Len(q) - 1
        /\ \A i \in 1 .. Len(q) - 1 : Tail(q)[i] = q[i + 1]
    BY Zenon, Rest DEF StreamOK
  <1>2. IF sp = "live" /\ 1 = Len(q) THEN q[1] = Ack ELSE IsContent(q[1], v)
    <2>1. 1 \in 0 + 1 .. Len(q)
      BY <1>1
    <2> QED
      BY Zenon, <2>1 DEF StreamOK, InStream
  <1>3. PICK p \in DOMAIN v : v[p].type = "file" /\ q[1] = FileData(p, v[p].data)
    BY Zenon, <1>1, <1>2 DEF IsContent
  <1> DEFINE r == Tail(q)
             w2 == TreeSet(w, p, Item("file", v[p].data))
  <1>4. /\ p \in DOMAIN w2 /\ w2[p].data = v[p].data
        /\ \A x \in DOMAIN w : x # p => x \in DOMAIN w2 /\ w2[x] = w[x]
    BY Zenon DEF TreeSet, Item
  <1> HIDE DEF r, w2
  <1>5. InStream(r, 0, sp, v)
    <2> SUFFICES ASSUME NEW i \in 0 + 1 .. Len(r)
                 PROVE  IF sp = "live" /\ i = Len(r) THEN r[i] = Ack ELSE IsContent(r[i], v)
      BY Zenon DEF InStream
    <2>1. i + 1 \in 0 + 1 .. Len(q) /\ r[i] = q[i + 1] /\ (i = Len(r) <=> i + 1 = Len(q))
      BY <1>1 DEF r
    <2>2. IF sp = "live" /\ i + 1 = Len(q) THEN q[i + 1] = Ack ELSE IsContent(q[i + 1], v)
      BY Zenon, <2>1 DEF StreamOK, InStream
    <2> QED
      BY Zenon, <2>1, <2>2
  <1>6. ASSUME NEW x \in DOMAIN v, v[x].type = "file" PROVE Arrives(x, r, 0, todo, v, w2)
    <2>1. Arrives(x, q, 0, todo, v, w)
      BY Zenon, <1>6 DEF StreamOK
    <2>2. CASE x = p
      BY Zenon, <1>4, <2>2 DEF Arrives
    <2>3. CASE x # p /\ \E i \in 0 + 1 .. Len(q) : q[i] = FileData(x, v[x].data)
      <3>1. PICK i \in 0 + 1 .. Len(q) : q[i] = FileData(x, v[x].data)
        BY Zenon, <2>3
      <3>2. i # 1
        BY <1>3, <2>3, <3>1 DEF FileData
      <3>3. i - 1 \in 0 + 1 .. Len(r) /\ r[i - 1] = q[i]
        BY <1>1, <3>2 DEF r
      <3> QED
        BY Zenon, <3>1, <3>3 DEF Arrives
    <2> QED
      BY Zenon, <1>4, <2>1, <2>2, <2>3 DEF Arrives
  <1>7. sp = "live" => Len(q) # 1
    BY <1>2, <1>3, IsFileData
  <1>8. Len(r) >= 0 /\ (sp = "live" => Len(r) > 0 /\ todo = {})
    BY <1>1, <1>7 DEF StreamOK, r
  <1>9. StreamOK(r, 0, sp, todo, v, w2)
    BY Zenon, <1>1, <1>5, <1>6, <1>8 DEF StreamOK, r
  <1> QED
    BY Zenon, <1>1, <1>3, <1>9 DEF r, w2

\* CliData: when the ACK is read, all files are there.
LEMMA StreamEnd ==
  ASSUME NEW q, NEW sp, NEW todo, NEW v, NEW w, q # <<>>,
         StreamOK(q, 0, sp, todo, v, w), Head(q) = Ack
  PROVE  /\ sp = "live" /\ IsQueue(Tail(q)) /\ Len(Tail(q)) = 0
         /\ \A p \in DOMAIN v : v[p].type = "file" => p \in DOMAIN w /\ w[p].data = v[p].data
  <1>1. /\ IsQueue(q) /\ Len(q) \in Nat /\ Len(q) > 0 /\ Head(q) = q[1]
        /\ IsQueue(Tail(q)) /\ Len(Tail(q)) = Len(q) - 1
    BY Zenon, Rest DEF StreamOK
  <1>2. IF sp = "live" /\ 1 = Len(q) THEN q[1] = Ack ELSE IsContent(q[1], v)
    <2>1. 1 \in 0 + 1 .. Len(q)
      BY <1>1
    <2> QED
      BY Zenon, <2>1 DEF StreamOK, InStream
  <1>3. sp = "live" /\ Len(q) = 1
    BY <1>1, <1>2, IsFileData DEF IsContent
  <1>4. todo = {}
    BY Zenon, <1>3 DEF StreamOK
  <1>5. ASSUME NEW p \in DOMAIN v, v[p].type = "file" PROVE p \in DOMAIN w /\ w[p].data = v[p].data
    <2>1. Arrives(p, q, 0, todo, v, w)
      BY Zenon, <1>5 DEF StreamOK
    <2>2. \A i \in 0 + 1 .. Len(q) : q[i] # FileData(p, v[p].data)
      BY SMTT(30), <1>1, <1>3 DEF Ack, FileData
    <2> QED
      BY Zenon, <1>4, <2>1, <2>2 DEF Arrives
  <1> QED
    BY <1>1, <1>3, <1>5

-----------------------------------------------------------------------------
(* The client's files on their way to the server: r are the messages under *)
(* way, todo the changes still to be sent.                                 *)

Creates(m, p) == m.type = "FILE_CREATE" /\ m.path = p

\* A creation is followed by the content of the file, and is the only one.
IsCreate(i, r, v, w) ==
  /\ r[i].type = "FILE_CREATE" /\ r[i].entry.type = w[r[i].path].type
  /\ r[i].path \notin DOMAIN v
  /\ w[r[i].path].type = "file" =>
       i + 1 \in 1 .. Len(r) /\ r[i + 1] = FileData(r[i].path, w[r[i].path].data)
  /\ \A j \in 1 .. Len(r) : Creates(r[j], r[i].path) => j = i

IsModify(i, r, v) == r[i].type = "FILE_MODIFY" /\ r[i].path \in DOMAIN v

\* Content is written to a file that is there by then.
IsData(i, r, v, w) ==
  /\ r[i] = FileData(r[i].path, w[r[i].path].data) /\ w[r[i].path].type = "file"
  /\ r[i].path \in DOMAIN v \/ (i - 1 \in 1 .. Len(r) /\ Creates(r[i - 1], r[i].path))

Upload(i, r, v, w) ==
  /\ r[i].path \in DOMAIN w
  /\ IsCreate(i, r, v, w) \/ IsModify(i, r, v) \/ IsData(i, r, v, w)

ToUpload(ch, r, todo, v, w) ==
  /\ ch.path \in DOMAIN w /\ ch.entry.type = w[ch.path].type
  /\ \/ ch.type = "modify" /\ ch.path \in DOMAIN v
     \/ /\ ch.type = "create" /\ ch.path \notin DOMAIN v
        /\ \A i \in 1 .. Len(r) : ~Creates(r[i], ch.path)
  /\ \A other \in todo : other.path = ch.path => other = ch

\* A file on the server is as on the client, or new and its content next.
Settled(r, v, w) ==
  /\ DOMAIN v \subseteq DOMAIN w
  /\ \A p \in DOMAIN v :
       \/ v[p].data = w[p].data
       \/ v[p].data = <<>> /\ Len(r) > 0 /\ r[1] = FileData(p, w[p].data)

Announced(p, r, todo) ==
  \/ \E ch \in todo : ch.type = "create" /\ ch.path = p
  \/ \E i \in 1 .. Len(r) : Creates(r[i], p)

UploadOK(r, todo, v, w) ==
  /\ IsQueue(r) /\ Settled(r, v, w)
  /\ \A p \in DOMAIN w \ DOMAIN v : Announced(p, r, todo)
  /\ \A ch \in todo : ToUpload(ch, r, todo, v, w)
  /\ \A i \in 1 .. Len(r) : Upload(i, r, v, w)

\* CliData: when the server's files are there, the client's are to be sent.
LEMMA UploadStart ==
  ASSUME NEW d, NEW e, IsDir(d), IsDir(e), SameTypes(e, d), DOMAIN e \subseteq DOMAIN d,
         \A p \in DOMAIN View(e) : View(e)[p].type = "file" => View(d)[p].data = View(e)[p].data
  PROVE  UploadOK(<<>>, DiffInitial(WalkDirectory(d), WalkDirectory(e)), View(e), View(d))
  <1> DEFINE todo == DiffInitial(WalkDirectory(d), WalkDirectory(e))
             v == View(e)
             w == View(d)
  <1>1. /\ DOMAIN v = DOMAIN e /\ DOMAIN w = DOMAIN d
        /\ \A p \in DOMAIN e : v[p].type = e[p].type /\ v[p].data = e[p].data /\ IsItem(v[p])
        /\ \A p \in DOMAIN d : w[p].type = d[p].type /\ w[p].data = d[p].data /\ IsItem(w[p])
    BY Zenon, Seen
  <1>2. \A p \in DOMAIN e : v[p].type = w[p].type
    BY Zenon, <1>1 DEF SameTypes
  <1>3. \A p \in DOMAIN e : v[p].data = w[p].data
    BY Zenon, <1>1, <1>2 DEF IsItem
  <1>4. ASSUME NEW ch \in todo
        PROVE  /\ ch.path \in DOMAIN w /\ ch.entry.type = w[ch.path].type
               /\ \/ ch.type = "create" /\ ch.path \notin DOMAIN v
                  \/ ch.type = "modify" /\ ch.path \in DOMAIN v
               /\ \A other \in todo : other.path = ch.path => other = ch
    <2>1. /\ ch.path \in DOMAIN d /\ ch.entry.type = d[ch.path].type
          /\ \/ ch.type = "create" /\ ch.path \notin DOMAIN e
             \/ ch.type = "modify" /\ ch.path \in DOMAIN e
          /\ \A other \in todo : other.path = ch.path => other = ch
      BY Zenon, DiffOf
    <2> HIDE DEF todo, v, w
    <2> QED
      BY Zenon, <1>1, <2>1
  <1>5. ASSUME NEW p \in DOMAIN w \ DOMAIN v PROVE Announced(p, <<>>, todo)
    <2>1. p \in DOMAIN d /\ p \notin DOMAIN e
      BY Zenon, <1>1
    <2>2. \E ch \in todo : ch.path = p /\ ch.type = "create"
      BY <2>1, DiffCreates
    <2> HIDE DEF todo
    <2> QED
      BY Zenon, <2>1, <2>2 DEF Announced
  <1>6. IsQueue(<<>>) /\ Len(<<>>) = 0
    BY Zenon, Short
  <1> HIDE DEF todo, v, w
  <1>7. ASSUME NEW ch \in todo PROVE ToUpload(ch, <<>>, todo, v, w)
    BY <1>4, <1>6 DEF ToUpload
  <1>8. Settled(<<>>, v, w)
    BY Zenon, <1>1, <1>3 DEF Settled
  <1>9. UploadOK(<<>>, todo, v, w)
    BY <1>5, <1>6, <1>7, <1>8 DEF UploadOK
  <1> QED
    BY Zenon, <1>9 DEF todo, v, w

\* The server has read a message and it has had its effect on the paths.
LEMMA UploadTail ==
  ASSUME NEW r, NEW todo, NEW v, NEW w, NEW v2, r # <<>>, UploadOK(r, todo, v, w),
         Settled(Tail(r), v2, w),
         DOMAIN v2 = IF r[1].type = "FILE_CREATE" THEN DOMAIN v \cup {r[1].path} ELSE DOMAIN v
  PROVE  UploadOK(Tail(r), todo, v2, w)
  <1> DEFINE s == Tail(r)
  <1>1. /\ IsQueue(r) /\ Len(r) \in Nat /\ Len(r) > 0
        /\ IsQueue(s) /\ Len(s) = Len(r) - 1
        /\ \A i \in 1 .. Len(r) - 1 : s[i] = r[i + 1]
    BY Zenon, Rest DEF UploadOK
  <1> HIDE DEF s
  <1>2. ASSUME NEW i \in 1 .. Len(s) PROVE i + 1 \in 1 .. Len(r) /\ s[i] = r[i + 1]
    BY <1>1
  <1>3. ASSUME NEW i \in 1 .. Len(r), i # 1 PROVE i - 1 \in 1 .. Len(s) /\ s[i - 1] = r[i]
    <2>1. i - 1 \in 1 .. Len(r) - 1 /\ (i - 1) + 1 = i
      BY SMTT(30), <1>1, <1>3
    <2> QED
      BY Zenon, <1>1, <2>1
  <1>4. \A x \in DOMAIN v2 : x \in DOMAIN v \/ Creates(r[1], x)
    <2>1. CASE r[1].type = "FILE_CREATE"
      BY <2>1 DEF Creates
    <2>2. CASE r[1].type # "FILE_CREATE"
      BY Zenon, <2>2
    <2> QED
      BY Zenon, <2>1, <2>2
  <1>5. \A x : Creates(r[1], x) => x \in DOMAIN v2
    BY Zenon DEF Creates
  <1>6. DOMAIN v \subseteq DOMAIN v2
    BY Zenon
  <1>7. ASSUME NEW p \in DOMAIN w \ DOMAIN v2 PROVE Announced(p, s, todo)
    <2>1. Announced(p, r, todo)
      BY Zenon, <1>6 DEF UploadOK
    <2>2. CASE \E i \in 1 .. Len(r) : Creates(r[i], p)
      <3>1. PICK i \in 1 .. Len(r) : Creates(r[i], p)
        BY Zenon, <2>2
      <3>2. i # 1
        BY Zenon, <1>5, <3>1
      <3> QED
        BY Zenon, <1>3, <3>1, <3>2 DEF Announced
    <2> QED
      BY Zenon, <2>1, <2>2 DEF Announced
  <1>8. ASSUME NEW ch \in todo PROVE ToUpload(ch, s, todo, v2, w)
    <2>1. ToUpload(ch, r, todo, v, w)
      BY Zenon DEF UploadOK
    <2>2. CASE ch.type = "modify" /\ ch.path \in DOMAIN v
      BY Zenon, <1>6, <2>1, <2>2 DEF ToUpload
    <2>3. CASE /\ ch.type = "create" /\ ch.path \notin DOMAIN v
               /\ \A i \in 1 .. Len(r) : ~Creates(r[i], ch.path)
      <3>1. 1 \in 1 .. Len(r)
        BY <1>1
      <3>2. ch.path \notin DOMAIN v2
        BY Zenon, <1>4, <2>3, <3>1
      <3>3. \A i \in 1 .. Len(s) : ~Creates(s[i], ch.path)
        BY Zenon, <1>2, <2>3
      <3> QED
        BY Zenon, <2>1, <2>3, <3>2, <3>3 DEF ToUpload
    <2> QED
      BY Zenon, <2>1, <2>2, <2>3 DEF ToUpload
  <1>9. ASSUME NEW i \in 1 .. Len(s) PROVE Upload(i, s, v2, w)
    <2>1. i + 1 \in 1 .. Len(r) /\ s[i] = r[i + 1] /\ i + 1 # 1 /\ i \in Nat /\ 1 \in 1 .. Len(r)
      BY SMTT(30), <1>1, <1>2
    <2>2. Upload(i + 1, r, v, w)
      BY Zenon, <2>1 DEF UploadOK
    <2> DEFINE p == r[i + 1].path
    <2>3. CASE IsCreate(i + 1, r, v, w)
      <3>1. Creates(r[i + 1], p)
        BY Zenon, <2>3 DEF IsCreate, Creates
      <3>2. ~Creates(r[1], p)
        BY Zenon, <2>1, <2>3 DEF IsCreate
      <3>3. p \notin DOMAIN v2
        BY Zenon, <1>4, <2>3, <3>2 DEF IsCreate
      <3>4. ASSUME NEW j \in 1 .. Len(s), Creates(s[j], p) PROVE j = i
        <4>1. j + 1 \in 1 .. Len(r) /\ Creates(r[j + 1], p)
          BY Zenon, <1>2, <3>4
        <4>2. j + 1 = i + 1
          BY Zenon, <2>3, <4>1 DEF IsCreate
        <4> QED
          BY SMTT(30), <2>1, <4>2
      <3>5. ASSUME w[p].type = "file"
            PROVE  i + 1 \in 1 .. Len(s) /\ s[i + 1] = FileData(p, w[p].data)
        <4>1. (i + 1) + 1 \in 1 .. Len(r) /\ r[(i + 1) + 1] = FileData(p, w[p].data)
          BY Zenon, <2>3, <3>5 DEF IsCreate
        <4>2. i + 1 \in 1 .. Len(s)
          BY SMTT(30), <1>1, <2>1, <4>1
        <4> QED
          BY Zenon, <1>2, <4>1, <4>2
      <3>6. IsCreate(i, s, v2, w)
        BY Zenon, <2>1, <2>3, <3>3, <3>4, <3>5 DEF IsCreate
      <3> QED
        BY Zenon, <2>1, <2>2, <3>6 DEF Upload
    <2>4. CASE IsModify(i + 1, r, v)
      BY Zenon, <1>6, <2>1, <2>2, <2>4 DEF Upload, IsModify
    <2>5. CASE IsData(i + 1, r, v, w)
      <3>1. p \in DOMAIN v \/ Creates(r[i], p)
        <4>1. (i + 1) - 1 = i
          BY SMTT(30), <2>1
        <4> QED
          BY Zenon, <2>5, <4>1 DEF IsData
      <3>2. CASE i = 1 \/ p \in DOMAIN v
        <4>1. p \in DOMAIN v2
          BY Zenon, <1>5, <1>6, <3>1, <3>2
        <4> QED
          BY Zenon, <2>1, <2>2, <2>5, <4>1 DEF Upload, IsData
      <3>3. CASE i # 1 /\ Creates(r[i], p)
        <4>1. i \in 1 .. Len(r)
          BY <1>1, <2>1
        <4>2. i - 1 \in 1 .. Len(s) /\ Creates(s[i - 1], p)
          BY Zenon, <1>3, <3>3, <4>1
        <4> QED
          BY Zenon, <2>1, <2>2, <2>5, <4>2 DEF Upload, IsData
      <3> QED
        BY Zenon, <3>1, <3>2, <3>3
    <2> QED
      BY Zenon, <2>2, <2>3, <2>4, <2>5 DEF Upload
  <1>10. Settled(s, v2, w)
    BY Zenon DEF s
  <1>11. UploadOK(s, todo, v2, w)
    BY Zenon, <1>1, <1>7, <1>8, <1>9, <1>10 DEF UploadOK
  <1> QED
    BY Zenon, <1>11 DEF s

\* CliUpload: a change is replaced by its messages.
LEMMA UploadSend ==
  ASSUME NEW r, NEW todo, NEW v, NEW w, NEW d, w = View(d), IsDir(d),
         UploadOK(r, todo, v, w), NEW ch \in todo,
         NEW first,
         first = IF ch.type = "create" THEN FileCreate(ch.entry, ch.path)
                                       ELSE FileModify(ch.entry, ch.path)
  PROVE  UploadOK(r \o (<<first>> \o Content(d, ch.path, ch.entry)), todo \ {ch}, v, w)
  <1> DEFINE p == ch.path
             ms == <<first>> \o Content(d, p, ch.entry)
             r2 == r \o ms
             m == FileData(p, w[p].data)
  <1>0. IsQueue(r)
    BY Zenon DEF UploadOK
<1>1. IsQueue(r) /\ Len(r) \in Nat /\ ToUpload(ch, r, todo, v, w)
    BY Zenon, QueueLen DEF UploadOK
  <1>2. p \in DOMAIN w /\ ch.entry.type = w[p].type /\ DOMAIN w = DOMAIN d
        /\ w[p].type = d[p].type /\ w[p].data = d[p].data
    BY SMTT(30), <1>1, Seen DEF ToUpload
  <1>3. /\ IsQueue(r2) /\ Len(r2) = Len(r) + (IF w[p].type = "file" THEN 2 ELSE 1)
        /\ \A i \in 1 .. Len(r) : r2[i] = r[i]
        /\ r2[Len(r) + 1] = first
        /\ w[p].type = "file" => r2[Len(r) + 2] = m
    <2>1. CASE w[p].type = "file"
      <3>1. Content(d, p, ch.entry) = <<m>>
        BY Zenon, <1>2, <2>1 DEF Content, Readable
      <3>2. ms = <<first>> \o <<m>>
        BY Zenon, <3>1
      <3> HIDE DEF m, ms
      <3>3. ms = <<first, m>>
        BY ZenonT(30), <3>2, Short
      <3> HIDE DEF r2
      <3>4. /\ IsQueue(r2) /\ Len(r2) = Len(r) + 2
            /\ \A i \in 1 .. Len(r) : r2[i] = r[i]
            /\ r2[Len(r) + 1] = first /\ r2[Len(r) + 2] = m
        <4>1. IsQueue(ms) /\ Len(ms) = 2 /\ ms[1] = first /\ ms[2] = m
          BY Zenon, <3>3, Short
        <4>2. 1 \in 1 .. Len(ms) /\ 2 \in 1 .. Len(ms)
          BY <4>1
        <4>3. /\ IsQueue(r2) /\ Len(r2) = Len(r) + Len(ms)
              /\ \A i \in 1 .. Len(r) : r2[i] = r[i]
              /\ \A i \in 1 .. Len(ms) : r2[Len(r) + i] = ms[i]
          <5>1. IsQueue(ms)
            BY Zenon, <4>1
          <5> QED
            BY ONLY <1>0, <5>1, Joined DEF r2
        <4> QED
          BY Zenon, <4>1, <4>2, <4>3
      <3> QED
        BY Zenon, <2>1, <3>4
    <2>2. CASE w[p].type # "file"
      <3>1. Content(d, p, ch.entry) = <<>>
        BY Zenon, <1>2, <2>2 DEF Content
      <3>2. ms = <<first>>
        BY Zenon, <3>1, Short
      <3> HIDE DEF m, ms, r2
      <3>4. /\ IsQueue(r2) /\ Len(r2) = Len(r) + 1
            /\ \A i \in 1 .. Len(r) : r2[i] = r[i]
            /\ r2[Len(r) + 1] = first
        BY SMTT(30), <1>0, <3>2, Added DEF r2
      <3> QED
        BY Zenon, <2>2, <3>4
    <2> QED
      BY Zenon, <2>1, <2>2
  <1>4. /\ ~Creates(m, p) /\ \A x : ~Creates(m, x)
        /\ m.path = p
    BY Zenon, IsFileData DEF Creates
  <1>5. /\ first.path = p
        /\ first.type = IF ch.type = "create" THEN "FILE_CREATE" ELSE "FILE_MODIFY"
        /\ first.type = "FILE_CREATE" => first.entry = ch.entry
    BY Zenon DEF FileCreate, FileModify
  <1> HIDE DEF r2, ms, m
  <1>6. ASSUME NEW i \in 1 .. Len(r2)
        PROVE  \/ i \in 1 .. Len(r) /\ r2[i] = r[i]
               \/ i = Len(r) + 1 /\ r2[i] = first
               \/ i = Len(r) + 2 /\ r2[i] = m /\ w[p].type = "file"
    BY SMTT(30), <1>1, <1>3
  <1>7. /\ \A i \in 1 .. Len(r) : i \in 1 .. Len(r2)
        /\ Len(r) + 1 \in 1 .. Len(r2)
        /\ w[p].type = "file" => Len(r) + 2 \in 1 .. Len(r2)
    BY SMTT(30), <1>1, <1>3
  <1>8. ch.type \in {"create", "modify"} /\ (ch.type = "modify" <=> p \in DOMAIN v)
    BY Zenon, <1>1 DEF ToUpload
  <1>9. Settled(r2, v, w)
    <2>1. Settled(r, v, w)
      BY Zenon DEF UploadOK
    <2>2. Len(r) > 0 => Len(r2) > 0 /\ r2[1] = r[1]
      BY SMTT(30), <1>1, <1>3
    <2> QED
      BY Zenon, <2>1, <2>2 DEF Settled
  <1>10. ASSUME NEW x \in DOMAIN w \ DOMAIN v PROVE Announced(x, r2, todo \ {ch})
    <2>1. Announced(x, r, todo)
      BY Zenon DEF UploadOK
    <2>2. CASE ch.type = "create" /\ ch.path = x
      <3>1. Creates(r2[Len(r) + 1], x)
        BY Zenon, <1>3, <1>5, <2>2 DEF Creates
      <3> QED
        BY Zenon, <1>7, <3>1 DEF Announced
    <2>3. CASE \E i \in 1 .. Len(r) : Creates(r[i], x)
      BY Zenon, <1>3, <1>7, <2>3 DEF Announced
    <2> QED
      BY Zenon, <2>1, <2>2, <2>3 DEF Announced
  <1>11. ASSUME NEW c \in todo \ {ch} PROVE ToUpload(c, r2, todo \ {ch}, v, w)
    <2>1. ToUpload(c, r, todo, v, w)
      BY Zenon DEF UploadOK
    <2>2. c.path # p
      BY Zenon, <1>1 DEF ToUpload
    <2>3. ASSUME NEW i \in 1 .. Len(r2), Creates(r2[i], c.path)
          PROVE  i \in 1 .. Len(r) /\ Creates(r[i], c.path)
      BY Zenon, <1>4, <1>5, <1>6, <2>2, <2>3 DEF Creates
    <2> QED
      BY Zenon, <2>1, <2>3 DEF ToUpload
  <1>12. ASSUME NEW i \in 1 .. Len(r) PROVE Upload(i, r2, v, w)
    <2>1. Upload(i, r, v, w) /\ r2[i] = r[i] /\ i \in Nat
      BY SMTT(30), <1>3 DEF UploadOK
    <2>2. CASE IsCreate(i, r, v, w)
      <3> DEFINE x == r[i].path
      <3>1. Creates(r[i], x)
        BY Zenon, <2>2 DEF IsCreate, Creates
      <3>2. ~Creates(first, x)
        <4>1. ch.type = "create" => \A j \in 1 .. Len(r) : ~Creates(r[j], p)
          BY Zenon, <1>1 DEF ToUpload
        <4> QED
          BY Zenon, <1>5, <3>1, <4>1 DEF Creates
      <3>3. ASSUME NEW j \in 1 .. Len(r2), Creates(r2[j], x) PROVE j = i
        <4>1. j \in 1 .. Len(r) /\ Creates(r[j], x)
          BY Zenon, <1>4, <1>6, <3>2, <3>3
        <4> QED
          BY Zenon, <2>2, <4>1 DEF IsCreate
      <3>4. w[x].type = "file" => i + 1 \in 1 .. Len(r2) /\ r2[i + 1] = FileData(x, w[x].data)
        BY Zenon, <1>3, <1>7, <2>2 DEF IsCreate
      <3>5. IsCreate(i, r2, v, w)
        BY Zenon, <2>1, <2>2, <3>3, <3>4 DEF IsCreate
      <3> QED
        BY Zenon, <2>1, <3>5 DEF Upload
    <2>3. CASE IsModify(i, r, v)
      BY Zenon, <2>1, <2>3 DEF Upload, IsModify
    <2>4. CASE IsData(i, r, v, w)
      <3>1. i - 1 \in 1 .. Len(r) => i - 1 \in 1 .. Len(r2) /\ r2[i - 1] = r[i - 1]
        BY Zenon, <1>3, <1>7
      <3>2. IsData(i, r2, v, w)
        BY Zenon, <2>1, <2>4, <3>1 DEF IsData
      <3> QED
        BY Zenon, <2>1, <3>2 DEF Upload
    <2> QED
      BY Zenon, <2>1, <2>2, <2>3, <2>4 DEF Upload
  <1>13. Upload(Len(r) + 1, r2, v, w)
    <2> DEFINE i == Len(r) + 1
    <2>1. r2[i] = first /\ i \in Nat /\ i + 1 = Len(r) + 2
      BY SMTT(30), <1>1, <1>3
    <2> HIDE DEF i
    <2>2. CASE ch.type = "modify"
      BY Zenon, <1>2, <1>5, <1>8, <2>1, <2>2 DEF i, Upload, IsModify
    <2>3. CASE ch.type = "create"
      <3>1. p \notin DOMAIN v /\ \A j \in 1 .. Len(r) : ~Creates(r[j], p)
        BY Zenon, <1>1, <2>3 DEF ToUpload
      <3>2. ASSUME NEW j \in 1 .. Len(r2), Creates(r2[j], p) PROVE j = i
        BY Zenon, <1>4, <1>6, <3>1, <3>2 DEF i
      <3>3. w[p].type = "file" => i + 1 \in 1 .. Len(r2) /\ r2[i + 1] = FileData(p, w[p].data)
        BY Zenon, <1>3, <1>7, <2>1 DEF m
      <3>4. IsCreate(i, r2, v, w)
        BY SMTT(30), <1>2, <1>5, <2>1, <2>3, <3>1, <3>2, <3>3 DEF IsCreate
      <3> QED
        BY Zenon, <1>2, <1>5, <2>1, <3>4 DEF Upload, i
    <2> QED
      BY Zenon, <1>8, <2>2, <2>3
  <1>14. ASSUME w[p].type = "file" PROVE Upload(Len(r) + 2, r2, v, w)
    <2> DEFINE i == Len(r) + 2
    <2>1. r2[i] = m /\ i - 1 = Len(r) + 1 /\ r2[i - 1] = first /\ i - 1 \in 1 .. Len(r2)
      BY SMTT(30), <1>1, <1>3, <1>7, <1>14
    <2> HIDE DEF i
    <2>2. p \in DOMAIN v \/ Creates(r2[i - 1], p)
      BY Zenon, <1>5, <1>8, <2>1 DEF Creates
    <2>3. IsData(i, r2, v, w)
      BY Zenon, <1>4, <1>14, <2>1, <2>2 DEF IsData, m
    <2> QED
      BY Zenon, <1>2, <1>4, <2>1, <2>3 DEF Upload, i
  <1>15. ASSUME NEW i \in 1 .. Len(r2) PROVE Upload(i, r2, v, w)
    BY Zenon, <1>6, <1>12, <1>13, <1>14
  <1>16. UploadOK(r2, todo \ {ch}, v, w)
    BY Zenon, <1>3, <1>9, <1>10, <1>11, <1>15 DEF UploadOK
  <1> QED
    BY Zenon, <1>16 DEF r2, ms

\* What the next message to the server can be.
LEMMA NextUpload ==
  ASSUME NEW r, NEW todo, NEW v, NEW w, r # <<>>, UploadOK(r, todo, v, w)
  PROVE  /\ Len(r) \in Nat /\ 1 \in 1 .. Len(r) /\ Head(r) = r[1]
         /\ Len(Tail(r)) = Len(r) - 1
         /\ \A i \in 1 .. Len(r) - 1 : Tail(r)[i] = r[i + 1]
         /\ r[1].path \in DOMAIN w
         /\ IsCreate(1, r, v, w) \/ IsModify(1, r, v) \/ IsData(1, r, v, w)
         /\ IsData(1, r, v, w) => r[1].path \in DOMAIN v
  <1>1. /\ IsQueue(r) /\ Len(r) \in Nat /\ Len(r) > 0 /\ Head(r) = r[1]
        /\ Len(Tail(r)) = Len(r) - 1 /\ \A i \in 1 .. Len(r) - 1 : Tail(r)[i] = r[i + 1]
    BY Zenon, Rest DEF UploadOK
  <1>2. 1 \in 1 .. Len(r)
    BY SMTT(30), <1>1
  <1>3. Upload(1, r, v, w)
    BY Zenon, <1>2 DEF UploadOK
  <1>4. 1 - 1 \notin 1 .. Len(r)
    BY <1>1
  <1>5. IsData(1, r, v, w) => r[1].path \in DOMAIN v
    BY Zenon, <1>4 DEF IsData
  <1> QED
    BY Zenon, <1>1, <1>2, <1>3, <1>5 DEF Upload

\* SrvFileCreate: the file appears, empty, or the directory.
LEMMA UploadCreated ==
  ASSUME NEW r, NEW todo, NEW v, NEW w, r # <<>>, UploadOK(r, todo, v, w),
         r[1].type = "FILE_CREATE", \A p \in DOMAIN w : IsItem(w[p])
  PROVE  LET p == r[1].path
         IN  /\ p \in DOMAIN w \ DOMAIN v /\ r[1].entry.type = w[p].type
             /\ UploadOK(Tail(r), todo, TreeSet(v, p, Item(w[p].type, <<>>)), w)
  <1> DEFINE p == r[1].path
             v2 == TreeSet(v, p, Item(w[p].type, <<>>))
  <1>1. /\ Len(r) \in Nat /\ Len(Tail(r)) = Len(r) - 1
        /\ \A i \in 1 .. Len(r) - 1 : Tail(r)[i] = r[i + 1]
        /\ p \in DOMAIN w
        /\ IsCreate(1, r, v, w) \/ IsModify(1, r, v) \/ IsData(1, r, v, w)
    BY Zenon, NextUpload
  <1>2. IsCreate(1, r, v, w)
    BY SMTT(30), <1>1, IsFileData DEF IsModify, IsData
  <1>3. p \in DOMAIN w \ DOMAIN v /\ r[1].entry.type = w[p].type
    BY Zenon, <1>1, <1>2 DEF IsCreate
  <1>4. /\ DOMAIN v2 = DOMAIN v \cup {p} /\ v2[p].data = <<>>
        /\ \A x \in DOMAIN v : x # p => v2[x] = v[x]
    BY Zenon DEF TreeSet, Item
  <1>5. \A x \in DOMAIN v : v[x].data = w[x].data
    BY SMTT(30), IsFileData DEF UploadOK, Settled
  <1>6. \/ w[p].data = <<>>
        \/ Len(Tail(r)) > 0 /\ Tail(r)[1] = FileData(p, w[p].data)
    <2>1. CASE w[p].type = "file"
      <3>1. 1 + 1 \in 1 .. Len(r) /\ r[1 + 1] = FileData(p, w[p].data)
        BY Zenon, <1>2, <2>1 DEF IsCreate
      <3>2. 1 \in 1 .. Len(r) - 1
        BY SMTT(30), <1>1, <3>1
      <3> QED
        BY <1>1, <3>1, <3>2
    <2>2. CASE w[p].type # "file"
      BY Zenon, <1>1, <2>2 DEF IsItem
    <2> QED
      BY Zenon, <2>1, <2>2
  <1> HIDE DEF v2, p
  <1>7. Settled(Tail(r), v2, w)
    <2>1. DOMAIN v2 \subseteq DOMAIN w
      BY Zenon, <1>3, <1>4 DEF UploadOK, Settled
    <2>2. ASSUME NEW x \in DOMAIN v2
          PROVE  \/ v2[x].data = w[x].data
                 \/ v2[x].data = <<>> /\ Len(Tail(r)) > 0 /\ Tail(r)[1] = FileData(x, w[x].data)
      BY Zenon, <1>4, <1>5, <1>6
    <2> QED
      BY Zenon, <2>1, <2>2 DEF Settled
  <1>8. UploadOK(Tail(r), todo, v2, w)
    BY Zenon, <1>4, <1>7, UploadTail DEF p
  <1> QED
    BY Zenon, <1>3, <1>8 DEF v2, p

\* SrvFileModify: nothing changes but attributes.
LEMMA UploadModified ==
  ASSUME NEW r, NEW todo, NEW v, NEW w, r # <<>>, UploadOK(r, todo, v, w),
         r[1].type = "FILE_MODIFY"
  PROVE  r[1].path \in DOMAIN v /\ UploadOK(Tail(r), todo, v, w)
  <1>1. IsCreate(1, r, v, w) \/ IsModify(1, r, v) \/ IsData(1, r, v, w)
    BY Zenon, NextUpload
  <1>2. r[1].path \in DOMAIN v
    BY SMTT(30), <1>1, IsFileData DEF IsCreate, IsModify, IsData
  <1>3. \A x \in DOMAIN v : v[x].data = w[x].data
    BY SMTT(30), IsFileData DEF UploadOK, Settled
  <1>4. Settled(Tail(r), v, w)
    BY Zenon, <1>3 DEF UploadOK, Settled
  <1> QED
    BY Zenon, <1>2, <1>4, UploadTail

\* SrvFileData: the file has the client's content.
LEMMA UploadWritten ==
  ASSUME NEW r, NEW todo, NEW v, NEW w, r # <<>>, UploadOK(r, todo, v, w),
         r[1].type = "FILE_DATA"
  PROVE  LET p == r[1].path
         IN  /\ p \in DOMAIN v /\ p \in DOMAIN w /\ w[p].type = "file"
             /\ r[1].data = w[p].data
             /\ v[p].data = <<>> \/ v[p].data = w[p].data
             /\ UploadOK(Tail(r), todo, TreeSet(v, p, Item("file", w[p].data)), w)
  <1> DEFINE p == r[1].path
             v2 == TreeSet(v, p, Item("file", w[p].data))
  <1>1. /\ p \in DOMAIN w
        /\ IsCreate(1, r, v, w) \/ IsModify(1, r, v) \/ IsData(1, r, v, w)
        /\ IsData(1, r, v, w) => p \in DOMAIN v
    BY Zenon, NextUpload
  <1>2. IsData(1, r, v, w)
    BY Zenon, <1>1 DEF IsCreate, IsModify
  <1>3. p \in DOMAIN v /\ p \in DOMAIN w /\ w[p].type = "file" /\ r[1] = FileData(p, w[p].data)
    BY Zenon, <1>1, <1>2 DEF IsData
  <1>4. r[1].data = w[p].data
    BY SMTT(30), <1>3, IsFileData
  <1>5. /\ DOMAIN v2 = DOMAIN v /\ v2[p].data = w[p].data
        /\ \A x \in DOMAIN v : x # p => v2[x] = v[x]
    BY Zenon, <1>3 DEF TreeSet, Item
  <1>6. \A x \in DOMAIN v : x # p => v[x].data = w[x].data
    BY SMTT(30), <1>3, IsFileData DEF UploadOK, Settled
  <1>7. v[p].data = <<>> \/ v[p].data = w[p].data
    BY Zenon, <1>3 DEF UploadOK, Settled
  <1> HIDE DEF v2
  <1>8. Settled(Tail(r), v2, w)
    BY Zenon, <1>5, <1>6 DEF UploadOK, Settled
  <1>9. UploadOK(Tail(r), todo, v2, w)
    BY Zenon, <1>5, <1>8, UploadTail
  <1> QED
    BY Zenon, <1>3, <1>4, <1>7, <1>9 DEF v2

-----------------------------------------------------------------------------
(* The inductive invariant.                                                *)

Domains ==
  /\ DOMAIN disk = Hosts /\ DOMAIN eng = Hosts /\ DOMAIN saved = Hosts
  /\ DOMAIN pend = Hosts /\ DOMAIN pend[Server] = Paths
  /\ DOMAIN s2c = Sessions /\ DOMAIN c2s = Sessions /\ DOMAIN conn = Sessions
  /\ DOMAIN sphase = Sessions /\ DOMAIN stodo = Sessions
  /\ DOMAIN cphase = Clients /\ DOMAIN csess = Clients /\ DOMAIN ctodo = Clients
  /\ DOMAIN spent = DOMAIN Limit

\* Nothing interferes: no bound is used up but that of the connections, nothing
\* has been saved, the client's monitor has seen nothing.
Quiet(c) ==
  /\ \A h \in Hosts : saved[h] = NoFile
  /\ \A p \in Paths : pend[c][p] = {}
  /\ \A k \in {"edit", "drop", "tick", "crash", "stop"} : spent[k] = 0
  /\ \A s \in Sessions : conn[s] # "closed" /\ (s # 1 => sphase[s] = "none")

\* How far the server and the client can be apart.
Together(sp, cp) ==
  \/ sp = "none" /\ cp \in {"start", "dial"}
  \/ sp \in {"new", "hello"} /\ cp = "ack"
  \/ sp = "init" /\ cp \in {"ack", "tree"}
  \/ sp = "tree" /\ cp \in {"ack", "tree", "apply"}
  \/ sp = "diff" /\ cp \in {"tree", "apply"}
  \/ sp = "stream" /\ cp \in {"tree", "apply", "data"}
  \/ sp = "live" /\ cp \in {"tree", "apply", "data", "upload", "forget", "live"}

Linked(c) ==
  /\ Together(sphase[1], cphase[c])
  /\ IF Connected(c) THEN up /\ csess[c] = 1 /\ conn[1] = "open"
                     ELSE spent["connect"] = 0

\* The two directories: nothing disappears.
Disks(c) ==
  /\ IsDir(disk[Server]) /\ IsDir(disk[c]) /\ SameTypes(disk[c], disk[Server])
  /\ {p \in Paths : newest[p].there} = DOMAIN disk[c] \cup DOMAIN disk[Server]

IsRecord(e) == e = [local |-> e.local, remote |-> e.remote, tomb |-> e.tomb, prev |-> e.prev]

\* The engines, as far as the initial synchronisation reads them.
Engines(c) ==
  /\ IsRecord(eng[Server]) /\ IsRecord(eng[c])
  /\ eng[c].tomb = {} /\ eng[c].prev \subseteq DOMAIN disk[c]
  /\ cphase[c] \in {"dial", "ack", "tree", "apply"} => eng[c].local = WalkDirectory(disk[c])
  /\ cphase[c] \in {"apply", "data"} => eng[c].remote = WalkDirectory(disk[Server])
  /\ sphase[1] # "live" => eng[Server].tomb = {}
  /\ sphase[1] # "live" /\ up => eng[Server].local = WalkDirectory(disk[Server])
  /\ sphase[1] \in {"none", "new", "hello"} => eng[Server].prev \subseteq DOMAIN disk[Server]
  /\ sphase[1] = "diff" => eng[Server].remote = WalkDirectory(disk[c])

NoEvents == \A p \in Paths : pend[Server][p] = {}

\* The handshake.
Greeting(c) ==
  /\ NoEvents /\ NoLonger(View(disk[c]), View(disk[Server]))
  /\ c2s[1] = IF sphase[1] \in {"new", "hello"} THEN <<Hello>>
              ELSE IF sphase[1] \in {"init", "tree"} /\ cphase[c] # "ack"
              THEN <<SyncInit(WalkDirectory(disk[c]))>> ELSE <<>>
  /\ s2c[1] = IF sphase[1] \in {"init", "tree"} /\ cphase[c] = "ack"
              THEN IF sphase[1] = "init" THEN <<HelloAck>>
                   ELSE <<HelloAck, SyncInit(WalkDirectory(disk[Server]))>>
              ELSE IF sphase[1] \in {"tree", "diff"} /\ cphase[c] = "tree"
              THEN <<SyncInit(WalkDirectory(disk[Server]))>> ELSE <<>>

\* How many messages of the handshake precede the content.
Ahead(cp) == IF cp = "tree" THEN 2 ELSE IF cp = "apply" THEN 1 ELSE 0

\* The operations with which the server answers the client's tree.
FirstOps(c) ==
  buildSyncOps(DiffInitial(WalkDirectory(disk[Server]), WalkDirectory(disk[c])))

Streaming(c) ==
  /\ NoEvents /\ NoLonger(View(disk[c]), View(disk[Server]))
  /\ c2s[1] = <<>>
  /\ cphase[c] = "tree" => s2c[1][1] = SyncInit(WalkDirectory(disk[Server]))
  /\ cphase[c] \in {"tree", "apply"} => s2c[1][Ahead(cphase[c])] = SyncApply(FirstOps(c))
  /\ StreamOK(s2c[1], Ahead(cphase[c]), sphase[1], stodo[1], View(disk[Server]), View(disk[c]))
  /\ cphase[c] = "data" => DOMAIN disk[Server] \subseteq DOMAIN disk[c]

\* What the server's monitor makes it send back.
EchoOK(q, w) ==
  IsQueue(q) /\ \A i \in 1 .. Len(q) : q[i].type = "FILE_MODIFY" \/ IsContent(q[i], w)

EventsOK(pd, v, w) ==
  \A p \in Paths : pd[p] # {} =>
    /\ p \in DOMAIN v /\ v[p].type = "file" /\ v[p].data = w[p].data /\ "remove" \notin pd[p]

Uploading(c) ==
  /\ UploadOK(c2s[1], ctodo[c], View(disk[Server]), View(disk[c]))
  /\ EchoOK(s2c[1], View(disk[c]))
  /\ EventsOK(pend[Server], View(disk[Server]), View(disk[c]))
  /\ cphase[c] # "upload" => ctodo[c] = {}

Stage(c) ==
  IF sphase[1] \notin {"stream", "live"} THEN Greeting(c)
  ELSE IF cphase[c] \in {"tree", "apply", "data"} THEN Streaming(c) ELSE Uploading(c)

Inv(c) == Domains /\ Quiet(c) /\ Linked(c) /\ Disks(c) /\ Engines(c) /\ Stage(c)

-----------------------------------------------------------------------------
(* One lemma per action.                                                   *)

Kinship(c) == Clients = {c} /\ Undisturbed

\* One client, one server, and a first connection that can be made.
LEMMA Context ==
  ASSUME NEW c, Kinship(c)
  PROVE  /\ c \in Clients /\ c \in Hosts /\ Server \in Hosts /\ c # Server
         /\ Hosts = {c, Server} /\ Clients = {c}
         /\ 1 \in Sessions /\ Limit["connect"] \in Nat
         /\ DOMAIN Limit = {"edit", "drop", "tick", "crash", "stop", "connect"}
         /\ \A k \in {"edit", "drop", "tick", "crash", "stop"} : Limit[k] = 0
  BY FileSyncAssumption DEF Kinship, Undisturbed, Hosts, Sessions

\* handleClient of the first session starts: the server scans its directory.
LEMMA Accepted ==
  ASSUME NEW c, Kinship(c), Inv(c), SrvAccepted(1)
  PROVE  Inv(c)'
  <1>1. /\ sphase[1] = "new" /\ sphase' = [sphase EXCEPT ![1] = "hello"]
        /\ eng' = [eng EXCEPT ![Server] = CommitScan(@, WalkDirectory(disk[Server]))]
        /\ UNCHANGED <<disk, saved, pend, up, stodo, cphase, csess, ctodo, conn, c2s, s2c,
                       spent, newest>>
    BY Zenon DEF SrvAccepted, ServerEngine, ScanLocal, Goto, fs, mon, cli, net, hist, ghost
  <1>2. Domains' /\ Quiet(c)'
    BY Zenon, <1>1, Context DEF Inv, Domains, Quiet
  <1>3. sphase'[1] = "hello" /\ cphase[c] = "ack" /\ Linked(c)'
    BY Zenon, <1>1, Context DEF Inv, Domains, Linked, Together, Connected
  <1>4. Disks(c)'
    BY Zenon, <1>1 DEF Inv, Disks
  <1>5. Engines(c)'
    <2>1. eng'[c] = eng[c] /\ eng'[Server] = CommitScan(eng[Server], WalkDirectory(disk[Server]))
      BY Zenon, <1>1, Context DEF Inv, Domains
    <2>2. DOMAIN WalkDirectory(disk[Server]) = DOMAIN disk[Server]
      BY Zenon DEF WalkDirectory
    <2> QED
      BY SMTT(30), <1>1, <1>3, <2>1, <2>2 DEF Inv, Engines, IsRecord, CommitScan
  <1>6. Stage(c)'
    BY Zenon, <1>1, <1>3 DEF Inv, Stage, Greeting, NoEvents
  <1> QED
    BY Zenon, <1>2, <1>3, <1>4, <1>5, <1>6 DEF Inv

\* The server answers HELLO with HELLO_ACK.
LEMMA Greeted ==
  ASSUME NEW c, Kinship(c), Inv(c), SrvHello(1)
  PROVE  Inv(c)'
  <1>1. /\ sphase[1] = "hello" /\ sphase' = [sphase EXCEPT ![1] = "init"]
        /\ c2s' = [c2s EXCEPT ![1] = Tail(@)] /\ s2c' = Send(s2c, 1, <<HelloAck>>)
        /\ UNCHANGED <<disk, saved, eng, pend, up, stodo, cphase, csess, ctodo, conn, spent, newest>>
    BY Zenon DEF SrvHello, Reads, Consume, Goto, fs, mon, cli, net, hist, ghost
  <1>2. sphase'[1] = "init" /\ cphase[c] = "ack" /\ conn[1] = "open" /\ Linked(c)'
    BY Zenon, <1>1, Context DEF Inv, Domains, Linked, Together, Connected
  <1>3. s2c' = [s2c EXCEPT ![1] = @ \o <<HelloAck>>]
    BY Zenon, <1>1, <1>2 DEF Send
  <1>4. Domains' /\ Quiet(c)'
    BY Zenon, <1>1, <1>3, Context DEF Inv, Domains, Quiet
  <1>5. Disks(c)'
    BY Zenon, <1>1 DEF Inv, Disks
  <1>6. Engines(c)'
    BY Zenon, <1>1, <1>2 DEF Inv, Engines
  <1>7. Stage(c)'
    <2>1. c2s[1] = <<Hello>> /\ s2c[1] = <<>>
      BY Zenon, <1>1, <1>2 DEF Inv, Stage, Greeting
    <2>2. c2s'[1] = <<>> /\ s2c'[1] = <<HelloAck>>
      BY SMTT(30), <1>1, <1>3, <2>1, Context, Short DEF Inv, Domains
    <2> QED
      BY Zenon, <1>1, <1>2, <2>2 DEF Inv, Stage, Greeting, NoEvents
  <1> QED
    BY Zenon, <1>2, <1>4, <1>5, <1>6, <1>7 DEF Inv

\* The server sends its tree.
LEMMA SentTree ==
  ASSUME NEW c, Kinship(c), Inv(c), SrvSendTree(1)
  PROVE  Inv(c)'
  <1>1. /\ sphase[1] = "init" /\ sphase' = [sphase EXCEPT ![1] = "tree"]
        /\ s2c' = Send(s2c, 1, <<SyncInit(eng[Server].local)>>)
        /\ UNCHANGED <<disk, saved, eng, pend, up, stodo, cphase, csess, ctodo, conn, c2s,
                       spent, newest>>
    BY Zenon DEF SrvSendTree, Goto, fs, mon, cli, net, hist, ghost
  <1>2. /\ sphase'[1] = "tree" /\ cphase[c] \in {"ack", "tree"} /\ conn[1] = "open" /\ up
        /\ Linked(c)'
    BY Zenon, <1>1, Context DEF Inv, Domains, Linked, Together, Connected
  <1> DEFINE m == SyncInit(WalkDirectory(disk[Server]))
  <1>3. s2c' = [s2c EXCEPT ![1] = @ \o <<m>>]
    <2>1. eng[Server].local = WalkDirectory(disk[Server])
      BY Zenon, <1>1, <1>2 DEF Inv, Engines
    <2> QED
      BY Zenon, <1>1, <1>2, <2>1 DEF Send
  <1>4. Domains' /\ Quiet(c)'
    BY Zenon, <1>1, <1>3, Context DEF Inv, Domains, Quiet
  <1>5. Disks(c)'
    BY Zenon, <1>1 DEF Inv, Disks
  <1>6. Engines(c)'
    BY Zenon, <1>1, <1>2 DEF Inv, Engines
  <1>7. Stage(c)'
    <2>1. s2c'[1] = s2c[1] \o <<m>>
      BY Zenon, <1>3, Context DEF Inv, Domains
    <2>2. s2c[1] = IF cphase[c] = "ack" THEN <<HelloAck>> ELSE <<>>
      BY Zenon, <1>1, <1>2 DEF Inv, Stage, Greeting
    <2> HIDE DEF m
    <2>3. s2c'[1] = IF cphase[c] = "ack" THEN <<HelloAck, m>> ELSE <<m>>
      BY SMTT(30), <2>1, <2>2, Short
    <2>4. NoEvents' /\ NoLonger(View(disk[c]), View(disk[Server]))'
      BY Zenon, <1>1, <1>2 DEF Inv, Stage, Greeting, NoEvents
    <2>5. c2s'[1] = IF cphase[c] # "ack" THEN <<SyncInit(WalkDirectory(disk[c]))>> ELSE <<>>
      BY Zenon, <1>1, <1>2 DEF Inv, Stage, Greeting
    <2> QED
      BY Zenon, <1>1, <1>2, <2>3, <2>4, <2>5 DEF Stage, Greeting, m
  <1> QED
    BY Zenon, <1>2, <1>4, <1>5, <1>6, <1>7 DEF Inv

\* The server reads the client's tree, which is that of its directory.
LEMMA GotTree ==
  ASSUME NEW c, Kinship(c), Inv(c), SrvSyncInit(1)
  PROVE  Inv(c)'
  <1> DEFINE tree == Head(c2s[1]).tree
  <1>1. /\ sphase[1] = "tree" /\ sphase' = [sphase EXCEPT ![1] = "diff"] /\ c2s[1] # <<>>
        /\ c2s' = [c2s EXCEPT ![1] = Tail(@)]
        /\ eng' = [eng EXCEPT ![Server] = AddToPreviousPaths(SetRemoteTree(@, tree), DOMAIN tree)]
        /\ UNCHANGED <<disk, saved, pend, up, stodo, cphase, csess, ctodo, conn, s2c,
                       spent, newest>>
    BY Zenon DEF SrvSyncInit, Reads, Consume, ServerEngine, Goto, fs, mon, cli, net, hist, ghost
  <1>2. cphase[c] # "ack" /\ c2s[1] = <<SyncInit(WalkDirectory(disk[c]))>>
    BY Zenon, <1>1 DEF Inv, Stage, Greeting
  <1>3. /\ sphase'[1] = "diff" /\ cphase[c] \in {"tree", "apply"} /\ up
        /\ Linked(c)'
    BY Zenon, <1>1, <1>2, Context DEF Inv, Domains, Linked, Together, Connected
  <1>4. tree = WalkDirectory(disk[c]) /\ Tail(c2s[1]) = <<>>
    BY SMTT(30), <1>2, Short DEF SyncInit
  <1>5. Domains' /\ Quiet(c)'
    BY Zenon, <1>1, Context DEF Inv, Domains, Quiet
  <1>6. Disks(c)'
    BY Zenon, <1>1 DEF Inv, Disks
  <1>7. Engines(c)'
    <2>1. /\ eng'[c] = eng[c]
          /\ eng'[Server] = [[eng[Server] EXCEPT !.remote = tree] EXCEPT !.prev = @ \cup DOMAIN tree]
      BY Zenon, <1>1, Context DEF Inv, Domains, AddToPreviousPaths, SetRemoteTree
    <2>2. IsRecord(eng[Server])
      BY Zenon DEF Inv, Engines
    <2>3. /\ IsRecord(eng'[Server]) /\ eng'[Server].remote = tree
          /\ eng'[Server].local = eng[Server].local /\ eng'[Server].tomb = eng[Server].tomb
      BY Zenon, <2>1, <2>2 DEF IsRecord
    <2> QED
      BY Zenon, <1>1, <1>3, <1>4, <2>1, <2>3 DEF Inv, Engines
  <1>8. Stage(c)'
    <2>1. c2s'[1] = <<>>
      BY Zenon, <1>1, <1>4, Context DEF Inv, Domains
    <2>2. NoEvents' /\ NoLonger(View(disk[c]), View(disk[Server]))'
      BY Zenon, <1>1, <1>2 DEF Inv, Stage, Greeting, NoEvents
    <2>3. s2c'[1] = IF cphase[c] = "tree" THEN <<SyncInit(WalkDirectory(disk[Server]))>> ELSE <<>>
      BY Zenon, <1>1, <1>2 DEF Inv, Stage, Greeting
    <2> QED
      BY Zenon, <1>1, <1>3, <2>1, <2>2, <2>3 DEF Stage, Greeting
  <1> QED
    BY Zenon, <1>3, <1>5, <1>6, <1>7, <1>8 DEF Inv

\* The server sends the operations that create what the client lacks: it has no
\* tombstones, so none of them is a deletion.
LEMMA SentApply ==
  ASSUME NEW c, Kinship(c), Inv(c), SrvSyncApply(1)
  PROVE  Inv(c)'
  <1> DEFINE changes == DiffInitial(WalkDirectory(disk[Server]), WalkDirectory(disk[c]))
             m == SyncApply(FirstOps(c))
  <1>1. /\ sphase[1] = "diff" /\ sphase' = [sphase EXCEPT ![1] = "stream"]
        /\ s2c' = Send(s2c, 1, <<SyncApply(buildSyncOps(InitialChanges(eng[Server], theirs[1])))>>)
        /\ stodo' = [stodo EXCEPT ![1] =
                       {ch \in InitialChanges(eng[Server], theirs[1]) : ch.type # "delete"}]
        /\ UNCHANGED <<disk, saved, eng, pend, up, cphase, csess, ctodo, conn, c2s,
                       spent, newest>>
    BY Zenon DEF SrvSyncApply, Goto, fs, mon, cli, net, hist, ghost
  <1>2. /\ sphase'[1] = "stream" /\ cphase[c] \in {"tree", "apply"} /\ up /\ conn[1] = "open"
        /\ Linked(c)'
    BY Zenon, <1>1, Context DEF Inv, Domains, Linked, Together, Connected
  <1>3. InitialChanges(eng[Server], theirs[1]) = changes
    <2>1. /\ eng[Server].local = WalkDirectory(disk[Server]) /\ eng[Server].tomb = {}
          /\ eng[Server].remote = WalkDirectory(disk[c])
      BY Zenon, <1>1, <1>2 DEF Inv, Engines
    <2>2. Deleted((theirs[1] \ DOMAIN eng[Server].local) \cap eng[Server].tomb) = {}
      BY Zenon, <2>1 DEF Deleted
    <2> QED
      BY Zenon, <2>1, <2>2 DEF InitialChanges
  <1>4. {ch \in changes : ch.type # "delete"} = changes
    <2>1. \A ch \in changes : ch.type # "delete"
      BY Zenon, DiffOf DEF Inv, Disks
    <2> QED
      BY Zenon, <2>1
  <1>5. s2c' = [s2c EXCEPT ![1] = @ \o <<m>>] /\ stodo' = [stodo EXCEPT ![1] = changes]
    BY Zenon, <1>1, <1>2, <1>3, <1>4 DEF Send, FirstOps
  <1>6. Domains' /\ Quiet(c)'
    BY Zenon, <1>1, <1>5, Context DEF Inv, Domains, Quiet
  <1>7. Disks(c)'
    BY Zenon, <1>1 DEF Inv, Disks
  <1>8. Engines(c)'
    BY Zenon, <1>1, <1>2 DEF Inv, Engines
  <1>9. Stage(c)'
    <2>1. s2c'[1] = s2c[1] \o <<m>> /\ stodo'[1] = changes
      BY Zenon, <1>5, Context DEF Inv, Domains
    <2> DEFINE q == s2c'[1]
    <2>2. s2c[1] = IF cphase[c] = "tree" THEN <<SyncInit(WalkDirectory(disk[Server]))>> ELSE <<>>
      BY Zenon, <1>1, <1>2 DEF Inv, Stage, Greeting
    <2> HIDE DEF m
    <2>3. q = IF cphase[c] = "tree" THEN <<SyncInit(WalkDirectory(disk[Server])), m>> ELSE <<m>>
      BY SMTT(30), <2>1, <2>2, Short
    <2>4. /\ IsQueue(q) /\ Len(q) = Ahead(cphase[c])
          /\ cphase[c] = "tree" => q[1] = SyncInit(WalkDirectory(disk[Server]))
          /\ q[Ahead(cphase[c])] = m
      <3> DEFINE x == SyncInit(WalkDirectory(disk[Server]))
      <3> HIDE DEF x, q
      <3>1. CASE cphase[c] = "tree"
        <4>1. q = <<x, m>> /\ Ahead(cphase[c]) = 2
          BY Zenon, <2>3, <3>1 DEF Ahead, x
        <4>2. IsQueue(q) /\ Len(q) = 2 /\ q[1] = x /\ q[2] = m
          BY Zenon, <4>1, Short
        <4> QED
          BY Zenon, <4>1, <4>2 DEF x
      <3>2. CASE cphase[c] = "apply"
        <4>1. q = <<m>> /\ Ahead(cphase[c]) = 1
          BY Zenon, <2>3, <3>2 DEF Ahead
        <4>2. IsQueue(q) /\ Len(q) = 1 /\ q[1] = m
          BY Zenon, <4>1, Short
        <4> QED
          BY Zenon, <3>2, <4>1, <4>2
      <3> QED
        BY Zenon, <1>2, <3>1, <3>2
    <2> HIDE DEF q, changes
    <2>5. StreamOK(q, Ahead(cphase[c]), "stream", changes, View(disk[Server]), View(disk[c]))
      <3>1. IsDir(disk[Server]) /\ IsDir(disk[c]) /\ SameTypes(disk[c], disk[Server]) /\ IsQueue(q)
        BY Zenon, <2>4 DEF Inv, Disks
      <3>2. StreamOK(q, Len(q), "stream", changes, View(disk[Server]), View(disk[c]))
        BY ONLY Zenon, <3>1, StreamStart DEF changes
      <3> QED
        BY Zenon, <2>4, <3>2
    <2>6. NoEvents' /\ NoLonger(View(disk[c]), View(disk[Server]))' /\ c2s'[1] = <<>>
      BY Zenon, <1>1, <1>2 DEF Inv, Stage, Greeting, NoEvents
    <2>7. Streaming(c)'
      BY Zenon, <1>1, <1>2, <2>1, <2>4, <2>5, <2>6 DEF Streaming, q, m, FirstOps
    <2> QED
      BY Zenon, <1>1, <1>2, <2>7 DEF Stage
  <1> QED
    BY Zenon, <1>2, <1>6, <1>7, <1>8, <1>9 DEF Inv

\* The server streams the content of a file.
LEMMA Streamed ==
  ASSUME NEW c, Kinship(c), Inv(c), SrvStream(1)
  PROVE  Inv(c)'
  <1>1. PICK ch \in stodo[1] :
          /\ sphase[1] = "stream"
          /\ s2c' = Send(s2c, 1, Content(disk[Server], ch.path, ch.entry))
          /\ stodo' = [stodo EXCEPT ![1] = @ \ {ch}]
          /\ UNCHANGED <<disk, saved, eng, pend, up, sphase, cphase, csess, ctodo, conn, c2s,
                         spent, newest>>
    BY Zenon DEF SrvStream, fs, mon, cli, net, hist, ghost
  <1>2. cphase[c] \in {"tree", "apply", "data"} /\ conn[1] = "open" /\ Linked(c)'
    BY Zenon, <1>1, Context DEF Inv, Domains, Linked, Together, Connected
  <1> DEFINE ms == Content(disk[Server], ch.path, ch.entry)
  <1>3. s2c' = [s2c EXCEPT ![1] = @ \o ms]
    BY Zenon, <1>1, <1>2 DEF Send
  <1>4. Domains' /\ Quiet(c)'
    BY Zenon, <1>1, <1>3, Context DEF Inv, Domains, Quiet
  <1>5. Disks(c)'
    BY Zenon, <1>1 DEF Inv, Disks
  <1>6. Engines(c)'
    BY Zenon, <1>1 DEF Inv, Engines
  <1>7. Stage(c)'
    <2> DEFINE k == Ahead(cphase[c])
               q == s2c[1]
               v == View(disk[Server])
               w == View(disk[c])
    <2>1. s2c'[1] = q \o ms /\ stodo'[1] = stodo[1] \ {ch}
      BY Zenon, <1>1, <1>3, Context DEF Inv, Domains
    <2>2. Streaming(c)
      BY Zenon, <1>1, <1>2 DEF Inv, Stage
    <2>3. k \in Nat /\ IsDir(disk[Server])
      BY Zenon DEF Ahead, Inv, Disks
    <2>4. StreamOK(q, k, "stream", stodo[1], v, w)
      BY Zenon, <1>1, <2>2 DEF Streaming
    <2> HIDE DEF k, q, w
    <2>5. StreamOK(q \o ms, k, "stream", stodo[1] \ {ch}, v, w)
      BY Zenon, <2>3, <2>4, StreamSend
    <2>6. IsQueue(ms) /\ IsQueue(q) /\ Len(q) >= k
      BY Zenon, <2>4, Short DEF Content, StreamOK
    <2>7. Len(q) \in Nat /\ \A i \in 1 .. Len(q) : (q \o ms)[i] = q[i]
      BY ONLY Zenon, <2>6, Joined
    <2>8. /\ k > 0 => (q \o ms)[k] = q[k]
          /\ k > 0 => (q \o ms)[1] = q[1]
      BY SMTT(30), <2>3, <2>6, <2>7
    <2>9. cphase[c] \in {"tree", "apply"} => k > 0
      BY SMTT(30) DEF k, Ahead
    <2>10. NoEvents'
      BY Zenon, <1>1, <2>2 DEF Streaming, NoEvents
    <2>11. Streaming(c)'
      BY Zenon, <1>1, <1>2, <2>1, <2>2, <2>5, <2>8, <2>9, <2>10 DEF Streaming, k, q, v, w, FirstOps
    <2> QED
      BY Zenon, <1>1, <1>2, <2>11 DEF Stage
  <1> QED
    BY Zenon, <1>2, <1>4, <1>5, <1>6, <1>7 DEF Inv

\* The server has streamed everything and sends ACK.
LEMMA SentAck ==
  ASSUME NEW c, Kinship(c), Inv(c), SrvAck(1)
  PROVE  Inv(c)'
  <1>1. /\ sphase[1] = "stream" /\ sphase' = [sphase EXCEPT ![1] = "live"] /\ stodo[1] = {}
        /\ s2c' = Send(s2c, 1, <<Ack>>)
        /\ eng' = [eng EXCEPT ![Server] = ClearTombstones(@)]
        /\ saved' = [saved EXCEPT ![Server] = NoFile]
        /\ UNCHANGED <<disk, pend, up, stodo, cphase, csess, ctodo, conn, c2s, spent, newest>>
    BY Zenon DEF SrvAck, ServerEngine, Goto, fs, mon, cli, net, hist, ghost
  <1>2. /\ sphase'[1] = "live" /\ cphase[c] \in {"tree", "apply", "data"} /\ conn[1] = "open"
        /\ Linked(c)'
    BY Zenon, <1>1, Context DEF Inv, Domains, Linked, Together, Connected
  <1>3. s2c' = [s2c EXCEPT ![1] = @ \o <<Ack>>]
    BY Zenon, <1>1, <1>2 DEF Send
  <1>4. Domains' /\ Quiet(c)'
    BY Zenon, <1>1, <1>3, Context DEF Inv, Domains, Quiet
  <1>5. Disks(c)'
    BY Zenon, <1>1 DEF Inv, Disks
  <1>6. Engines(c)'
    <2>1. eng'[c] = eng[c] /\ eng'[Server] = [eng[Server] EXCEPT !.tomb = {}]
      BY Zenon, <1>1, Context DEF Inv, Domains, ClearTombstones
    <2>2. IsRecord(eng'[Server])
      BY Zenon, <2>1 DEF Inv, Engines, IsRecord
    <2> QED
      BY Zenon, <1>1, <1>2, <2>1, <2>2 DEF Inv, Engines
  <1>7. Stage(c)'
    <2> DEFINE k == Ahead(cphase[c])
               q == s2c[1]
               ms == <<Ack>>
               v == View(disk[Server])
               w == View(disk[c])
    <2>1. s2c'[1] = q \o ms /\ stodo'[1] = {}
      BY Zenon, <1>1, <1>3, Context DEF Inv, Domains
    <2>2. Streaming(c)
      BY Zenon, <1>1, <1>2 DEF Inv, Stage
    <2>3. k \in Nat
      BY Zenon DEF Ahead
    <2>4. StreamOK(q, k, "stream", {}, v, w)
      BY Zenon, <1>1, <2>2 DEF Streaming
    <2> HIDE DEF k, q, v, w
    <2>5. StreamOK(q \o ms, k, "live", {}, v, w)
      BY Zenon, <2>3, <2>4, StreamAck
    <2>6. IsQueue(q) /\ Len(q) >= k
      BY Zenon, <2>4 DEF StreamOK
    <2>7. IsQueue(ms)
      BY Zenon, Short
    <2> HIDE DEF ms
    <2>8. Len(q) \in Nat /\ \A i \in 1 .. Len(q) : (q \o ms)[i] = q[i]
      BY ONLY Zenon, <2>6, <2>7, Joined
    <2>9. /\ k > 0 => (q \o ms)[k] = q[k]
          /\ k > 0 => (q \o ms)[1] = q[1]
      BY <2>3, <2>6, <2>8
    <2>10. cphase[c] \in {"tree", "apply"} => k > 0
      BY SMTT(30) DEF k, Ahead
    <2>11. NoEvents'
      BY Zenon, <1>1, <2>2 DEF Streaming, NoEvents
    <2>12. Streaming(c)'
      BY Zenon, <1>1, <1>2, <2>1, <2>2, <2>5, <2>9, <2>10, <2>11 DEF Streaming, k, q, v, w, FirstOps
    <2> QED
      BY Zenon, <1>1, <1>2, <2>12 DEF Stage
  <1> QED
    BY Zenon, <1>2, <1>4, <1>5, <1>6, <1>7 DEF Inv

\* An engine of a first start knows no paths, and after a scan only what exists.
LEMMA NewEngineIsEmpty ==
  ASSUME NEW t
  PROVE  /\ CommitScan(NewEngine(NoFile), t) = [local |-> t, remote |-> EmptyTree, tomb |-> {},
                                               prev |-> DOMAIN t]
         /\ NewEngine(NoFile) = [local |-> EmptyTree, remote |-> EmptyTree, tomb |-> {}, prev |-> {}]
  BY Zenon DEF CommitScan, NewEngine, NoFile, LoadedPaths

\* The server process starts.
LEMMA Started ==
  ASSUME NEW c, Kinship(c), Inv(c), ServerStart
  PROVE  Inv(c)'
  <1>1. /\ ~up /\ up' = TRUE
        /\ eng' = [eng EXCEPT ![Server] = CommitScan(NewEngine(saved[Server]),
                                                     WalkDirectory(disk[Server]))]
        /\ UNCHANGED <<disk, saved, pend, sphase, stodo, cphase, csess, ctodo, conn, c2s, s2c,
                       spent, newest>>
    BY Zenon DEF ServerStart, ServerEngine, ScanLocal, fs, mon, cli, net, hist, ghost
  <1>2. sphase[1] = "none" /\ cphase[c] \in {"start", "dial"} /\ Linked(c)'
    BY Zenon, <1>1, Context DEF Inv, Domains, Linked, Together, Connected
  <1>3. Domains' /\ Quiet(c)'
    BY Zenon, <1>1, Context DEF Inv, Domains, Quiet
  <1>4. Disks(c)'
    BY Zenon, <1>1 DEF Inv, Disks
  <1>5. Engines(c)'
    <2> DEFINE t == WalkDirectory(disk[Server])
    <2>1. saved[Server] = NoFile
      BY Zenon, Context DEF Inv, Quiet
    <2>2. eng'[c] = eng[c] /\ eng'[Server] = CommitScan(NewEngine(NoFile), t)
      BY Zenon, <1>1, <2>1, Context DEF Inv, Domains
    <2>3. DOMAIN t = DOMAIN disk[Server]
      BY Zenon DEF WalkDirectory
    <2> HIDE DEF t
    <2>4. /\ IsRecord(eng'[Server]) /\ eng'[Server].local = t /\ eng'[Server].tomb = {}
          /\ eng'[Server].prev = DOMAIN t
      BY SMTT(30), <2>2, NewEngineIsEmpty DEF IsRecord
    <2> QED
      BY Zenon, <1>1, <1>2, <2>2, <2>3, <2>4 DEF Inv, Engines, t
  <1>6. Stage(c)'
    BY Zenon, <1>1, <1>2 DEF Inv, Stage, Greeting, NoEvents
  <1> QED
    BY Zenon, <1>2, <1>3, <1>4, <1>5, <1>6 DEF Inv

\* The client process starts and scans its directory.
LEMMA ClientStarted ==
  ASSUME NEW c, Kinship(c), Inv(c), CliStart(c)
  PROVE  Inv(c)'
  <1>1. /\ cphase[c] = "start" /\ cphase' = [cphase EXCEPT ![c] = "dial"]
        /\ eng' = [eng EXCEPT ![c] = CommitScan(NewEngine(saved[c]), WalkDirectory(disk[c]))]
        /\ UNCHANGED <<disk, saved, pend, up, sphase, stodo, csess, ctodo, conn, c2s, s2c,
                       spent, newest>>
    BY Zenon DEF CliStart, ClientEngine, ScanLocal, Enter, fs, mon, srv, net, hist, ghost
  <1>2. sphase[1] = "none" /\ cphase'[c] = "dial" /\ Linked(c)'
    BY Zenon, <1>1, Context DEF Inv, Domains, Linked, Together, Connected
  <1>3. Domains' /\ Quiet(c)'
    BY Zenon, <1>1, Context DEF Inv, Domains, Quiet
  <1>4. Disks(c)'
    BY Zenon, <1>1 DEF Inv, Disks
  <1>5. Engines(c)'
    <2> DEFINE t == WalkDirectory(disk[c])
    <2>1. saved[c] = NoFile
      BY Zenon, Context DEF Inv, Quiet
    <2>2. eng'[Server] = eng[Server] /\ eng'[c] = CommitScan(NewEngine(NoFile), t)
      BY Zenon, <1>1, <2>1, Context DEF Inv, Domains
    <2>3. DOMAIN t = DOMAIN disk[c]
      BY Zenon DEF WalkDirectory
    <2> HIDE DEF t
    <2>4. /\ IsRecord(eng'[c]) /\ eng'[c].local = t /\ eng'[c].tomb = {}
          /\ eng'[c].prev = DOMAIN t
      BY SMTT(30), <2>2, NewEngineIsEmpty DEF IsRecord
    <2> QED
      BY Zenon, <1>1, <1>2, <2>2, <2>3, <2>4 DEF Inv, Engines, t
  <1>6. Stage(c)'
    BY Zenon, <1>1, <1>2 DEF Inv, Stage, Greeting, NoEvents
  <1> QED
    BY Zenon, <1>2, <1>3, <1>4, <1>5, <1>6 DEF Inv

\* The client connects: the first session.
LEMMA ClientConnected ==
  ASSUME NEW c, Kinship(c), Inv(c), CliConnect(c)
  PROVE  Inv(c)'
  <1> DEFINE s == spent["connect"] + 1
  <1>1. /\ cphase[c] = "dial" /\ cphase' = [cphase EXCEPT ![c] = "ack"] /\ up
        /\ spent' = [spent EXCEPT !["connect"] = @ + 1]
        /\ conn' = [conn EXCEPT ![s] = "open"]
        /\ c2s' = [c2s EXCEPT ![s] = <<Hello>>]
        /\ csess' = [csess EXCEPT ![c] = s]
        /\ sphase' = [sphase EXCEPT ![s] = "new"]
        /\ UNCHANGED <<disk, saved, eng, pend, up, stodo, ctodo, s2c, newest>>
    BY Zenon DEF CliConnect, Spend, Enter, Goto, fs, mon, ghost
  <1>2. spent["connect"] = 0 /\ sphase[1] = "none"
    BY Zenon, <1>1 DEF Inv, Linked, Connected, Together
  <1>3. s = 1
    BY SMTT(30), <1>2
  <1> HIDE DEF s
  <1>4. /\ sphase'[1] = "new" /\ cphase'[c] = "ack" /\ conn'[1] = "open" /\ csess'[c] = 1
        /\ c2s'[1] = <<Hello>>
    BY Zenon, <1>1, <1>3, Context DEF Inv, Domains
  <1>5. Linked(c)'
    BY Zenon, <1>1, <1>4 DEF Linked, Connected, Together
  <1>6. Domains' /\ Quiet(c)'
    BY Zenon, <1>1, <1>3, Context DEF Inv, Domains, Quiet
  <1>7. Disks(c)'
    BY Zenon, <1>1 DEF Inv, Disks
  <1>8. Engines(c)'
    BY Zenon, <1>1, <1>2, <1>4 DEF Inv, Engines
  <1>9. Stage(c)'
    <2>1. Greeting(c) /\ s2c[1] = <<>>
      BY Zenon, <1>1, <1>2 DEF Inv, Stage, Greeting
    <2> QED
      BY Zenon, <1>1, <1>4, <2>1 DEF Stage, Greeting, NoEvents
  <1> QED
    BY Zenon, <1>5, <1>6, <1>7, <1>8, <1>9 DEF Inv

\* The client reads HELLO_ACK and sends its tree.
LEMMA GotHelloAck ==
  ASSUME NEW c, Kinship(c), Inv(c), CliHelloAck(c)
  PROVE  Inv(c)'
  <1>1. csess[c] = 1 /\ cphase[c] = "ack" /\ conn[1] = "open" /\ s2c[1] # <<>>
    BY Zenon DEF CliHelloAck, Receives, Inv, Linked, Connected
  <1>2. /\ cphase' = [cphase EXCEPT ![c] = "tree"]
        /\ s2c' = [s2c EXCEPT ![1] = Tail(@)]
        /\ c2s' = [c2s EXCEPT ![1] = @ \o <<SyncInit(eng[c].local)>>]
        /\ UNCHANGED <<disk, saved, eng, pend, up, sphase, stodo, csess, ctodo, conn, spent, newest>>
    BY Zenon, <1>1 DEF CliHelloAck, Receives, Send, Enter, fs, mon, srv, net, hist, ghost
  <1> DEFINE T == WalkDirectory(disk[Server])
  <1>3. /\ sphase[1] \in {"init", "tree"} /\ c2s[1] = <<>>
        /\ s2c[1] = IF sphase[1] = "init" THEN <<HelloAck>> ELSE <<HelloAck, SyncInit(T)>>
    BY Zenon, <1>1 DEF Inv, Stage, Greeting, Linked, Together
  <1>4. cphase'[c] = "tree" /\ Linked(c)'
    BY Zenon, <1>1, <1>2, <1>3, Context DEF Inv, Domains, Linked, Connected, Together
  <1>5. Domains' /\ Quiet(c)'
    BY Zenon, <1>2, Context DEF Inv, Domains, Quiet
  <1>6. Disks(c)'
    BY Zenon, <1>2 DEF Inv, Disks
  <1>7. Engines(c)'
    BY Zenon, <1>1, <1>2, <1>3, <1>4 DEF Inv, Engines
  <1>8. Stage(c)'
    <2> DEFINE m == SyncInit(WalkDirectory(disk[c]))
               n == SyncInit(T)
    <2>1. eng[c].local = WalkDirectory(disk[c])
      BY Zenon, <1>1 DEF Inv, Engines
    <2>2. c2s'[1] = <<>> \o <<m>> /\ s2c'[1] = Tail(s2c[1])
      BY Zenon, <1>2, <1>3, <2>1, Context DEF Inv, Domains
    <2> HIDE DEF m, n
    <2>3. c2s'[1] = <<m>>
      BY Zenon, <2>2, Short
    <2>4. s2c'[1] = IF sphase[1] = "init" THEN <<>> ELSE <<n>>
      BY SMTT(30), <1>3, <2>2, Short DEF n
    <2>5. NoEvents' /\ NoLonger(View(disk[c]), View(disk[Server]))'
      BY Zenon, <1>2, <1>3 DEF Inv, Stage, Greeting, NoEvents
    <2> QED
      BY Zenon, <1>2, <1>3, <1>4, <2>3, <2>4, <2>5 DEF Stage, Greeting, m, n
  <1> QED
    BY Zenon, <1>4, <1>5, <1>6, <1>7, <1>8 DEF Inv

=============================================================================
