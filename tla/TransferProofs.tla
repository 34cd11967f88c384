--------------------------- MODULE TransferProofs ---------------------------
(***************************************************************************)
(* No goroutines wait for each other in a circle, for any number of        *)
(* clients and any sizes, as long as the clients' trees fit in the buffers *)
(* and at most one client has something to upload.  The inductive          *)
(* invariant says what each goroutine may have to write in which phase,    *)
(* who holds the locks, and that a client uploads only when its handler    *)
(* has written the whole stream.                                           *)
(***************************************************************************)
EXTENDS Transfer, SequenceTheorems, FiniteSetTheorems, TLAPS

-----------------------------------------------------------------------------
(* The inductive invariant.                                                *)

\* A message of which at least one unit has to be written.
Unsent == [to : Pipes, kind : Kinds, size : Nat \ {0}]

\* What goroutine g may have to write when the handlers are in the phases ph:
\* the goroutines of a client write to the server and the others to clients, a
\* live handler to other clients than its own, and only a handler that streams
\* to its client writes an ACK.
Allowed(ph, g, m) ==
  /\ g[1] \in {"main", "sender"} => m.to = UpTo(g[2])
  /\ g[1] \notin {"main", "sender"} => \E d \in Clients : m.to = DownTo(d)
  /\ g[1] = "handler" /\ ph[g[2]] = "live" => m.to # DownTo(g[2])
  /\ m.kind = "ack" => g[1] = "handler" /\ ph[g[2]] = "stream" /\ m.to = DownTo(g[2])

\* What all goroutines have to write; the ACK is the last of it.
OutInv ==
  \A g \in Goroutines : \A i \in 1 .. Len(out[g]) :
    Allowed(hphase, g, out[g][i]) /\ (out[g][i].kind = "ack" => i = Len(out[g]))

\* A lock is held by a goroutine in the middle of a message for its direction.
LockInv == \A x \in Pipes : wmu[x] # Nobody => out[wmu[x]] # <<>> /\ Head(out[wmu[x]]).to = x

\* The handler of client c has written SYNC_APPLY, the files and the ACK.
StreamWritten(c) == hphase[c] = "live" \/ (hphase[c] = "stream" /\ out[Handler(c)] = <<>>)

\* The main goroutine of client c writes its tree, which is in the buffers or
\* still to be written, or its uploads; its sender writes in a live session only;
\* the ACK reaches the client after the rest of the stream.
ClientInv(c) ==
  /\ out[Main(c)] # <<>> => phase[c] \in {"tree", "upload"}
  /\ out[Main(c)] # <<>> /\ phase[c] = "tree" =>
       Len(out[Main(c)]) = 1 /\ Len(pipe[UpTo(c)]) + out[Main(c)][1].size <= ClientTree[c]
  /\ out[Main(c)] # <<>> /\ phase[c] = "upload" => Uploads[c] # <<>>
  /\ out[Sender(c)] # <<>> => phase[c] = "live"
  /\ phase[c] = "upload" => StreamWritten(c)
  /\ \A i \in 1 .. Len(pipe[DownTo(c)]) : pipe[DownTo(c)][i] = "ack" => StreamWritten(c)

Inv == TypeOK /\ OutInv /\ LockInv /\ \A c \in Clients : ClientInv(c)

-----------------------------------------------------------------------------
(* Names of goroutines and directions.                                     *)

\* The goroutines of runSession and of the server have different names.
LEMMA Names ==
  /\ \A c \in Clients :
       /\ Main(c) \in Goroutines /\ Main(c)[1] = "main" /\ Main(c)[2] = c
       /\ Sender(c) \in Goroutines /\ Sender(c)[1] = "sender" /\ Sender(c)[2] = c
       /\ Handler(c) \in Goroutines /\ Handler(c)[1] = "handler" /\ Handler(c)[2] = c
       /\ Ticker(c) \in Goroutines /\ Ticker(c)[1] = "ticker" /\ Ticker(c)[2] = c
  /\ Monitor \in Goroutines /\ Monitor[1] = "monitor"
  /\ \A g \in Goroutines :
       /\ g[1] \in {"main", "sender", "handler", "ticker", "monitor"}
       /\ g[1] = "main" => g[2] \in Clients /\ g = Main(g[2])
       /\ g[1] = "sender" => g[2] \in Clients /\ g = Sender(g[2])
       /\ g[1] = "handler" => g[2] \in Clients /\ g = Handler(g[2])
       /\ g[1] = "ticker" => g[2] \in Clients /\ g = Ticker(g[2])
       /\ g # Nobody
BY DEF Goroutines, Main, Sender, Handler, Ticker, Monitor, Nobody

\* A connection has two directions: the handler reads one, runSession the other.
LEMMA Directions ==
  /\ \A c \in Clients : UpTo(c) \in Pipes /\ DownTo(c) \in Pipes
  /\ \A c, d \in Clients :
       /\ UpTo(c) # DownTo(d)
       /\ UpTo(c) = UpTo(d) => c = d
       /\ DownTo(c) = DownTo(d) => c = d
       /\ Reader(UpTo(c)) = Handler(c) /\ Reader(DownTo(c)) = Main(c)
  /\ \A x \in Pipes : \E c \in Clients : x = UpTo(c) \/ x = DownTo(c)
BY Zenon DEF Pipes, UpTo, DownTo, Reader

-----------------------------------------------------------------------------
(* The effect of a write.                                                  *)

\* What is left to write: the message is shorter by a unit, or gone.
Left(s, t, u) ==
  LET m == s[1] IN
  \/ /\ m.size > 1 /\ u = "part"
     /\ Len(t) = Len(s) /\ t[1] = Message(m.to, m.kind, m.size - 1)
     /\ \A i \in 2 .. Len(s) : t[i] = s[i]
  \/ /\ m.size = 1 /\ u = m.kind
     /\ Len(t) = Len(s) - 1
     /\ \A i \in 1 .. Len(s) - 1 : t[i] = s[i + 1]

\* WriteMessage takes the lock of its connection and writes a unit of the first
\* message of goroutine g.
LEMMA WriteStep ==
  ASSUME TypeOK, NEW g \in Goroutines, Write(g)
  PROVE  LET m == out[g][1] IN
         /\ out[g] \in Seq(Unsent) /\ out[g] # <<>> /\ Len(out[g]) \in Nat /\ Len(out[g]) > 0
         /\ m \in Unsent /\ Head(out[g]) = m
         /\ wmu[m.to] \in {Nobody, g} /\ Len(pipe[m.to]) < Cap
         /\ wmu' = [wmu EXCEPT ![m.to] = IF m.size > 1 THEN g ELSE Nobody]
         /\ UNCHANGED <<phase, hphase, changes, events>>
         /\ \E t \in Seq(Unsent), u \in Kinds \cup {"part"} :
              /\ Left(out[g], t, u)
              /\ out' = [out EXCEPT ![g] = t]
              /\ pipe' = [pipe EXCEPT ![m.to] = Append(@, u)]
<1> DEFINE s == out[g]  m == s[1]
<1>1. s \in Seq(Unsent) /\ s # <<>> /\ out \in [Goroutines -> Seq(Unsent)]
  BY Zenon DEF TypeOK, Unsent, Write, CanWrite
<1>2. Len(s) \in Nat /\ Len(s) > 0 /\ Head(s) = m /\ m \in Unsent
  <2> HIDE DEF s
  <2>1. Len(s) \in Nat /\ Len(s) > 0
    BY <1>1, EmptySeq, LenProperties
  <2>2. 1 \in 1 .. Len(s)
    BY <2>1
  <2> QED
    BY <1>1, <2>1, <2>2, ElementOfSeq
<1>3. /\ wmu[m.to] \in {Nobody, g} /\ Len(pipe[m.to]) < Cap
      /\ wmu' = [wmu EXCEPT ![m.to] = IF m.size > 1 THEN g ELSE Nobody]
      /\ UNCHANGED <<phase, hphase, changes, events>>
  BY Zenon, <1>2 DEF Write, CanWrite
<1>4. CASE m.size > 1
  <2>1. /\ pipe' = [pipe EXCEPT ![m.to] = Append(@, "part")]
        /\ out' = [out EXCEPT ![g][1].size = @ - 1]
    BY Zenon, <1>2, <1>4 DEF Write
  <2> DEFINE t == [s EXCEPT ![1].size = @ - 1]
  <2>2. out' = [out EXCEPT ![g] = t]
    BY Zenon, <2>1, <1>1
  <2>3. t \in Seq(Unsent) /\ Len(t) = Len(s) /\ t[1] = Message(m.to, m.kind, m.size - 1)
        /\ \A i \in 2 .. Len(s) : t[i] = s[i]
    <3> DEFINE v == [m EXCEPT !.size = @ - 1]
    <3>1. v \in Unsent /\ v = Message(m.to, m.kind, m.size - 1)
      BY <1>2, <1>4 DEF Unsent, Message
    <3>2. t = [s EXCEPT ![1] = v]
      BY Zenon, <1>1
    <3> HIDE DEF v, s
    <3>3. 1 \in 1 .. Len(s)
      BY <1>2
    <3>4. [s EXCEPT ![1] = v] \in Seq(Unsent) /\ Len([s EXCEPT ![1] = v]) = Len(s)
          /\ [s EXCEPT ![1] = v][1] = v /\ \A i \in 2 .. Len(s) : [s EXCEPT ![1] = v][i] = s[i]
      BY <1>1, <1>2, <3>1, <3>3
    <3> QED
      BY Zenon, <3>1, <3>2, <3>4 DEF s
  <2>4. Left(s, t, "part")
    BY Zenon, <1>4, <2>3 DEF Left
  <2> QED
    BY Zenon, <1>1, <1>2, <1>3, <2>1, <2>2, <2>3, <2>4
<1>5. CASE ~(m.size > 1)
  <2>1. m.size = 1 /\ m.kind \in Kinds
    BY <1>2, <1>5 DEF Unsent
  <2>2. /\ pipe' = [pipe EXCEPT ![m.to] = Append(@, m.kind)]
        /\ out' = [out EXCEPT ![g] = Tail(s)]
    BY Zenon, <1>2, <1>5 DEF Write
  <2>3. Tail(s) \in Seq(Unsent) /\ Len(Tail(s)) = Len(s) - 1
        /\ \A i \in 1 .. Len(s) - 1 : Tail(s)[i] = s[i + 1]
    <3> HIDE DEF s
    <3> QED
      BY Zenon, <1>1, HeadTailProperties
  <2>4. Left(s, Tail(s), m.kind)
    BY Zenon, <2>1, <2>3 DEF Left
  <2> QED
    BY Zenon, <1>1, <1>2, <1>3, <2>1, <2>2, <2>3, <2>4
<1> QED
  BY Zenon, <1>4, <1>5

\* What is left was there before.
LEMMA LeftProperties ==
  ASSUME NEW s \in Seq(Unsent), NEW t \in Seq(Unsent), NEW u, Len(s) > 0, Left(s, t, u)
  PROVE  \A i \in 1 .. Len(t) : \E j \in 1 .. Len(s) :
           t[i].to = s[j].to /\ t[i].kind = s[j].kind /\ (j = Len(s) => i = Len(t))
<1> SUFFICES ASSUME NEW i \in 1 .. Len(t)
             PROVE  \E j \in 1 .. Len(s) :
                      t[i].to = s[j].to /\ t[i].kind = s[j].kind /\ (j = Len(s) => i = Len(t))
  BY Zenon
<1>1. Len(s) \in Nat /\ Len(t) \in Nat
  BY Zenon, LenProperties
<1>2. CASE Len(t) = Len(s) /\ t[1] = Message(s[1].to, s[1].kind, s[1].size - 1)
           /\ \A k \in 2 .. Len(s) : t[k] = s[k]
  <2>1. i \in 1 .. Len(s) /\ (i = 1 \/ i \in 2 .. Len(s))
    BY <1>1, <1>2
  <2>2. t[i].to = s[i].to /\ t[i].kind = s[i].kind
    <3>1. CASE i = 1
      BY <1>2, <3>1 DEF Message
    <3>2. CASE i \in 2 .. Len(s)
      BY Zenon, <1>2, <3>2
    <3> QED
      BY Zenon, <2>1, <3>1, <3>2
  <2> QED
    BY Zenon, <1>2, <2>1, <2>2
<1>3. CASE Len(t) = Len(s) - 1 /\ \A k \in 1 .. Len(s) - 1 : t[k] = s[k + 1]
  <2>1. i + 1 \in 1 .. Len(s) /\ i \in 1 .. Len(s) - 1 /\ (i + 1 = Len(s) => i = Len(t))
    BY <1>1, <1>3
  <2>2. t[i] = s[i + 1]
    BY Zenon, <1>3, <2>1
  <2> QED
    BY Zenon, <2>1, <2>2
<1> QED
  BY Zenon, <1>2, <1>3 DEF Left

\* A unit written by WriteMessage keeps the invariant: the lock is held until
\* the last one, and the ACK is written when nothing of the stream is left.
LEMMA WriteInv ==
  ASSUME Inv, NEW g \in Goroutines, Write(g)
  PROVE  Inv'
<1> DEFINE s == out[g]  m == s[1]  x == m.to
<1>1. /\ s \in Seq(Unsent) /\ s # <<>> /\ Len(s) \in Nat /\ Len(s) > 0
      /\ m \in Unsent /\ Head(s) = m
      /\ wmu[x] \in {Nobody, g} /\ Len(pipe[x]) < Cap
      /\ wmu' = [wmu EXCEPT ![x] = IF m.size > 1 THEN g ELSE Nobody]
      /\ UNCHANGED <<phase, hphase, changes, events>>
  BY Zenon, WriteStep DEF Inv
<1>2. PICK t \in Seq(Unsent), u \in Kinds \cup {"part"} :
        Left(s, t, u) /\ out' = [out EXCEPT ![g] = t] /\ pipe' = [pipe EXCEPT ![x] = Append(@, u)]
  BY WriteStep DEF Inv
<1>3. /\ out \in [Goroutines -> Seq(Unsent)] /\ pipe \in [Pipes -> Seq(Kinds \cup {"part"})]
      /\ wmu \in [Pipes -> Goroutines \cup {Nobody}]
      /\ x \in Pipes /\ m.size \in Nat /\ 1 \in 1 .. Len(s)
      /\ \A y \in Pipes : Len(pipe[y]) \in Nat
  <2>1. 1 \in 1 .. Len(s)
    BY <1>1
  <2> QED
    BY <1>1, <2>1 DEF Inv, TypeOK, Unsent
<1>4. \A h \in Goroutines : out'[h] = IF h = g THEN t ELSE out[h]
  BY Zenon, <1>2, <1>3
<1> DEFINE p == Append(pipe[x], u)
<1>5. \A y \in Pipes : pipe'[y] = IF y = x THEN p ELSE pipe[y]
  BY Zenon, <1>2, <1>3
<1>6. p \in Seq(Kinds \cup {"part"}) /\ Len(p) = Len(pipe[x]) + 1 /\ p[Len(pipe[x]) + 1] = u
      /\ \A i \in 1 .. Len(pipe[x]) : p[i] = pipe[x][i]
  <2> DEFINE px == pipe[x]  K == Kinds \cup {"part"}
  <2>1. px \in Seq(K) /\ u \in K
    BY Zenon, <1>3
  <2> HIDE DEF px, K
  <2>2. Append(px, u) \in Seq(K) /\ Len(Append(px, u)) = Len(px) + 1
        /\ Append(px, u)[Len(px) + 1] = u /\ \A i \in 1 .. Len(px) : Append(px, u)[i] = px[i]
    BY <2>1, AppendProperties
  <2> QED
    BY Zenon, <2>2 DEF px, K
<1>7. Allowed(hphase, g, m) /\ (m.kind = "ack" => 1 = Len(s))
  BY Zenon, <1>3 DEF Inv, OutInv
<1>8. \A h \in Goroutines : out'[h] # <<>> => out[h] # <<>>
  BY Zenon, <1>1, <1>4
<1> HIDE DEF s, m, x, p
<1>9. TypeOK'
  <2>1. out' \in [Goroutines -> Seq(Unsent)]
    BY Zenon, <1>2, <1>3
  <2>2. pipe' \in [Pipes -> Seq(Kinds \cup {"part"})]
    BY Zenon, <1>2, <1>3, <1>6 DEF p
  <2>3. \A y \in Pipes : Len(pipe'[y]) <= Cap
    <3> SUFFICES ASSUME NEW y \in Pipes PROVE Len(pipe'[y]) <= Cap
      BY Zenon
    <3>1. Len(p) <= Cap
      BY <1>1, <1>3, <1>6, TransferAssumption
    <3> QED
      BY Zenon, <3>1, <1>5 DEF Inv, TypeOK
  <2>4. wmu' \in [Pipes -> Goroutines \cup {Nobody}]
    BY Zenon, <1>1, <1>3
  <2> QED
    BY Zenon, <1>1, <2>1, <2>2, <2>3, <2>4 DEF Inv, TypeOK, Unsent
<1>10. OutInv'
  <2> SUFFICES ASSUME NEW h \in Goroutines, NEW i \in 1 .. Len(out'[h])
               PROVE  /\ Allowed(hphase', h, out'[h][i])
                      /\ out'[h][i].kind = "ack" => i = Len(out'[h])
    BY Zenon DEF OutInv
  <2>1. CASE h # g
    <3>1. out'[h] = out[h]
      BY Zenon, <2>1, <1>4
    <3>2. hphase' = hphase
      BY Zenon, <1>1
    <3> QED
      BY Zenon, <3>1, <3>2 DEF Inv, OutInv
  <2>2. CASE h = g
    <3>1. out'[h] = t /\ i \in 1 .. Len(t)
      BY Zenon, <2>2, <1>4
    <3>2. PICK j \in 1 .. Len(s) :
            t[i].to = s[j].to /\ t[i].kind = s[j].kind /\ (j = Len(s) => i = Len(t))
      BY ZenonT(30), <3>1, <1>1, <1>2, LeftProperties
    <3>3. Allowed(hphase, g, s[j]) /\ (s[j].kind = "ack" => j = Len(s))
      BY Zenon DEF Inv, OutInv, s
    <3> QED
      BY Zenon, <2>2, <3>1, <3>2, <3>3, <1>1 DEF Allowed
  <2> QED
    BY Zenon, <2>1, <2>2
<1>11. LockInv'
  <2> SUFFICES ASSUME NEW y \in Pipes, wmu'[y] # Nobody
               PROVE  out'[wmu'[y]] # <<>> /\ Head(out'[wmu'[y]]).to = y
    BY Zenon DEF LockInv
  <2>1. CASE y = x
    <3>1. m.size > 1 /\ wmu'[y] = g
      BY Zenon, <2>1, <1>1, <1>3
    <3>2. Len(t) = Len(s) /\ t[1].to = m.to
      BY <3>1, <1>2, <1>3 DEF Left, Message, m
    <3>3. t # <<>> /\ Head(t) = t[1]
      BY <3>2, <1>1, EmptySeq
    <3> QED
      BY Zenon, <2>1, <3>1, <3>2, <3>3, <1>4 DEF x
  <2>2. CASE y # x
    <3>1. wmu'[y] = wmu[y] /\ wmu[y] \in Goroutines
      BY Zenon, <2>2, <1>1, <1>3
    <3>2. out[wmu[y]] # <<>> /\ Head(out[wmu[y]]).to = y
      BY Zenon, <3>1 DEF Inv, LockInv
    <3>3. wmu[y] # g
      BY Zenon, <2>2, <3>2, <1>1 DEF s, m, x
    <3> QED
      BY Zenon, <3>1, <3>2, <3>3, <1>4
  <2> QED
    BY Zenon, <2>1, <2>2
<1>12. ASSUME NEW c \in Clients PROVE ClientInv(c)'
  <2>1. ClientInv(c) /\ phase'[c] = phase[c] /\ hphase'[c] = hphase[c]
        /\ Main(c) \in Goroutines /\ Sender(c) \in Goroutines /\ Handler(c) \in Goroutines
        /\ UpTo(c) \in Pipes /\ DownTo(c) \in Pipes
    BY Zenon, <1>1, Names, Directions DEF Inv
  <2>2. StreamWritten(c) => StreamWritten(c)'
    BY Zenon, <2>1, <1>8 DEF StreamWritten
  <2>3. ASSUME out'[Main(c)] # <<>>, phase[c] = "tree"
        PROVE  Len(out'[Main(c)]) = 1
               /\ Len(pipe'[UpTo(c)]) + out'[Main(c)][1].size <= ClientTree[c]
    <3>1. Len(out[Main(c)]) = 1 /\ Len(pipe[UpTo(c)]) + out[Main(c)][1].size <= ClientTree[c]
          /\ out[Sender(c)] = <<>>
      BY Zenon, <2>1, <2>3, <1>8 DEF ClientInv
    <3>2. CASE g = Main(c)
      <4>1. x = UpTo(c) /\ Len(s) = 1 /\ Len(pipe[x]) + m.size <= ClientTree[c]
        BY <3>1, <3>2, <2>1, <1>7, Names DEF Allowed, x, m, s
      <4>2. out'[Main(c)] = t /\ t # <<>>
        BY Zenon, <2>1, <2>3, <3>2, <1>4
      <4>3. Len(t) # 0
        BY Zenon, <4>2, EmptySeq
      <4>4. Len(t) = 1 /\ t[1].size = m.size - 1
        BY <4>1, <4>3, <1>2 DEF Left, Message, m
      <4>5. Len(pipe'[UpTo(c)]) = Len(pipe[x]) + 1
        BY Zenon, <4>1, <1>3, <1>5, <1>6
      <4> QED
        BY <4>1, <4>2, <4>4, <4>5, <1>3, TransferAssumption
    <3>3. CASE g # Main(c)
      <4>1. out'[Main(c)] = out[Main(c)]
        BY Zenon, <2>1, <3>3, <1>4
      <4>2. x # UpTo(c)
        <5>1. ASSUME x = UpTo(c) PROVE FALSE
          <6>1. g[1] \in {"main", "sender"}
            BY Zenon, <5>1, <1>7, Directions DEF Allowed, x
          <6>2. g[2] = c /\ (g = Main(g[2]) \/ g = Sender(g[2]))
            BY <5>1, <6>1, <1>7, Directions, Names DEF Allowed, x
          <6> QED
            BY Zenon, <3>1, <3>3, <6>2, <1>1 DEF s
        <5> QED
          BY Zenon, <5>1
      <4> QED
        BY Zenon, <2>1, <3>1, <4>1, <4>2, <1>5
    <3> QED
      BY Zenon, <3>2, <3>3
  <2>4. ASSUME NEW i \in 1 .. Len(pipe'[DownTo(c)]), pipe'[DownTo(c)][i] = "ack"
        PROVE  StreamWritten(c)'
    <3>1. CASE DownTo(c) # x
      BY Zenon, <2>1, <2>2, <2>4, <3>1, <1>5 DEF ClientInv
    <3>2. CASE DownTo(c) = x
      <4>1. pipe'[DownTo(c)] = p /\ i \in 1 .. Len(pipe[x]) + 1
        BY Zenon, <2>1, <2>4, <3>2, <1>5, <1>6
      <4>2. CASE i \in 1 .. Len(pipe[x])
        <5>1. pipe[DownTo(c)][i] = "ack"
          BY Zenon, <2>4, <3>2, <4>1, <4>2, <1>6
        <5> QED
          BY Zenon, <2>1, <2>2, <3>2, <4>2, <5>1 DEF ClientInv
      <4>3. CASE i = Len(pipe[x]) + 1
        <5>1. u = "ack"
          BY Zenon, <2>4, <4>1, <4>3, <1>6
        <5>2. m.size = 1 /\ m.kind = "ack" /\ Len(t) = Len(s) - 1
          BY Zenon, <5>1, <1>2 DEF Left, m
        <5>3. Len(s) = 1 /\ g[1] = "handler" /\ hphase[g[2]] = "stream" /\ x = DownTo(g[2])
          BY Zenon, <5>2, <1>7 DEF Allowed, x
        <5>4. g[2] = c /\ g = Handler(c)
          BY <3>2, <5>3, Names, Directions
        <5>5. t = <<>>
          BY <5>2, <5>3, EmptySeq
        <5> QED
          BY Zenon, <2>1, <5>3, <5>4, <5>5, <1>4 DEF StreamWritten
      <4>4. Len(pipe[x]) \in Nat
        BY Zenon, <1>3
      <4>5. i \in 1 .. Len(pipe[x]) \/ i = Len(pipe[x]) + 1
        BY <4>1, <4>4
      <4> QED
        BY Zenon, <4>2, <4>3, <4>5
    <3> QED
      BY Zenon, <3>1, <3>2
  <2> QED
    BY Zenon, <2>1, <2>2, <2>3, <2>4, <1>8 DEF ClientInv
<1> QED
  BY Zenon, <1>9, <1>10, <1>11, <1>12 DEF Inv

-----------------------------------------------------------------------------
(* The effect of all other steps: one goroutine, which had nothing left to *)
(* write, gets something to write, or nothing, and no pipe gets longer.    *)

\* Units may have been read, and none was written.
Shrinks ==
  /\ pipe' \in [Pipes -> Seq(Kinds \cup {"part"})]
  /\ \A x \in Pipes :
       /\ Len(pipe'[x]) \in Nat /\ Len(pipe'[x]) <= Len(pipe[x])
       /\ \A i \in 1 .. Len(pipe'[x]) : \E j \in 1 .. Len(pipe[x]) : pipe'[x][i] = pipe[x][j]

\* ReadMessage takes the first unit of a direction and leaves the rest.
LEMMA TakeStep ==
  ASSUME TypeOK, NEW x \in Pipes, NEW unit, Takes(x, unit)
  PROVE  /\ Shrinks /\ UNCHANGED <<wmu, changes, events>>
         /\ Len(pipe[x]) \in Nat /\ Len(pipe[x]) > 0 /\ pipe[x][1] = unit
<1> DEFINE K == Kinds \cup {"part"}  p == pipe[x]
<1>1. /\ pipe \in [Pipes -> Seq(K)] /\ p \in Seq(K) /\ p # <<>> /\ Head(p) = unit
      /\ pipe' = [pipe EXCEPT ![x] = Tail(p)] /\ UNCHANGED <<wmu, changes, events>>
  BY Zenon DEF TypeOK, Takes
<1> HIDE DEF K, p
<1>2. Tail(p) \in Seq(K) /\ Len(Tail(p)) = Len(p) - 1 /\ Len(p) \in Nat /\ Len(p) > 0
      /\ Head(p) = p[1] /\ \A i \in 1 .. Len(Tail(p)) : Tail(p)[i] = p[i + 1]
  BY <1>1, HeadTailProperties, LenProperties, EmptySeq
<1>3. pipe' \in [Pipes -> Seq(K)]
  BY Zenon, <1>1, <1>2
<1>4. ASSUME NEW y \in Pipes
      PROVE  /\ Len(pipe'[y]) \in Nat /\ Len(pipe'[y]) <= Len(pipe[y])
             /\ \A i \in 1 .. Len(pipe'[y]) : \E j \in 1 .. Len(pipe[y]) : pipe'[y][i] = pipe[y][j]
  <2>1. CASE y = x
    <3>1. pipe'[y] = Tail(p) /\ pipe[y] = p
      BY Zenon, <2>1, <1>1 DEF p
    <3>2. ASSUME NEW i \in 1 .. Len(Tail(p)) PROVE \E j \in 1 .. Len(p) : Tail(p)[i] = p[j]
      <4>1. i + 1 \in 1 .. Len(p)
        BY <1>2
      <4> QED
        BY Zenon, <4>1, <1>2
    <3> QED
      BY <3>1, <3>2, <1>2
  <2>2. CASE y # x
    <3>1. pipe'[y] = pipe[y] /\ pipe[y] \in Seq(K)
      BY Zenon, <2>2, <1>1
    <3>2. Len(pipe[y]) \in Nat
      BY Zenon, <3>1, LenProperties
    <3> QED
      BY <3>1, <3>2
  <2> QED
    BY Zenon, <2>1, <2>2
<1> QED
  BY Zenon, <1>1, <1>2, <1>3, <1>4 DEF Shrinks, K, p

\* A step that neither reads nor writes.
LEMMA SamePipes ==
  ASSUME TypeOK, pipe' = pipe
  PROVE  Shrinks
<1>1. \A x \in Pipes : Len(pipe[x]) \in Nat
  BY Zenon, LenProperties DEF TypeOK
<1> QED
  BY <1>1 DEF Shrinks, TypeOK

\* Goroutine g had nothing to write and now has the messages new.
Gets(g, new) ==
  /\ out[g] = <<>> /\ new \in Seq(Unsent)
  /\ out' = [out EXCEPT ![g] = new]
  /\ wmu' = wmu

\* A step after which goroutine g still has nothing to write.
LEMMA NothingNew ==
  ASSUME TypeOK, NEW g \in Goroutines, out[g] = <<>>, out' = out, wmu' = wmu
  PROVE  Gets(g, <<>>)
<1>1. <<>> \in Seq(Unsent)
  BY Zenon, EmptySeq
<1>2. out = [out EXCEPT ![g] = <<>>]
  BY Zenon DEF TypeOK
<1> QED
  BY Zenon, <1>1, <1>2 DEF Gets

\* Any handler or loop that decides what to write next: the goroutines that had
\* something to write are not disturbed.
LEMMA OtherInv ==
  ASSUME Inv, NEW g \in Goroutines, NEW new, Gets(g, new), Shrinks,
         phase' \in [Clients -> {"tree", "apply", "data", "upload", "live"}],
         hphase' \in [Clients -> {"tree", "stream", "live"}],
         changes' \in 0 .. MaxChanges, events' \in 0 .. MaxEvents,
         \A c \in Clients : hphase'[c] # hphase[c] => g = Handler(c),
         \A i \in 1 .. Len(new) :
           Allowed(hphase', g, new[i]) /\ (new[i].kind = "ack" => i = Len(new)),
         \A c \in Clients : ClientInv(c)'
  PROVE  Inv'
<1>1. /\ out \in [Goroutines -> Seq(Unsent)] /\ out[g] = <<>> /\ new \in Seq(Unsent)
      /\ out' = [out EXCEPT ![g] = new] /\ wmu' = wmu
  BY Zenon DEF Inv, TypeOK, Unsent, Gets
<1>2. \A h \in Goroutines : out'[h] = IF h = g THEN new ELSE out[h]
  BY Zenon, <1>1
<1>3. TypeOK'
  <2>1. out' \in [Goroutines -> Seq(Unsent)]
    BY Zenon, <1>1
  <2>2. \A x \in Pipes : Len(pipe'[x]) <= Cap
    <3> SUFFICES ASSUME NEW x \in Pipes PROVE Len(pipe'[x]) <= Cap
      BY Zenon
    <3>1. Len(pipe'[x]) \in Nat /\ Len(pipe'[x]) <= Len(pipe[x]) /\ Len(pipe[x]) <= Cap
          /\ Len(pipe[x]) \in Nat /\ Cap \in Nat
      BY Zenon, LenProperties, TransferAssumption DEF Inv, TypeOK, Shrinks
    <3> QED
      BY <3>1
  <2>3. wmu' \in [Pipes -> Goroutines \cup {Nobody}]
    BY Zenon, <1>1 DEF Inv, TypeOK
  <2> QED
    BY Zenon, <2>1, <2>2, <2>3 DEF TypeOK, Unsent, Shrinks
<1>4. OutInv'
  <2> SUFFICES ASSUME NEW h \in Goroutines, NEW i \in 1 .. Len(out'[h])
               PROVE  /\ Allowed(hphase', h, out'[h][i])
                      /\ out'[h][i].kind = "ack" => i = Len(out'[h])
    BY Zenon DEF OutInv
  <2>1. CASE h = g
    BY Zenon, <2>1, <1>2
  <2>2. CASE h # g
    <3>1. out'[h] = out[h]
      BY Zenon, <2>2, <1>2
    <3>2. Allowed(hphase, h, out[h][i]) /\ (out[h][i].kind = "ack" => i = Len(out[h]))
      BY Zenon, <3>1 DEF Inv, OutInv
    <3>3. h[1] = "handler" => hphase'[h[2]] = hphase[h[2]]
      BY SMTT(30), <2>2, Names
    <3> QED
      BY Zenon, <3>1, <3>2, <3>3 DEF Allowed
  <2> QED
    BY Zenon, <2>1, <2>2
<1>5. LockInv'
  BY Zenon, <1>1, <1>2 DEF Inv, LockInv, TypeOK
<1> QED
  BY Zenon, <1>3, <1>4, <1>5 DEF Inv

\* Of an ACK under way to client c the stream was written before.
LEMMA AckKept ==
  ASSUME NEW c \in Clients, ClientInv(c), Shrinks
  PROVE  \A i \in 1 .. Len(pipe'[DownTo(c)]) : pipe'[DownTo(c)][i] = "ack" => StreamWritten(c)
<1> SUFFICES ASSUME NEW i \in 1 .. Len(pipe'[DownTo(c)]), pipe'[DownTo(c)][i] = "ack"
             PROVE  StreamWritten(c)
  BY Zenon
<1>1. DownTo(c) \in Pipes
  BY Zenon, Directions
<1>2. PICK j \in 1 .. Len(pipe[DownTo(c)]) : pipe'[DownTo(c)][i] = pipe[DownTo(c)][j]
  BY Zenon, <1>1 DEF Shrinks
<1> QED
  BY Zenon, <1>2 DEF ClientInv

\* A client that nothing happens to but that units under way are read.
LEMMA ClientKept ==
  ASSUME TypeOK, NEW c \in Clients, ClientInv(c), Shrinks,
         phase'[c] = phase[c], hphase'[c] = hphase[c],
         out'[Main(c)] = out[Main(c)], out'[Sender(c)] = out[Sender(c)],
         out'[Handler(c)] = out[Handler(c)]
  PROVE  ClientInv(c)'
<1>1. StreamWritten(c)' <=> StreamWritten(c)
  BY Zenon DEF StreamWritten
<1>2. \A i \in 1 .. Len(pipe'[DownTo(c)]) : pipe'[DownTo(c)][i] = "ack" => StreamWritten(c)
  BY Zenon, AckKept
<1>3. ASSUME out[Main(c)] # <<>>, phase[c] = "tree"
      PROVE  Len(out[Main(c)]) = 1 /\ Len(pipe'[UpTo(c)]) + out[Main(c)][1].size <= ClientTree[c]
  <2>1. Len(out[Main(c)]) = 1 /\ Len(pipe[UpTo(c)]) + out[Main(c)][1].size <= ClientTree[c]
    BY Zenon, <1>3 DEF ClientInv
  <2>2. UpTo(c) \in Pipes /\ Main(c) \in Goroutines
    BY Zenon, Names, Directions
  <2>3. Len(pipe'[UpTo(c)]) \in Nat /\ Len(pipe'[UpTo(c)]) <= Len(pipe[UpTo(c)])
        /\ Len(pipe[UpTo(c)]) \in Nat
    BY Zenon, <2>2, LenProperties DEF Shrinks, TypeOK
  <2>4. out[Main(c)][1].size \in Nat /\ ClientTree[c] \in Nat
    <3>1. out[Main(c)] \in Seq(Unsent)
      BY Zenon, <2>2 DEF TypeOK, Unsent
    <3>2. out[Main(c)][1] \in Unsent
      BY <2>1, <3>1, ElementOfSeq
    <3> QED
      BY Zenon, <3>2, TransferAssumption DEF Unsent
  <2> QED
    BY <2>1, <2>3, <2>4
<1> QED
  BY Zenon, <1>1, <1>2, <1>3 DEF ClientInv

\* A step that only reads a unit.
LEMMA PipesOnlyInv ==
  ASSUME Inv, Shrinks, UNCHANGED <<phase, hphase, out, wmu, changes, events>>
  PROVE  Inv'
<1>1. TypeOK'
  <2>1. \A x \in Pipes : Len(pipe'[x]) <= Cap
    <3> SUFFICES ASSUME NEW x \in Pipes PROVE Len(pipe'[x]) <= Cap
      BY Zenon
    <3>1. Len(pipe'[x]) \in Nat /\ Len(pipe'[x]) <= Len(pipe[x]) /\ Len(pipe[x]) <= Cap
          /\ Len(pipe[x]) \in Nat /\ Cap \in Nat
      BY Zenon, LenProperties, TransferAssumption DEF Inv, TypeOK, Shrinks
    <3> QED
      BY <3>1
  <2> QED
    BY Zenon, <2>1 DEF Inv, TypeOK, Shrinks
<1>2. OutInv' /\ LockInv'
  BY Zenon DEF Inv, OutInv, LockInv
<1>3. \A c \in Clients : ClientInv(c)'
  BY Zenon, ClientKept DEF Inv
<1> QED
  BY Zenon, <1>1, <1>2, <1>3 DEF Inv

\* The main goroutine of client c goes to a phase in which it only reads.
LEMMA PhaseInv ==
  ASSUME Inv, Shrinks, NEW c \in Clients, NEW q \in {"apply", "data", "live"},
         out[Main(c)] = <<>>, out[Sender(c)] # <<>> => q = "live",
         phase' = [phase EXCEPT ![c] = q], UNCHANGED <<hphase, out, wmu, changes, events>>
  PROVE  Inv'
<1>1. /\ phase \in [Clients -> {"tree", "apply", "data", "upload", "live"}]
      /\ hphase \in [Clients -> {"tree", "stream", "live"}]
      /\ changes \in 0 .. MaxChanges /\ events \in 0 .. MaxEvents
      /\ Main(c) \in Goroutines /\ TypeOK
  BY Zenon, Names DEF Inv, TypeOK
<1>2. ASSUME NEW d \in Clients PROVE ClientInv(d)'
  <2>1. CASE d # c
    BY Zenon, <1>1, <2>1, ClientKept DEF Inv
  <2>2. CASE d = c
    <3>1. phase'[c] = q
      BY Zenon, <1>1
    <3>2. StreamWritten(c)' <=> StreamWritten(c)
      BY Zenon DEF StreamWritten
    <3>3. \A i \in 1 .. Len(pipe'[DownTo(c)]) : pipe'[DownTo(c)][i] = "ack" => StreamWritten(c)
      BY Zenon, AckKept DEF Inv
    <3> QED
      BY Zenon, <2>2, <3>1, <3>2, <3>3 DEF ClientInv
  <2> QED
    BY Zenon, <2>1, <2>2
<1>3. Gets(Main(c), <<>>)
  BY Zenon, <1>1, NothingNew
<1>4. phase' \in [Clients -> {"tree", "apply", "data", "upload", "live"}]
  BY Zenon, <1>1
<1>5. \A i \in 1 .. Len(<<>>) : FALSE
  BY EmptySeq
<1> QED
  BY Zenon, <1>1, <1>2, <1>3, <1>4, <1>5, OtherInv

\* The messages that runSession and handleLocalEvent write one after another.
LEMMA MessagesType ==
  ASSUME NEW x \in Pipes, NEW kinds \in Seq(Kinds)
  PROVE  /\ Messages(x, kinds) \in Seq(Unsent) /\ Len(Messages(x, kinds)) = Len(kinds)
         /\ \A i \in 1 .. Len(kinds) :
              Messages(x, kinds)[i].to = x /\ Messages(x, kinds)[i].kind = kinds[i]
<1>1. Len(kinds) \in Nat /\ DOMAIN kinds = 1 .. Len(kinds)
      /\ \A i \in 1 .. Len(kinds) : kinds[i] \in Kinds
  BY Zenon, LenProperties, ElementOfSeq
<1>2. Messages(x, kinds) = [i \in 1 .. Len(kinds) |-> Message(x, kinds[i], 1)]
  BY Zenon, <1>1 DEF Messages
<1>3. \A i \in 1 .. Len(kinds) : Message(x, kinds[i], 1) \in Unsent
  BY <1>1 DEF Unsent, Message
<1> QED
  BY <1>1, <1>2, <1>3 DEF Message

\* A step that gives client c or a goroutine of the server something to write
\* leaves the other clients alone.
LEMMA OthersKept ==
  ASSUME Inv, NEW g \in Goroutines, NEW new, Gets(g, new), Shrinks, NEW d \in Clients,
         phase'[d] = phase[d], hphase'[d] = hphase[d],
         g \notin {Main(d), Sender(d), Handler(d)}
  PROVE  ClientInv(d)'
<1>1. Main(d) \in Goroutines /\ Sender(d) \in Goroutines /\ Handler(d) \in Goroutines
  BY Zenon, Names
<1>2. out'[Main(d)] = out[Main(d)] /\ out'[Sender(d)] = out[Sender(d)]
      /\ out'[Handler(d)] = out[Handler(d)]
  BY Zenon, <1>1 DEF Gets, Inv, TypeOK
<1> QED
  BY Zenon, <1>2, ClientKept DEF Inv

\* The ACK ends the stream of the server: the client uploads.
LEMMA UploadInv ==
  ASSUME Inv, NEW c \in Clients, ClientReadsData(c, "ack")
  PROVE  Inv'
<1> DEFINE new == Messages(UpTo(c), Uploads[c])  g == Main(c)
<1>1. /\ phase[c] = "data" /\ out[g] = <<>> /\ Takes(DownTo(c), "ack")
      /\ phase' = [phase EXCEPT ![c] = "upload"] /\ out' = [out EXCEPT ![g] = new]
      /\ hphase' = hphase
  BY Zenon DEF ClientReadsData
<1>2. g \in Goroutines /\ g[1] = "main" /\ g[2] = c /\ UpTo(c) \in Pipes /\ DownTo(c) \in Pipes
      /\ Sender(c) \in Goroutines /\ Handler(c) \in Goroutines
      /\ g # Sender(c) /\ g # Handler(c)
  BY Zenon, Names, Directions
<1>3. Shrinks /\ UNCHANGED <<wmu, changes, events>> /\ Len(pipe[DownTo(c)]) \in Nat
      /\ Len(pipe[DownTo(c)]) > 0 /\ pipe[DownTo(c)][1] = "ack"
  BY Zenon, <1>1, <1>2, TakeStep DEF Inv
<1>4. Uploads[c] \in Seq(Kinds) /\ \A i \in 1 .. Len(Uploads[c]) : Uploads[c][i] # "ack"
  <2>1. Uploads[c] \in Seq({"create", "data", "delete"})
    BY Zenon, TransferAssumption
  <2>2. \A i \in 1 .. Len(Uploads[c]) : Uploads[c][i] \in {"create", "data", "delete"}
    BY Zenon, <2>1, ElementOfSeq
  <2> QED
    BY <2>1, <2>2 DEF Kinds
<1>5. new \in Seq(Unsent) /\ Len(new) = Len(Uploads[c])
      /\ \A i \in 1 .. Len(new) : new[i].to = UpTo(c) /\ new[i].kind = Uploads[c][i]
  BY <1>2, <1>4, MessagesType
<1> HIDE DEF new, g
<1>6. Gets(g, new)
  BY Zenon, <1>1, <1>3, <1>5 DEF Gets
<1>7. \A i \in 1 .. Len(new) : Allowed(hphase', g, new[i]) /\ (new[i].kind = "ack" => i = Len(new))
  BY <1>2, <1>4, <1>5 DEF Allowed
<1>8. /\ phase \in [Clients -> {"tree", "apply", "data", "upload", "live"}]
      /\ hphase \in [Clients -> {"tree", "stream", "live"}]
      /\ changes \in 0 .. MaxChanges /\ events \in 0 .. MaxEvents
      /\ out \in [Goroutines -> Seq(Unsent)]
  BY Zenon DEF Inv, TypeOK, Unsent
<1>9. ASSUME NEW d \in Clients PROVE ClientInv(d)'
  <2>1. CASE d # c
    <3>1. g \notin {Main(d), Sender(d), Handler(d)}
      BY <2>1, <1>2, Names
    <3>2. phase'[d] = phase[d] /\ hphase'[d] = hphase[d]
      BY Zenon, <1>1, <1>8, <2>1
    <3> QED
      BY Zenon, <1>2, <1>3, <1>6, <3>1, <3>2, OthersKept
  <2>2. CASE d = c
    <3>1. phase'[c] = "upload" /\ out'[g] = new /\ out'[Sender(c)] = out[Sender(c)]
          /\ out'[Handler(c)] = out[Handler(c)]
      BY Zenon, <1>1, <1>2, <1>8
    <3>2. StreamWritten(c)
      <4>1. 1 \in 1 .. Len(pipe[DownTo(c)])
        BY <1>3
      <4> QED
        BY Zenon, <1>3, <4>1 DEF Inv, ClientInv
    <3>3. StreamWritten(c)'
      BY Zenon, <3>1, <3>2, <1>1 DEF StreamWritten
    <3>4. out[Sender(c)] = <<>>
      BY Zenon, <1>1 DEF Inv, ClientInv
    <3>5. new # <<>> => Uploads[c] # <<>>
      BY Zenon, <1>4, <1>5, EmptySeq
    <3> QED
      BY Zenon, <2>2, <3>1, <3>3, <3>4, <3>5 DEF ClientInv, g
  <2> QED
    BY Zenon, <2>1, <2>2
<1>10. phase' \in [Clients -> {"tree", "apply", "data", "upload", "live"}]
  BY Zenon, <1>1, <1>8
<1> QED
  BY Zenon, <1>1, <1>2, <1>3, <1>6, <1>7, <1>8, <1>9, <1>10, OtherInv

-----------------------------------------------------------------------------
(* What the goroutines of a client and of the server send.                 *)

\* The place of the i-th of n groups of k messages, and its place in the group.
LEMMA Quotient ==
  ASSUME NEW n \in Nat, NEW k \in Nat \ {0}, NEW i \in 1 .. n * k
  PROVE  ((i - 1) \div k) + 1 \in 1 .. n /\ ((i - 1) % k) + 1 \in 1 .. k
<1>1. n * k \in Nat
  OBVIOUS
<1>2. i - 1 \in Nat /\ i - 1 < n * k
  BY <1>1
<1>3. PICK q \in Nat, r \in 0 .. k - 1 : q = (i - 1) \div k /\ r = (i - 1) % k /\ i - 1 = k * q + r
  <2> DEFINE j == i - 1
  <2> HIDE DEF j
  <2>1. j \in Nat
    BY Zenon, <1>2 DEF j
  <2>2. j \div k \in Nat /\ j % k \in 0 .. k - 1 /\ j = k * (j \div k) + (j % k)
    BY <2>1
  <2> QED
    BY Zenon, <2>2 DEF j
<1>4. k * q < k * n
  BY <1>2, <1>3
<1>5. q < n
  BY <1>4
<1> QED
  BY <1>3, <1>5

\* A change of a file is one message or two, and no ACK.
Change(kinds) ==
  kinds \in Seq(Kinds) /\ Len(kinds) > 0 /\ \A i \in 1 .. Len(kinds) : kinds[i] # "ack"

\* FILE_CREATE or FILE_MODIFY with content, or a message without any.
LEMMA OneOrTwo ==
  ASSUME NEW a \in Kinds \ {"ack"}, NEW b \in Kinds \ {"ack"}
  PROVE  Change(<<a>>) /\ Change(<<a, b>>)
<1>1. <<a>> \in Seq(Kinds) /\ Len(<<a>>) = 1 /\ <<a>>[1] = a
  OBVIOUS
<1>2. <<a, b>> \in Seq(Kinds) /\ Len(<<a, b>>) = 2 /\ <<a, b>>[1] = a /\ <<a, b>>[2] = b
  OBVIOUS
<1>3. \A i \in 1 .. 2 : i = 1 \/ i = 2
  OBVIOUS
<1>4. \A i \in 1 .. 1 : i = 1
  OBVIOUS
<1> QED
  BY <1>1, <1>2, <1>3, <1>4 DEF Change

\* The types that every step below needs.
LEMMA Types ==
  ASSUME Inv
  PROVE  /\ phase \in [Clients -> {"tree", "apply", "data", "upload", "live"}]
         /\ hphase \in [Clients -> {"tree", "stream", "live"}]
         /\ changes \in 0 .. MaxChanges /\ events \in 0 .. MaxEvents
         /\ out \in [Goroutines -> Seq(Unsent)] /\ TypeOK
         /\ MaxChanges \in Nat /\ MaxEvents \in Nat
BY Zenon, TransferAssumption DEF Inv, TypeOK, Unsent

\* handleLocalEvent sends a local change to the server, in a live session
\* only.
LEMMA LocalChangeInv ==
  ASSUME Inv, NEW c \in Clients, LocalChange(c)
  PROVE  Inv'
<1>1. PICK kinds \in {<<"create", "data">>, <<"create">>, <<"delete">>} :
        out' = [out EXCEPT ![Sender(c)] = Messages(UpTo(c), kinds)]
  BY Zenon DEF LocalChange
<1> DEFINE new == Messages(UpTo(c), kinds)  g == Sender(c)
<1>2. /\ phase[c] = "live" /\ out[g] = <<>> /\ out' = [out EXCEPT ![g] = new]
      /\ changes < MaxChanges /\ changes' = changes + 1
      /\ UNCHANGED <<phase, hphase, pipe, wmu, events>>
  BY Zenon, <1>1 DEF LocalChange
<1>3. g \in Goroutines /\ g[1] = "sender" /\ g[2] = c /\ UpTo(c) \in Pipes
      /\ Main(c) \in Goroutines /\ Handler(c) \in Goroutines /\ g # Main(c) /\ g # Handler(c)
  BY Zenon, Names, Directions
<1>4. kinds \in Seq(Kinds) /\ \A i \in 1 .. Len(kinds) : kinds[i] # "ack"
  <2>1. {"create", "data", "delete"} \subseteq Kinds \ {"ack"}
    BY Zenon DEF Kinds
  <2>2. Change(<<"create", "data">>) /\ Change(<<"create">>) /\ Change(<<"delete">>)
    BY Zenon, <2>1, OneOrTwo
  <2>3. Change(kinds)
    BY Zenon, <2>2
  <2> QED
    BY Zenon, <2>3 DEF Change
<1>5. new \in Seq(Unsent) /\ Len(new) = Len(kinds)
      /\ \A i \in 1 .. Len(new) : new[i].to = UpTo(c) /\ new[i].kind = kinds[i]
  BY <1>3, <1>4, MessagesType
<1> HIDE DEF new, g
<1>6. Gets(g, new) /\ Shrinks
  BY Zenon, <1>2, <1>5, SamePipes DEF Gets, Inv
<1>7. \A i \in 1 .. Len(new) : Allowed(hphase', g, new[i]) /\ (new[i].kind = "ack" => i = Len(new))
  BY Zenon, <1>3, <1>4, <1>5 DEF Allowed
<1>8. ASSUME NEW d \in Clients PROVE ClientInv(d)'
  <2>1. CASE d # c
    <3>1. g \notin {Main(d), Sender(d), Handler(d)}
      BY SMTT(30), <2>1, <1>3, Names
    <3> QED
      BY Zenon, <1>2, <1>3, <1>6, <3>1, OthersKept
  <2>2. CASE d = c
    <3>1. out'[Main(c)] = out[Main(c)] /\ out'[Handler(c)] = out[Handler(c)]
      BY Zenon, <1>2, <1>3, Types
    <3>2. StreamWritten(c)' <=> StreamWritten(c)
      BY Zenon, <1>2, <3>1 DEF StreamWritten
    <3> QED
      BY Zenon, <2>2, <3>1, <3>2, <1>2 DEF Inv, ClientInv
  <2> QED
    BY Zenon, <2>1, <2>2
<1>9. changes' \in 0 .. MaxChanges
  BY <1>2, Types
<1> QED
  BY Zenon, <1>2, <1>3, <1>6, <1>7, <1>8, <1>9, Types, OtherInv

\* Tick and MonitorEvent: something to write for a goroutine of the server that
\* is no handler.
LEMMA EventInv ==
  ASSUME Inv, NEW g \in Goroutines, g[1] \in {"ticker", "monitor"}, NEW new \in Seq(Unsent),
         out[g] = <<>>, out' = [out EXCEPT ![g] = new],
         \A i \in 1 .. Len(new) :
           new[i].kind # "ack" /\ \E d \in Clients : new[i].to = DownTo(d),
         events < MaxEvents, events' = events + 1, UNCHANGED <<phase, hphase, pipe, wmu, changes>>
  PROVE  Inv'
<1>1. Gets(g, new) /\ Shrinks
  BY Zenon, SamePipes DEF Gets, Inv
<1>2. \A i \in 1 .. Len(new) : Allowed(hphase', g, new[i]) /\ (new[i].kind = "ack" => i = Len(new))
  BY Zenon DEF Allowed
<1>3. ASSUME NEW d \in Clients PROVE ClientInv(d)'
  <2>1. g \notin {Main(d), Sender(d), Handler(d)}
    BY Names
  <2> QED
    BY Zenon, <1>1, <2>1, OthersKept
<1>4. events' \in 0 .. MaxEvents
  BY Types
<1> QED
  BY Zenon, <1>1, <1>2, <1>3, <1>4, Types, OtherInv

\* monitorClientChanges sends a SYNC_APPLY to its own client.
LEMMA TickInv ==
  ASSUME Inv, NEW c \in Clients, Tick(c)
  PROVE  Inv'
<1> DEFINE new == <<Message(DownTo(c), "apply", 1)>>
<1>1. Ticker(c) \in Goroutines /\ Ticker(c)[1] = "ticker" /\ DownTo(c) \in Pipes
  BY Zenon, Names, Directions
<1>2. Message(DownTo(c), "apply", 1) \in Unsent
  BY <1>1 DEF Unsent, Message, Kinds
<1>3. new \in Seq(Unsent) /\ Len(new) = 1 /\ new[1] = Message(DownTo(c), "apply", 1)
  BY <1>2
<1>4. \A i \in 1 .. Len(new) : new[i].kind # "ack" /\ \E d \in Clients : new[i].to = DownTo(d)
  BY <1>3 DEF Message
<1> HIDE DEF new
<1>5. out[Ticker(c)] = <<>> /\ out' = [out EXCEPT ![Ticker(c)] = new]
      /\ events < MaxEvents /\ events' = events + 1
      /\ UNCHANGED <<phase, hphase, pipe, wmu, changes>>
  BY Zenon DEF Tick, new
<1> QED
  BY Zenon, <1>1, <1>3, <1>4, <1>5, EventInv


\* The handler answers the client's tree with SYNC_APPLY, the files and, last
\* of all, the ACK; no ACK was under way before and the client is not uploading.
LEMMA HandlerReadsTreeInv ==
  ASSUME Inv, NEW c \in Clients, HandlerReadsTree(c)
  PROVE  Inv'
<1> DEFINE g == Handler(c)  n == Streamed
           a == <<Message(DownTo(c), "apply", 1)>>
           b == Times(n, Message(DownTo(c), "data", 1))
           e == <<Message(DownTo(c), "ack", 1)>>
           new == (a \o b) \o e
<1>1. /\ hphase[c] = "tree" /\ out[g] = <<>> /\ Takes(UpTo(c), "tree")
      /\ hphase' = [hphase EXCEPT ![c] = "stream"] /\ out' = [out EXCEPT ![g] = new]
      /\ phase' = phase
  BY Zenon DEF HandlerReadsTree
<1>2. g \in Goroutines /\ g[1] = "handler" /\ g[2] = c /\ UpTo(c) \in Pipes /\ DownTo(c) \in Pipes
      /\ Main(c) \in Goroutines /\ Sender(c) \in Goroutines /\ g # Main(c) /\ g # Sender(c)
  BY Zenon, Names, Directions
<1>3. Shrinks /\ UNCHANGED <<wmu, changes, events>>
  BY Zenon, <1>1, <1>2, TakeStep DEF Inv
<1>4. \A k \in Kinds : Message(DownTo(c), k, 1) \in Unsent
  BY <1>2 DEF Unsent, Message
<1>5. /\ a \in Seq(Unsent) /\ Len(a) = 1 /\ a[1] = Message(DownTo(c), "apply", 1)
      /\ e \in Seq(Unsent) /\ Len(e) = 1 /\ e[1] = Message(DownTo(c), "ack", 1)
  BY <1>4 DEF Kinds
<1>6. /\ n \in Nat /\ b \in Seq(Unsent) /\ Len(b) = n
      /\ \A i \in 1 .. n : b[i] = Message(DownTo(c), "data", 1)
  <2>1. n \in Nat /\ Message(DownTo(c), "data", 1) \in Unsent
    BY Zenon, <1>4, TransferAssumption DEF Kinds
  <2> HIDE DEF n
  <2> QED
    BY <2>1 DEF Times
<1> HIDE DEF a, b, e, n
<1>7. /\ a \o b \in Seq(Unsent) /\ Len(a \o b) = 1 + n
      /\ \A i \in 1 .. 1 + n : (a \o b)[i] = IF i <= 1 THEN a[i] ELSE b[i - 1]
  <2>1. a \in Seq(Unsent) /\ b \in Seq(Unsent)
    BY Zenon, <1>5, <1>6
  <2>2. /\ a \o b \in Seq(Unsent) /\ Len(a \o b) = Len(a) + Len(b)
        /\ \A i \in 1 .. Len(a) + Len(b) : (a \o b)[i] = IF i <= Len(a) THEN a[i] ELSE b[i - Len(a)]
    BY Zenon, <2>1, ConcatProperties
  <2>3. Len(a) = 1 /\ Len(b) = n
    BY Zenon, <1>5, <1>6
  <2> QED
    BY Zenon, <2>2, <2>3
<1>8. /\ new \in Seq(Unsent) /\ Len(new) = n + 2
      /\ \A i \in 1 .. n + 2 : new[i] = IF i <= 1 + n THEN (a \o b)[i] ELSE e[i - (1 + n)]
  <2> DEFINE f == a \o b
  <2>1. f \in Seq(Unsent) /\ Len(f) = 1 + n
    BY Zenon, <1>7
  <2> HIDE DEF f
  <2>2. /\ f \o e \in Seq(Unsent) /\ Len(f \o e) = Len(f) + Len(e)
        /\ \A i \in 1 .. Len(f) + Len(e) : (f \o e)[i] = IF i <= Len(f) THEN f[i] ELSE e[i - Len(f)]
    BY Zenon, <1>5, <2>1, ConcatProperties
  <2>3. Len(f) + Len(e) = n + 2
    BY <1>5, <1>6, <2>1
  <2> QED
    BY Zenon, <2>1, <2>2, <2>3 DEF f
<1> HIDE DEF new, g
<1>9. ASSUME NEW i \in 1 .. n + 2
      PROVE  new[i].to = DownTo(c) /\ (new[i].kind = "ack" => i = n + 2)
  <2>1. i = 1 \/ i \in 2 .. n + 1 \/ i = n + 2
    BY <1>6
  <2>2. CASE i = 1
    <3>1. new[i] = a[1]
      BY SMTT(30), <2>2, <1>6, <1>7, <1>8
    <3> QED
      BY <3>1, <1>5 DEF Message
  <2>3. CASE i \in 2 .. n + 1
    <3>1. ~(i <= 1) /\ i <= 1 + n /\ i \in 1 .. 1 + n /\ i - 1 \in 1 .. n
      BY <2>3, <1>6
    <3>2. new[i] = b[i - 1]
      BY Zenon, <3>1, <1>7, <1>8
    <3> QED
      BY <3>1, <3>2, <1>6 DEF Message
  <2>4. CASE i = n + 2
    <3>1. ~(i <= 1 + n) /\ i - (1 + n) = 1
      BY <2>4, <1>6
    <3>2. new[i] = e[1]
      BY Zenon, <3>1, <1>8
    <3> QED
      BY <2>4, <3>2, <1>5 DEF Message
  <2> QED
    BY Zenon, <2>1, <2>2, <2>3, <2>4
<1>10. Gets(g, new)
  BY Zenon, <1>1, <1>3, <1>8 DEF Gets
<1>11. hphase' \in [Clients -> {"tree", "stream", "live"}] /\ hphase'[c] = "stream"
       /\ \A d \in Clients : d # c => hphase'[d] = hphase[d]
  BY Zenon, <1>1, Types
<1>12. \A i \in 1 .. Len(new) :
         Allowed(hphase', g, new[i]) /\ (new[i].kind = "ack" => i = Len(new))
  BY Zenon, <1>2, <1>8, <1>9, <1>11 DEF Allowed
<1>13. ASSUME NEW d \in Clients PROVE ClientInv(d)'
  <2>1. CASE d # c
    <3>1. g \notin {Main(d), Sender(d), Handler(d)}
      BY SMTT(30), <2>1, <1>2, Names
    <3> QED
      BY Zenon, <1>1, <1>2, <1>3, <1>10, <1>11, <2>1, <3>1, OthersKept
  <2>2. CASE d = c
    <3>1. ~StreamWritten(c)
      BY Zenon, <1>1 DEF StreamWritten
    <3>2. phase[c] # "upload"
      BY Zenon, <3>1 DEF Inv, ClientInv
    <3>3. \A i \in 1 .. Len(pipe'[DownTo(c)]) : pipe'[DownTo(c)][i] # "ack"
      BY Zenon, <3>1, <1>3, AckKept DEF Inv
    <3>4. out'[Main(c)] = out[Main(c)] /\ out'[Sender(c)] = out[Sender(c)]
      BY Zenon, <1>1, <1>2, Types
    <3>5. Len(pipe'[UpTo(c)]) \in Nat /\ Len(pipe'[UpTo(c)]) <= Len(pipe[UpTo(c)])
          /\ Len(pipe[UpTo(c)]) \in Nat
      BY Zenon, <1>2, <1>3, LenProperties DEF Shrinks, Inv, TypeOK
    <3>6. ASSUME out[Main(c)] # <<>>, phase[c] = "tree"
          PROVE  /\ Len(out[Main(c)]) = 1
                 /\ Len(pipe'[UpTo(c)]) + out[Main(c)][1].size <= ClientTree[c]
      <4>1. /\ Len(out[Main(c)]) = 1
            /\ Len(pipe[UpTo(c)]) + out[Main(c)][1].size <= ClientTree[c]
        BY Zenon, <3>6 DEF Inv, ClientInv
      <4>2. out[Main(c)][1] \in Unsent
        <5>1. out[Main(c)] \in Seq(Unsent) /\ 1 \in 1 .. Len(out[Main(c)])
          BY <1>2, <4>1, Types
        <5> QED
          BY Zenon, <5>1, ElementOfSeq
      <4>3. out[Main(c)][1].size \in Nat /\ ClientTree[c] \in Nat
        BY Zenon, <4>2, TransferAssumption DEF Unsent
      <4> QED
        BY <4>1, <4>3, <3>5
    <3> QED
      BY Zenon, <2>2, <3>2, <3>3, <3>4, <3>6, <1>1 DEF Inv, ClientInv
  <2> QED
    BY Zenon, <2>1, <2>2
<1> QED
  BY Zenon, <1>1, <1>2, <1>3, <1>10, <1>11, <1>12, <1>13, Types, OtherInv DEF g

\* The handler begins its read loop when the stream is written.
LEMMA HandlerGoesLiveInv ==
  ASSUME Inv, NEW c \in Clients, HandlerGoesLive(c)
  PROVE  Inv'
<1> DEFINE g == Handler(c)
<1>1. /\ hphase[c] = "stream" /\ out[g] = <<>> /\ hphase' = [hphase EXCEPT ![c] = "live"]
      /\ UNCHANGED <<phase, out, pipe, wmu, changes, events>>
  BY Zenon DEF HandlerGoesLive
<1>2. g \in Goroutines
  BY Zenon, Names
<1>3. Gets(g, <<>>) /\ Shrinks
  BY Zenon, <1>1, <1>2, Types, NothingNew, SamePipes
<1>4. hphase' \in [Clients -> {"tree", "stream", "live"}] /\ hphase'[c] = "live"
      /\ \A d \in Clients : d # c => hphase'[d] = hphase[d]
  BY Zenon, <1>1, Types
<1>5. ASSUME NEW d \in Clients PROVE ClientInv(d)'
  <2>1. CASE d # c
    BY Zenon, <1>1, <1>3, <1>4, <2>1, Types, ClientKept DEF Inv
  <2>2. CASE d = c
    <3>1. StreamWritten(c)'
      BY Zenon, <1>4 DEF StreamWritten
    <3> QED
      BY Zenon, <2>2, <3>1, <1>1 DEF Inv, ClientInv
  <2> QED
    BY Zenon, <2>1, <2>2
<1>6. \A i \in 1 .. Len(<<>>) : FALSE
  BY EmptySeq
<1> QED
  BY Zenon, <1>1, <1>2, <1>3, <1>4, <1>5, <1>6, Types, OtherInv

-----------------------------------------------------------------------------
(* The reads of the goroutines of a client.                                *)

\* ReadMessage reads a part of a message.
LEMMA ReadsPartInv ==
  ASSUME Inv, NEW g \in Goroutines, NEW x \in Pipes, ReadsPart(g, x)
  PROVE  Inv'
<1>1. Takes(x, "part") /\ UNCHANGED <<phase, hphase, out>>
  BY Zenon DEF ReadsPart
<1>2. Shrinks /\ UNCHANGED <<wmu, changes, events>>
  BY Zenon, <1>1, TakeStep DEF Inv
<1> QED
  BY Zenon, <1>1, <1>2, PipesOnlyInv

\* The client reads the server's tree, its SYNC_APPLY, its chunks and what
\* arrives in a live session.
LEMMA ClientReadsInv ==
  ASSUME Inv, NEW c \in Clients, NEW kind \in Kinds,
         \/ ClientReadsTree(c, kind) \/ ClientReadsApply(c, kind)
         \/ ClientReadsData(c, kind) \/ ClientReadsLive(c, kind)
  PROVE  Inv'
<1>1. out[Main(c)] = <<>> /\ Takes(DownTo(c), kind) /\ hphase' = hphase
  BY Zenon DEF ClientReadsTree, ClientReadsApply, ClientReadsData, ClientReadsLive
<1>2. DownTo(c) \in Pipes
  BY Zenon, Directions
<1>3. Shrinks /\ UNCHANGED <<wmu, changes, events>>
  BY Zenon, <1>1, <1>2, TakeStep DEF Inv
<1>4. phase[c] # "live" => out[Sender(c)] = <<>>
  BY Zenon DEF Inv, ClientInv
<1>5. CASE ClientReadsTree(c, kind)
  <2> DEFINE q == IF kind = "tree" THEN "apply" ELSE "live"
  <2>1. phase[c] = "tree" /\ phase' = [phase EXCEPT ![c] = q] /\ out' = out
    BY Zenon, <1>5 DEF ClientReadsTree
  <2>2. q \in {"apply", "data", "live"}
    BY Zenon
  <2> HIDE DEF q
  <2> QED
    BY Zenon, <1>1, <1>3, <1>4, <2>1, <2>2, PhaseInv
<1>6. CASE ClientReadsApply(c, kind)
  <2>1. phase[c] = "apply" /\ phase' = [phase EXCEPT ![c] = "data"] /\ out' = out
    BY Zenon, <1>6 DEF ClientReadsApply
  <2> QED
    BY Zenon, <1>1, <1>3, <1>4, <2>1, PhaseInv
<1>7. CASE ClientReadsData(c, kind)
  <2>1. CASE kind = "ack"
    BY Zenon, <1>7, <2>1, UploadInv
  <2>2. CASE kind # "ack"
    <3>1. phase[c] = "data" /\ phase' = [phase EXCEPT ![c] = "data"] /\ out' = out
      BY Zenon, <1>7, <2>2 DEF ClientReadsData
    <3> QED
      BY Zenon, <1>1, <1>3, <1>4, <3>1, PhaseInv
  <2> QED
    BY Zenon, <2>1, <2>2
<1>8. CASE ClientReadsLive(c, kind)
  <2>1. phase' = phase /\ out' = out
    BY Zenon, <1>8 DEF ClientReadsLive
  <2> QED
    BY Zenon, <1>1, <1>3, <2>1, PipesOnlyInv
<1> QED
  BY Zenon, <1>5, <1>6, <1>7, <1>8

\* The client has uploaded its files and its session is live.
LEMMA UploadEndsInv ==
  ASSUME Inv, NEW c \in Clients, UploadEnds(c)
  PROVE  Inv'
<1>1. out[Main(c)] = <<>> /\ phase' = [phase EXCEPT ![c] = "live"]
      /\ UNCHANGED <<hphase, out, pipe, wmu, changes, events>>
  BY Zenon DEF UploadEnds
<1>2. Shrinks
  BY Zenon, <1>1, SamePipes DEF Inv
<1> QED
  BY Zenon, <1>1, <1>2, PhaseInv

-----------------------------------------------------------------------------
(* The broadcasts, in any order of the clients.                            *)

\* A loop over the map of clients visits clients.
LEMMA OrdersType ==
  ASSUME NEW S \in SUBSET Clients, NEW order \in Orders(S)
  PROVE  /\ order \in Seq(S) /\ Len(order) \in Nat /\ DOMAIN order = 1 .. Len(order)
         /\ \A i \in 1 .. Len(order) : order[i] \in S
<1>1. Cardinality(S) \in Nat
  BY Zenon, TransferAssumption, FS_Subset, FS_CardinalityType
<1>2. order \in [1 .. Cardinality(S) -> S]
  BY Zenon DEF Orders, Bijection, Injection
<1>3. order \in Seq(S) /\ Len(order) = Cardinality(S)
  BY <1>1, <1>2
<1> QED
  BY Zenon, <1>1, <1>2, <1>3

\* The messages of handleMonitorEvent go to clients and none is an ACK.
LEMMA ToEachType ==
  ASSUME NEW order \in Orders(Clients), NEW kinds \in Seq(Kinds), Len(kinds) > 0
  PROVE  /\ ToEach(order, kinds) \in Seq(Unsent)
         /\ \A i \in 1 .. Len(ToEach(order, kinds)) :
              /\ \E d \in Clients : ToEach(order, kinds)[i].to = DownTo(d)
              /\ \E j \in 1 .. Len(kinds) : ToEach(order, kinds)[i].kind = kinds[j]
<1> DEFINE n == Len(order)  k == Len(kinds)
           a(i) == order[((i - 1) \div k) + 1]  b(i) == kinds[((i - 1) % k) + 1]
<1>1. n \in Nat /\ \A i \in 1 .. n : order[i] \in Clients
  BY Zenon, OrdersType
<1>2. k \in Nat \ {0} /\ \A i \in 1 .. k : kinds[i] \in Kinds
  BY LenProperties, ElementOfSeq
<1>3. n * k \in Nat
  BY <1>1, <1>2
<1>4. ASSUME NEW i \in 1 .. n * k
      PROVE  /\ a(i) \in Clients /\ \E j \in 1 .. k : b(i) = kinds[j]
             /\ Message(DownTo(a(i)), b(i), 1) \in Unsent
  <2>1. ((i - 1) \div k) + 1 \in 1 .. n /\ ((i - 1) % k) + 1 \in 1 .. k
    BY Zenon, <1>1, <1>2, Quotient
  <2>2. a(i) \in Clients /\ b(i) \in Kinds /\ \E j \in 1 .. k : b(i) = kinds[j]
    BY Zenon, <1>1, <1>2, <2>1
  <2>3. DownTo(a(i)) \in Pipes
    BY Zenon, <2>2, Directions
  <2> QED
    BY <2>2, <2>3 DEF Unsent, Message
<1>5. ToEach(order, kinds) = [i \in 1 .. n * k |-> Message(DownTo(a(i)), b(i), 1)]
  BY Zenon DEF ToEach
<1> HIDE DEF n, k, a, b
<1>6. ToEach(order, kinds) \in Seq(Unsent) /\ Len(ToEach(order, kinds)) = n * k
  BY <1>3, <1>4, <1>5
<1>7. ASSUME NEW i \in 1 .. n * k
      PROVE  ToEach(order, kinds)[i].to = DownTo(a(i)) /\ ToEach(order, kinds)[i].kind = b(i)
  BY <1>5 DEF Message
<1> QED
  BY Zenon, <1>4, <1>6, <1>7 DEF k

\* handleMonitorEvent broadcasts a change of the server's directory.
LEMMA MonitorEventInv ==
  ASSUME Inv, MonitorEvent
  PROVE  Inv'
<1>1. PICK order \in Orders(Clients), kinds \in {<<"modify", "data">>, <<"modify">>, <<"delete">>} :
        out' = [out EXCEPT ![Monitor] = ToEach(order, kinds)]
  BY Zenon DEF MonitorEvent
<1> DEFINE new == ToEach(order, kinds)
<1>2. kinds \in Seq(Kinds) /\ Len(kinds) > 0 /\ \A i \in 1 .. Len(kinds) : kinds[i] # "ack"
  <2>1. {"modify", "data", "delete"} \subseteq Kinds \ {"ack"}
    BY Zenon DEF Kinds
  <2>2. Change(<<"modify", "data">>) /\ Change(<<"modify">>) /\ Change(<<"delete">>)
    BY Zenon, <2>1, OneOrTwo
  <2>3. Change(kinds)
    BY Zenon, <2>2
  <2> QED
    BY Zenon, <2>3 DEF Change
<1>3. new \in Seq(Unsent)
      /\ \A i \in 1 .. Len(new) :
           new[i].kind # "ack" /\ \E d \in Clients : new[i].to = DownTo(d)
  BY <1>2, ToEachType
<1>4. Monitor \in Goroutines /\ Monitor[1] = "monitor"
  BY Zenon, Names
<1>5. out[Monitor] = <<>> /\ events < MaxEvents /\ events' = events + 1
      /\ UNCHANGED <<phase, hphase, pipe, wmu, changes>>
  BY Zenon DEF MonitorEvent
<1> HIDE DEF new
<1>6. out' = [out EXCEPT ![Monitor] = new]
  BY Zenon, <1>1 DEF new
<1> QED
  BY Zenon, <1>3, <1>4, <1>5, <1>6, EventInv

\* handleMessage broadcasts a chunk or a deletion to the other clients, never
\* to the one it came from.
LEMMA HandlerReadsLiveInv ==
  ASSUME Inv, NEW c \in Clients, NEW kind \in Kinds, HandlerReadsLive(c, kind)
  PROVE  Inv'
<1> DEFINE g == Handler(c)
<1>1. hphase[c] = "live" /\ out[g] = <<>> /\ Takes(UpTo(c), kind) /\ UNCHANGED <<phase, hphase>>
  BY Zenon DEF HandlerReadsLive
<1>2. g \in Goroutines /\ g[1] = "handler" /\ g[2] = c /\ UpTo(c) \in Pipes
      /\ Main(c) \in Goroutines /\ Sender(c) \in Goroutines /\ g # Main(c) /\ g # Sender(c)
  BY Zenon, Names, Directions
<1>3. Shrinks /\ UNCHANGED <<wmu, changes, events>>
  BY Zenon, <1>1, <1>2, TakeStep DEF Inv
<1>4. CASE kind \notin {"data", "delete"}
  <2>1. out' = out
    BY Zenon, <1>4 DEF HandlerReadsLive
  <2> QED
    BY Zenon, <2>1, <1>1, <1>3, PipesOnlyInv
<1>5. CASE kind \in {"data", "delete"}
  <2>1. PICK others \in Orders(Clients \ {c}) :
          out' = [out EXCEPT ![g] = [i \in DOMAIN others |-> Message(DownTo(others[i]), kind, 1)]]
    BY Zenon, <1>5 DEF HandlerReadsLive
  <2> DEFINE new == [i \in DOMAIN others |-> Message(DownTo(others[i]), kind, 1)]
  <2>2. Len(others) \in Nat /\ DOMAIN others = 1 .. Len(others)
        /\ \A i \in 1 .. Len(others) : others[i] \in Clients /\ others[i] # c
    BY OrdersType
  <2>3. \A i \in 1 .. Len(others) : Message(DownTo(others[i]), kind, 1) \in Unsent
    BY <2>2, Directions DEF Unsent, Message
  <2>4. new \in Seq(Unsent) /\ Len(new) = Len(others)
        /\ \A i \in 1 .. Len(others) : new[i] = Message(DownTo(others[i]), kind, 1)
    BY <2>2, <2>3
  <2> HIDE DEF new
  <2>5. \A i \in 1 .. Len(new) :
        Allowed(hphase', g, new[i]) /\ (new[i].kind = "ack" => i = Len(new))
    <3> SUFFICES ASSUME NEW i \in 1 .. Len(new)
                 PROVE  Allowed(hphase', g, new[i]) /\ (new[i].kind = "ack" => i = Len(new))
      BY Zenon
    <3>1. new[i].to = DownTo(others[i]) /\ new[i].kind = kind /\ others[i] \in Clients
          /\ others[i] # c
      <4>1. i \in 1 .. Len(others)
        BY Zenon, <2>4
      <4>2. others[i] \in Clients /\ others[i] # c
        BY Zenon, <4>1, <2>2
      <4>3. new[i] = Message(DownTo(others[i]), kind, 1)
        BY Zenon, <4>1, <2>4
      <4> QED
        BY <4>2, <4>3 DEF Message
    <3>2. DownTo(others[i]) # DownTo(c) /\ kind # "ack"
      BY Zenon, <3>1, <1>5, Directions
    <3> QED
      BY Zenon, <3>1, <3>2, <1>2 DEF Allowed
  <2>6. Gets(g, new)
    BY Zenon, <2>1, <2>4, <1>1, <1>3 DEF Gets, new
  <2> HIDE DEF g
  <2>7. ASSUME NEW d \in Clients PROVE ClientInv(d)'
    <3>1. CASE d # c
      <4>1. g \notin {Main(d), Sender(d), Handler(d)}
        BY SMTT(30), <3>1, <1>2, Names
      <4> QED
        BY Zenon, <1>1, <1>2, <1>3, <2>6, <4>1, OthersKept
    <3>2. CASE d = c
      <4>1. out'[Main(c)] = out[Main(c)] /\ out'[Sender(c)] = out[Sender(c)]
        BY Zenon, <1>2, <2>6, Types DEF Gets
      <4>2. StreamWritten(c)' /\ StreamWritten(c)
        BY Zenon, <1>1 DEF StreamWritten
      <4>3. Len(pipe'[UpTo(c)]) \in Nat /\ Len(pipe'[UpTo(c)]) <= Len(pipe[UpTo(c)])
            /\ Len(pipe[UpTo(c)]) \in Nat
        BY Zenon, <1>2, <1>3, LenProperties DEF Shrinks, Inv, TypeOK
      <4>4. ASSUME out[Main(c)] # <<>>, phase[c] = "tree"
            PROVE  /\ Len(out[Main(c)]) = 1
                   /\ Len(pipe'[UpTo(c)]) + out[Main(c)][1].size <= ClientTree[c]
        <5>1. /\ Len(out[Main(c)]) = 1
              /\ Len(pipe[UpTo(c)]) + out[Main(c)][1].size <= ClientTree[c]
          BY Zenon, <4>4 DEF Inv, ClientInv
        <5>2. out[Main(c)][1] \in Unsent
          <6>1. out[Main(c)] \in Seq(Unsent) /\ 1 \in 1 .. Len(out[Main(c)])
            BY SMTT(30), <1>2, <5>1, Types
          <6> QED
            BY Zenon, <6>1, ElementOfSeq
        <5>3. out[Main(c)][1].size \in Nat /\ ClientTree[c] \in Nat
          BY Zenon, <5>2, TransferAssumption DEF Unsent
        <5> QED
          BY SMTT(30), <5>1, <5>3, <4>3
      <4> QED
        BY Zenon, <3>2, <4>1, <4>2, <4>4, <1>1 DEF Inv, ClientInv
    <3> QED
      BY Zenon, <3>1, <3>2
  <2> QED
    BY ZenonT(30), <1>1, <1>2, <1>3, <2>5, <2>6, <2>7, Types, OtherInv
<1> QED
  BY Zenon, <1>4, <1>5

-----------------------------------------------------------------------------
(* The invariant holds at the start and is kept by every step.             *)

\* Both ends have their trees to send, and nothing is under way.
LEMMA InitInv ==
  ASSUME Init
  PROVE  Inv
<1>1. \A x \in Pipes : pipe[x] = <<>> /\ wmu[x] = Nobody
  BY Zenon DEF Init
<1>2. <<>> \in Seq(Unsent) /\ <<>> \in Seq(Kinds \cup {"part"}) /\ Len(<<>>) = 0
  BY Zenon, EmptySeq
<1>3. ASSUME NEW g \in Goroutines
      PROVE  \/ out[g] = <<>> /\ g[1] \notin {"main", "handler"}
             \/ /\ g[1] = "main" /\ g[2] \in Clients
                /\ out[g] = <<Message(UpTo(g[2]), "tree", ClientTree[g[2]])>>
             \/ /\ g[1] = "handler" /\ g[2] \in Clients
                /\ out[g] = <<Message(DownTo(g[2]), "tree", ServerTree)>>
  BY Zenon, Names DEF Init
<1>4. ASSUME NEW c \in Clients
      PROVE  /\ Message(UpTo(c), "tree", ClientTree[c]) \in Unsent
             /\ Message(DownTo(c), "tree", ServerTree) \in Unsent
  BY Zenon, Directions, TransferAssumption DEF Message, Unsent, Kinds
<1>5. ASSUME NEW m \in Unsent
      PROVE  <<m>> \in Seq(Unsent) /\ Len(<<m>>) = 1 /\ <<m>>[1] = m /\ <<m>> # <<>>
  OBVIOUS
<1>6. \A g \in Goroutines : out[g] \in Seq(Unsent)
  <2> SUFFICES ASSUME NEW g \in Goroutines PROVE out[g] \in Seq(Unsent)
    BY Zenon
  <2> QED
    BY ZenonT(30), <1>2, <1>3, <1>4, <1>5
<1>7. TypeOK
  <2>1. out \in [Goroutines -> Seq(Unsent)]
    BY Zenon, <1>6 DEF Init
  <2>2. pipe \in [Pipes -> Seq(Kinds \cup {"part"})] /\ \A x \in Pipes : Len(pipe[x]) <= Cap
    BY <1>1, <1>2, TransferAssumption DEF Init
  <2>3. wmu \in [Pipes -> Goroutines \cup {Nobody}]
    BY Zenon DEF Init
  <2>4. /\ phase \in [Clients -> {"tree", "apply", "data", "upload", "live"}]
        /\ hphase \in [Clients -> {"tree", "stream", "live"}]
        /\ changes \in 0 .. MaxChanges /\ events \in 0 .. MaxEvents
    BY SMTT(30), TransferAssumption DEF Init
  <2> QED
    BY Zenon, <2>1, <2>2, <2>3, <2>4 DEF TypeOK, Unsent
<1>8. OutInv
  <2> SUFFICES ASSUME NEW g \in Goroutines, NEW i \in 1 .. Len(out[g])
               PROVE  Allowed(hphase, g, out[g][i]) /\ (out[g][i].kind = "ack" => i = Len(out[g]))
    BY Zenon DEF OutInv
  <2>1. CASE out[g] = <<>>
    BY <2>1, <1>2
  <2>2. CASE /\ g[1] = "main" /\ g[2] \in Clients
             /\ out[g] = <<Message(UpTo(g[2]), "tree", ClientTree[g[2]])>>
    <3>1. i = 1 /\ out[g][i] = Message(UpTo(g[2]), "tree", ClientTree[g[2]])
      BY <2>2, <1>4, <1>5
    <3>2. out[g][i].to = UpTo(g[2]) /\ out[g][i].kind = "tree"
      BY <3>1 DEF Message
    <3> QED
      BY Zenon, <2>2, <3>2 DEF Allowed
  <2>3. CASE /\ g[1] = "handler" /\ g[2] \in Clients
             /\ out[g] = <<Message(DownTo(g[2]), "tree", ServerTree)>>
    <3>1. i = 1 /\ out[g][i] = Message(DownTo(g[2]), "tree", ServerTree)
      BY <2>3, <1>4, <1>5
    <3>2. out[g][i].to = DownTo(g[2]) /\ out[g][i].kind = "tree"
      BY <3>1 DEF Message
    <3>3. hphase[g[2]] = "tree"
      BY Zenon, <2>3 DEF Init
    <3> QED
      BY Zenon, <2>3, <3>2, <3>3 DEF Allowed
  <2> QED
    BY Zenon, <1>3, <2>1, <2>2, <2>3
<1>9. LockInv
  BY Zenon, <1>1 DEF LockInv
<1>10. ASSUME NEW c \in Clients PROVE ClientInv(c)
  <2>1. Main(c) \in Goroutines /\ Main(c)[1] = "main" /\ Main(c)[2] = c
        /\ Sender(c) \in Goroutines /\ Sender(c)[1] = "sender"
        /\ UpTo(c) \in Pipes /\ DownTo(c) \in Pipes
    BY Zenon, Names, Directions
  <2>2. out[Sender(c)] = <<>> /\ out[Main(c)] = <<Message(UpTo(c), "tree", ClientTree[c])>>
    BY Zenon, <1>3, <2>1
  <2>3. Len(out[Main(c)]) = 1 /\ out[Main(c)][1].size = ClientTree[c]
    BY <2>2, <1>4, <1>5 DEF Message
  <2>4. Len(pipe[UpTo(c)]) = 0 /\ Len(pipe[DownTo(c)]) = 0 /\ phase[c] = "tree"
    BY Zenon, <1>1, <1>2, <2>1 DEF Init
  <2>5. Len(pipe[UpTo(c)]) + out[Main(c)][1].size <= ClientTree[c]
    BY <2>3, <2>4, TransferAssumption
  <2> QED
    BY SMTT(30), <2>2, <2>3, <2>4, <2>5 DEF ClientInv
<1> QED
  BY Zenon, <1>7, <1>8, <1>9, <1>10 DEF Inv

\* Every step of a client or of the server keeps the invariant.
LEMMA NextInv ==
  ASSUME Inv, [Next]_vars
  PROVE  Inv'
<1>1. CASE \E g \in Goroutines : Write(g)
  BY Zenon, <1>1, WriteInv
<1>2. ASSUME NEW c \in Clients, ClientNext(c) PROVE Inv'
  <2>1. Main(c) \in Goroutines /\ DownTo(c) \in Pipes
    BY Zenon, Names, Directions
  <2>2. CASE ReadsPart(Main(c), DownTo(c))
    BY Zenon, <2>1, <2>2, ReadsPartInv
  <2>3. CASE UploadEnds(c)
    BY Zenon, <2>3, UploadEndsInv
  <2>4. CASE \E kind \in Kinds : \/ ClientReadsTree(c, kind) \/ ClientReadsApply(c, kind)
                                 \/ ClientReadsData(c, kind) \/ ClientReadsLive(c, kind)
    BY Zenon, <2>4, ClientReadsInv
  <2> QED
    BY Zenon, <1>2, <2>2, <2>3, <2>4 DEF ClientNext
<1>3. ASSUME NEW c \in Clients, HandlerNext(c) PROVE Inv'
  <2>1. Handler(c) \in Goroutines /\ UpTo(c) \in Pipes
    BY ZenonT(30), Names, Directions
  <2>2. CASE ReadsPart(Handler(c), UpTo(c))
    BY Zenon, <2>1, <2>2, ReadsPartInv
  <2>3. CASE HandlerReadsTree(c)
    BY Zenon, <2>3, HandlerReadsTreeInv
  <2>4. CASE HandlerGoesLive(c)
    BY Zenon, <2>4, HandlerGoesLiveInv
  <2>5. CASE \E kind \in Kinds : HandlerReadsLive(c, kind)
    BY Zenon, <2>5, HandlerReadsLiveInv
  <2> QED
    BY Zenon, <1>3, <2>2, <2>3, <2>4, <2>5 DEF HandlerNext
<1>4. CASE \E c \in Clients : LocalChange(c) \/ Tick(c)
  BY Zenon, <1>4, LocalChangeInv, TickInv
<1>5. CASE MonitorEvent
  BY Zenon, <1>5, MonitorEventInv
<1>6. CASE UNCHANGED vars
  <2>1. UNCHANGED <<phase, hphase, out, pipe, wmu, changes, events>>
    BY Zenon, <1>6 DEF vars
  <2>2. Shrinks
    BY Zenon, <2>1, SamePipes DEF Inv
  <2> QED
    BY Zenon, <2>1, <2>2, PipesOnlyInv
<1> QED
  BY Zenon, <1>1, <1>2, <1>3, <1>4, <1>5, <1>6 DEF Next, Progress

\* The inductive invariant holds in every state of runSession, handleClient,
\* handleMonitorEvent and monitorClientChanges.
THEOREM Invariance == Spec => []Inv
<1>1. Init => Inv
  BY Zenon, InitInv
<1>2. Inv /\ [Next]_vars => Inv'
  BY Zenon, NextInv
<1> QED
  BY <1>1, <1>2, PTL DEF Spec

\* Every message that WriteMessage has to write has a connection, a kind and at
\* least one unit left, and a direction never holds more than its buffers take.
THEOREM TypeCorrect == Spec => []TypeOK
<1>1. Inv => TypeOK
  BY Zenon DEF Inv
<1> QED
  BY <1>1, Invariance, PTL

-----------------------------------------------------------------------------
(* No circle of waiting goroutines.                                        *)

\* A client can write its whole tree before the server reads.
TreesFit == \A c \in Clients : ClientTree[c] <= Cap

\* At most one client has files that the server has not.
OneUploads == \A c, d \in Clients : Uploads[c] # <<>> /\ Uploads[d] # <<>> => c = d

\* What a blocked goroutine has to write.
LEMMA BlockedHead ==
  ASSUME Inv, NEW g \in Goroutines, out[g] # <<>>
  PROVE  /\ out[g] \in Seq(Unsent) /\ 1 \in 1 .. Len(out[g]) /\ Head(out[g]) = out[g][1]
         /\ out[g][1] \in Unsent /\ Head(out[g]).to \in Pipes
         /\ Allowed(hphase, g, Head(out[g]))
         /\ wmu[Head(out[g]).to] \in Goroutines \cup {Nobody}
<1>1. out[g] \in Seq(Unsent)
  BY Zenon DEF Inv, TypeOK, Unsent
<1>2. 1 \in 1 .. Len(out[g]) /\ Head(out[g]) = out[g][1]
  <2> DEFINE s == out[g]
  <2> HIDE DEF s
  <2>1. s \in Seq(Unsent) /\ s # <<>>
    BY Zenon, <1>1 DEF s
  <2>2. Len(s) \in Nat /\ Len(s) > 0 /\ Head(s) = s[1]
    BY <2>1, EmptySeq, LenProperties
  <2> QED
    BY <2>2 DEF s
<1>3. out[g][1] \in Unsent
  BY Zenon, <1>1, <1>2, ElementOfSeq
<1>4. Head(out[g]).to \in Pipes
  BY Zenon, <1>2, <1>3 DEF Unsent
<1>5. Allowed(hphase, g, Head(out[g]))
  BY Zenon, <1>2 DEF Inv, OutInv
<1>6. wmu[Head(out[g]).to] \in Goroutines \cup {Nobody}
  BY Zenon, <1>4 DEF Inv, TypeOK
<1> QED
  BY Zenon, <1>1, <1>2, <1>3, <1>4, <1>5, <1>6

\* Goroutines each of which waits for one of them.
Circle(S) == S \in SUBSET Blocked /\ \A g \in S : Awaited(g) \in S

\* A circle that contains a goroutine blocked in WriteMessage contains the
\* reader of its direction: the holder of the lock waits for the same reader.
LEMMA ReaderInCircle ==
  ASSUME Inv, NEW S, Circle(S), NEW g \in S
  PROVE  g \in Goroutines /\ out[g] # <<>> /\ Reader(Head(out[g]).to) \in S
<1> DEFINE x == Head(out[g]).to
<1>1. g \in Goroutines /\ out[g] # <<>>
  BY Zenon DEF Circle, Blocked
<1>2. x \in Pipes /\ wmu[x] \in Goroutines \cup {Nobody}
  BY Zenon, <1>1, BlockedHead
<1>3. CASE wmu[x] \in {Nobody, g}
  <2>1. Awaited(g) = Reader(x)
    BY Zenon, <1>3 DEF Awaited
  <2> QED
    BY Zenon, <1>1, <2>1 DEF Circle
<1>4. CASE wmu[x] \notin {Nobody, g}
  <2> DEFINE h == wmu[x]
  <2>1. Awaited(g) = h
    BY Zenon, <1>4 DEF Awaited
  <2>2. h \in S
    BY Zenon, <2>1 DEF Circle
  <2>3. Head(out[h]).to = x
    BY Zenon, <1>2, <1>4 DEF Inv, LockInv
  <2>4. Awaited(h) = Reader(x)
    BY Zenon, <2>3 DEF Awaited
  <2> QED
    BY Zenon, <1>1, <2>2, <2>4 DEF Circle
<1> QED
  BY Zenon, <1>3, <1>4

\* The main goroutine of a client is blocked only while it uploads: its tree
\* fits in the buffers, and nobody else holds the lock of its direction.
LEMMA MainUploads ==
  ASSUME Inv, TreesFit, NEW d \in Clients, Main(d) \in Blocked
  PROVE  phase[d] = "upload" /\ Uploads[d] # <<>> /\ Head(out[Main(d)]).to = UpTo(d)
<1> DEFINE g == Main(d)  m == out[g][1]  x == UpTo(d)
<1>1. g \in Goroutines /\ g[1] = "main" /\ g[2] = d /\ x \in Pipes
  BY Zenon, Names, Directions
<1>2. out[g] # <<>> /\ ~CanWrite(g)
  BY Zenon DEF Blocked
<1>3. Head(out[g]) = m /\ m \in Unsent /\ Allowed(hphase, g, Head(out[g]))
      /\ wmu[Head(out[g]).to] \in Goroutines \cup {Nobody}
  BY Zenon, <1>1, <1>2, BlockedHead
<1>4. Head(out[g]).to = x
  BY Zenon, <1>1, <1>3 DEF Allowed
<1>5. phase[d] \in {"tree", "upload"} /\ (phase[d] = "upload" => Uploads[d] # <<>>)
  BY Zenon, <1>2 DEF Inv, ClientInv
<1>6. ASSUME phase[d] = "tree" PROVE FALSE
  <2>1. Len(pipe[x]) + m.size <= ClientTree[d]
    BY Zenon, <1>2, <1>6 DEF Inv, ClientInv
  <2>2. m.size \in Nat /\ m.size > 0
    BY <1>3 DEF Unsent
  <2>3. Len(pipe[x]) \in Nat
    BY Zenon, <1>1, LenProperties DEF Inv, TypeOK
  <2>4. ClientTree[d] \in Nat /\ Cap \in Nat /\ ClientTree[d] <= Cap
    BY Zenon, TransferAssumption DEF TreesFit
  <2>5. Len(pipe[x]) < Cap
    <3> DEFINE k == m.size  l == Len(pipe[x])
    <3> HIDE DEF k, l
    <3>1. k \in Nat /\ k > 0 /\ l \in Nat /\ l + k <= ClientTree[d]
      BY Zenon, <2>1, <2>2, <2>3 DEF k, l
    <3>2. l < Cap
      BY <3>1, <2>4
    <3> QED
      BY Zenon, <3>2 DEF l
  <2>6. wmu[x] \in {Nobody, g}
    <3> SUFFICES ASSUME wmu[x] # Nobody PROVE wmu[x] = g
      BY Zenon
    <3> DEFINE h == wmu[x]
    <3>1. h \in Goroutines
      BY Zenon, <1>3, <1>4
    <3>2. out[h] # <<>> /\ Head(out[h]).to = x
      BY Zenon, <1>1 DEF Inv, LockInv
    <3>3. Allowed(hphase, h, Head(out[h]))
      BY Zenon, <3>1, <3>2, BlockedHead
    <3> HIDE DEF h
    <3>4. h[1] \in {"main", "sender"} /\ UpTo(h[2]) = x
      BY Zenon, <3>2, <3>3, Directions DEF Allowed
    <3>5. h[2] = d
      BY ZenonT(30), <3>1, <3>4, Names, Directions
    <3>6. h = Main(d) \/ h = Sender(d)
      BY Zenon, <3>1, <3>4, <3>5, Names
    <3>7. h # Sender(d)
      BY Zenon, <3>2, <1>6 DEF Inv, ClientInv
    <3> QED
      BY Zenon, <3>6, <3>7 DEF h
  <2> QED
    BY Zenon, <1>2, <1>4, <2>5, <2>6 DEF CanWrite
<1> QED
  BY Zenon, <1>4, <1>5, <1>6

\* A circle would contain a client that uploads; its live handler broadcasts
\* to another client, which would have to upload too.
LEMMA NoCircle ==
  ASSUME Inv, TreesFit, OneUploads, NEW S, Circle(S)
  PROVE  S = {}
<1>1. ASSUME NEW c \in Clients, Handler(c) \in S
      PROVE  \E d \in Clients : Main(d) \in S /\ Head(out[Handler(c)]).to = DownTo(d)
  <2>1. Handler(c) \in Goroutines /\ out[Handler(c)] # <<>>
        /\ Reader(Head(out[Handler(c)]).to) \in S
    BY Zenon, <1>1, ReaderInCircle
  <2>2. Allowed(hphase, Handler(c), Head(out[Handler(c)]))
    BY Zenon, <2>1, BlockedHead
  <2>3. PICK d \in Clients : Head(out[Handler(c)]).to = DownTo(d)
    BY Zenon, <2>2, Names DEF Allowed
  <2> QED
    BY ZenonT(30), <2>1, <2>3, Directions
<1>2. ASSUME NEW d \in Clients, Main(d) \in S PROVE FALSE
  <2>1. Main(d) \in Blocked
    BY Zenon, <1>2 DEF Circle
  <2>2. phase[d] = "upload" /\ Uploads[d] # <<>> /\ Head(out[Main(d)]).to = UpTo(d)
    BY Zenon, <2>1, MainUploads
  <2>3. Handler(d) \in S
    <3>1. Reader(Head(out[Main(d)]).to) \in S
      BY Zenon, <1>2, ReaderInCircle
    <3> QED
      BY Zenon, <3>1, <2>2, Directions
  <2>4. PICK e \in Clients : Main(e) \in S /\ Head(out[Handler(d)]).to = DownTo(e)
    BY Zenon, <2>3, <1>1
  <2>5. Main(e) \in Blocked
    BY Zenon, <2>4 DEF Circle
  <2>6. Uploads[e] # <<>>
    BY Zenon, <2>5, MainUploads
  <2>7. e = d
    BY Zenon, <2>2, <2>6 DEF OneUploads
  <2>8. out[Handler(d)] # <<>> /\ Handler(d) \in Goroutines
    BY Zenon, <2>3, ReaderInCircle
  <2>9. hphase[d] = "live"
    BY Zenon, <2>2, <2>8 DEF Inv, ClientInv, StreamWritten
  <2>10. Allowed(hphase, Handler(d), Head(out[Handler(d)]))
    BY Zenon, <2>8, BlockedHead
  <2> QED
    BY Zenon, <2>4, <2>7, <2>9, <2>10, Names DEF Allowed
<1>3. ASSUME NEW g \in S PROVE FALSE
  <2>1. g \in Goroutines /\ out[g] # <<>> /\ Reader(Head(out[g]).to) \in S
    BY Zenon, ReaderInCircle
  <2>2. Allowed(hphase, g, Head(out[g]))
    BY Zenon, <2>1, BlockedHead
  <2>3. CASE g[1] \in {"main", "sender"}
    <3>1. Head(out[g]).to = UpTo(g[2]) /\ g[2] \in Clients
      BY Zenon, <2>1, <2>2, <2>3, Names DEF Allowed
    <3>2. Handler(g[2]) \in S
      BY Zenon, <2>1, <3>1, Directions
    <3> QED
      BY Zenon, <3>1, <3>2, <1>1, <1>2
  <2>4. CASE g[1] \notin {"main", "sender"}
    <3>1. PICK d \in Clients : Head(out[g]).to = DownTo(d)
      BY Zenon, <2>2, <2>4 DEF Allowed
    <3>2. Main(d) \in S
      BY Zenon, <2>1, <3>1, Directions
    <3> QED
      BY Zenon, <3>2, <1>2
  <2> QED
    BY Zenon, <2>3, <2>4
<1> QED
  BY Zenon, <1>3

\* In no state do goroutines wait in a circle for each other to read or to
\* unlock, whatever the number of clients, the server's tree, the streamed files
\* and the broadcasts of handleMessage and handleMonitorEvent.
THEOREM NoDeadlock ==
  ASSUME TreesFit, OneUploads
  PROVE  Spec => []NoCircularWait
<1>1. Inv => NoCircularWait
  <2> SUFFICES ASSUME Inv, NEW S \in SUBSET Blocked, \A g \in S : Awaited(g) \in S
               PROVE  S = {}
    BY Zenon DEF NoCircularWait
  <2>1. Circle(S)
    BY Zenon DEF Circle
  <2> QED
    BY Zenon, <2>1, NoCircle
<1> QED
  BY <1>1, Invariance, PTL

=============================================================================
