--------------------------- MODULE MonitorProofs ----------------------------
(***************************************************************************)
(* Proofs about Monitor, for any directory tree, any capacities and any    *)
(* bounds: types, and that no change of a user is lost except in the ways  *)
(* recorded in missed.                                                     *)
(***************************************************************************)
EXTENDS Monitor, SequenceTheorems, TLAPS

-----------------------------------------------------------------------------
(* The kernel's queue.                                                     *)

\* What the kernel queued stays in the queue when it appends an event.
LEMMA InAppended ==
  ASSUME NEW T, NEW q \in Seq(T), NEW e \in T, NEW p, NEW S
  PROVE  /\ InQueue(q, p, S) => InQueue(Append(q, e), p, S)
         /\ e[1] = p /\ e[2] \in S => InQueue(Append(q, e), p, S)
<1>1. /\ Len(Append(q, e)) = Len(q) + 1
      /\ \A i \in 1 .. Len(q) : Append(q, e)[i] = q[i]
      /\ Append(q, e)[Len(q) + 1] = e
      /\ DOMAIN q = 1 .. Len(q) /\ DOMAIN Append(q, e) = 1 .. Len(q) + 1
      /\ Len(q) \in Nat
  OBVIOUS
<1>2. ASSUME NEW i \in DOMAIN q, q[i][1] = p /\ q[i][2] \in S
      PROVE  InQueue(Append(q, e), p, S)
  <2>1. i \in DOMAIN Append(q, e) /\ Append(q, e)[i] = q[i]
    BY <1>1
  <2> QED BY <2>1, <1>2 DEF InQueue
<1>3. ASSUME e[1] = p /\ e[2] \in S
      PROVE  InQueue(Append(q, e), p, S)
  <2>1. Len(q) + 1 \in DOMAIN Append(q, e)
    BY <1>1
  <2> QED BY <2>1, <1>1, <1>3 DEF InQueue
<1> QED BY <1>2, <1>3 DEF InQueue

\* What leaves the queue is what the loop has received.
LEMMA InTail ==
  ASSUME NEW T, NEW q \in Seq(T), q # <<>>, NEW p, NEW S, InQueue(q, p, S)
  PROVE  InQueue(Tail(q), p, S) \/ (Head(q)[1] = p /\ Head(q)[2] \in S)
<1>1. PICK i \in DOMAIN q : q[i][1] = p /\ q[i][2] \in S
  BY DEF InQueue
<1>2. /\ DOMAIN q = 1 .. Len(q) /\ Len(q) \in Nat \ {0}
      /\ DOMAIN Tail(q) = 1 .. Len(q) - 1
      /\ \A j \in 1 .. Len(q) - 1 : Tail(q)[j] = q[j + 1]
      /\ Head(q) = q[1]
  OBVIOUS
<1>3. CASE i = 1
  BY <1>1, <1>2, <1>3
<1>4. CASE i # 1
  <2>1. i - 1 \in DOMAIN Tail(q) /\ Tail(q)[i - 1] = q[i]
    BY <1>2, <1>4
  <2> QED BY <2>1, <1>1 DEF InQueue
<1> QED BY <1>3, <1>4

-----------------------------------------------------------------------------
(* Types.                                                                  *)

USE MonitorAssumption DEF Ops, Types, Removal, NoPath

\* The state after NewMonitor and Start has its types.
LEMMA InitTyped == Init => TypeOK
<1> SUFFICES ASSUME Init PROVE TypeOK
  OBVIOUS
<1>1. queue \in Seq(Paths \X Ops) /\ ch \in Seq(Event)
  BY DEF Init
<1>2. late \in [Paths -> Nat] /\ sending \in [Event -> Nat]
  BY DEF Init
<1>3. watched \in SUBSET (Dirs \cup {Root}) /\ there \in SUBSET Paths
  BY DEF Init
<1> QED BY ZenonT(30), <1>1, <1>2, <1>3 DEF Init, TypeOK

\* A change of a file keeps the types.
LEMMA ChangeTyped ==
  ASSUME TypeOK, NEW p \in Paths, NEW op \in Ops, Change(p, op)
  PROVE  /\ there' \in SUBSET Paths
         /\ watched' \in SUBSET (Dirs \cup {Root})
         /\ queue' \in Seq(Paths \X Ops)
<1>1. there' \in SUBSET Paths
  BY DEF TypeOK, Change, After
<1>2. watched' \in SUBSET (Dirs \cup {Root})
  BY DEF TypeOK, Change
<1>3. queue' \in Seq(Paths \X Ops)
  <2>1. <<p, op>> \in Paths \X Ops
    OBVIOUS
  <2>2. Append(queue, <<p, op>>) \in Seq(Paths \X Ops)
    BY <2>1, AppendProperties DEF TypeOK
  <2> QED BY <2>2 DEF TypeOK, Change
<1> QED BY <1>1, <1>2, <1>3

\* The event the loop receives, and what it leaves in the queue.
LEMMA QueueHead ==
  ASSUME TypeOK, queue # <<>>
  PROVE  /\ Head(queue)[1] \in Paths /\ Head(queue)[2] \in Ops
         /\ Tail(queue) \in Seq(Paths \X Ops)
<1>1. Head(queue) \in Paths \X Ops /\ Tail(queue) \in Seq(Paths \X Ops)
  BY HeadTailProperties DEF TypeOK
<1> QED BY <1>1

\* Every step keeps the types.
LEMMA StepTyped == TypeOK /\ [Next]_vars => TypeOK'
<1> SUFFICES ASSUME TypeOK, [Next]_vars PROVE TypeOK'
  OBVIOUS
<1>1. ASSUME NEW p \in Paths, NEW op \in UserOps, UserChange(p, op) PROVE TypeOK'
  <2>1. op \in Ops
    OBVIOUS
  <2>2. Change(p, op)
    BY <1>1 DEF UserChange
  <2> QED BY SMTT(30), <1>1, <2>1, <2>2, ChangeTyped DEF UserChange, TypeOK, timers, proc
<1>2. ASSUME NEW p \in Paths, NEW op \in Ops, HandlerChange(p, op) PROVE TypeOK'
  <2>1. Change(p, op)
    BY <1>2 DEF HandlerChange
  <2> QED BY <1>2, <2>1, ChangeTyped DEF HandlerChange, TypeOK, timers, proc
<1>3. ASSUME NEW p \in Paths, HandlerBegins(p) PROVE TypeOK'
  BY <1>3 DEF HandlerBegins, TypeOK, timers, proc, hist
<1>4. ASSUME NEW p \in Paths, IgnoreExpires(p) PROVE TypeOK'
  BY <1>4 DEF IgnoreExpires, TypeOK, disk, timers, proc, hist
<1>5. ASSUME HandlerEnds PROVE TypeOK'
  BY <1>5 DEF HandlerEnds, TypeOK, disk, timers, proc, hist
<1>6. ASSUME LoopEvent PROVE TypeOK'
  BY <1>6, QueueHead, SMTT(60) DEF LoopEvent, TypeOK, proc, WatchNew, SetTimer
<1>7. ASSUME Stop PROVE TypeOK'
  BY <1>7 DEF Stop, TypeOK, disk, timers, hist
<1>8. ASSUME LoopReturns PROVE TypeOK'
  BY <1>8 DEF LoopReturns, TypeOK, disk, timers, hist
<1>9. ASSUME LoopStopsTimers PROVE TypeOK'
  BY <1>9 DEF LoopStopsTimers, TypeOK, disk, hist
<1>10. ASSUME NEW p \in Paths, TimerFires(p) PROVE TypeOK'
  BY <1>10 DEF TimerFires, TypeOK, disk, proc, hist
<1>11. ASSUME NEW p \in Paths, FlushBuild(p) PROVE TypeOK'
  <2>1. late' \in [Paths -> Nat]
    <3>1. late \in [Paths -> Nat] /\ late[p] > 0
      BY <1>11 DEF FlushBuild, TypeOK
    <3>2. late' = late \/ late' = [late EXCEPT ![p] = @ - 1]
      BY <1>11 DEF FlushBuild
    <3> QED BY <3>1, <3>2
  <2>2. debounce' \in [Paths -> SUBSET Ops] /\ armed' \in SUBSET Paths
    BY ZenonT(30), <1>11 DEF FlushBuild, TypeOK
  <2>3. sending' \in [Event -> Nat]
    <3>1. <<p, EventType(debounce[p])>> \in Event
      BY DEF EventType, Event
    <3>2. \/ sending' = sending
          \/ sending' = [sending EXCEPT ![<<p, EventType(debounce[p])>>] = @ + 1]
      BY <1>11 DEF FlushBuild
    <3>3. sending \in [Event -> Nat]
      BY DEF TypeOK
    <3> QED BY <3>1, <3>2, <3>3
  <2>4. unseen' \in SUBSET Paths /\ missed' \in SUBSET unseen'
    <3>1. \/ UNCHANGED hist
          \/ unseen' = unseen /\ missed' \in {missed, missed \cup (unseen \cap {p})}
          \/ unseen' = unseen \ {p} /\ missed' = missed \ {p}
      BY <1>11 DEF FlushBuild, hist
    <3> QED BY <3>1 DEF TypeOK, hist
  <2> QED BY ZenonT(30), <1>11, <2>1, <2>2, <2>3, <2>4 DEF FlushBuild, TypeOK, disk, proc
<1>12. ASSUME NEW e \in Event, FlushSend(e) PROVE TypeOK'
  <2>1. sending' \in [Event -> Nat]
    <3>1. sending \in [Event -> Nat] /\ sending[e] > 0
      BY <1>12 DEF FlushSend, TypeOK
    <3>2. sending' = [sending EXCEPT ![e] = @ - 1]
      BY <1>12 DEF FlushSend
    <3> QED BY <3>1, <3>2
  <2>2. ch' \in Seq(Event)
    <3>1. ch \in Seq(Event) /\ (ch' = ch \/ ch' = Append(ch, e))
      BY <1>12 DEF FlushSend, TypeOK, hist
    <3> QED BY <3>1, AppendProperties
  <2>3. e[1] \in Paths
    BY DEF Event
  <2>4. unseen' \in SUBSET Paths /\ missed' \in SUBSET unseen'
    BY <1>12, <2>3 DEF FlushSend, TypeOK, hist
  <2> QED BY ZenonT(30), <1>12, <2>1, <2>2, <2>4 DEF FlushSend, TypeOK, disk, timers, proc
<1>13. ASSUME Consume PROVE TypeOK'
  <2>1. ch' \in Seq(Event)
    BY <1>13, HeadTailProperties DEF Consume, TypeOK
  <2> QED BY SMTT(30), <1>13, <2>1 DEF Consume, TypeOK, disk, timers, proc, hist
<1>14. ASSUME UNCHANGED vars PROVE TypeOK'
  BY <1>14 DEF vars, TypeOK, disk, timers, proc, hist
<1> QED
  BY <1>1, <1>2, <1>3, <1>4, <1>5, <1>6, <1>7, <1>8, <1>9, <1>10, <1>11, <1>12, <1>13,
     <1>14 DEF Next

\* The monitor's state always has its declared shape; in particular nothing is
\* recorded as missed that no user changed.
THEOREM TypeCorrect == Spec => []TypeOK
BY InitTyped, StepTyped, PTL DEF Spec

-----------------------------------------------------------------------------
(* No change is lost.                                                      *)

Running == loop = "run" /\ ~stopped

\* The operations that say what became of p.
Telling(p) == IF p \in there THEN Ops \ Removal ELSE Removal

\* Neither conjunct is inductive without the other: an event built of the
\* operations collected so far discharges the latest change only if one that
\* tells of that change is among them, or is still in the queue.
Accounted(p) ==
  /\ Queued(p) \/ Underway(p)
  /\ InQueue(queue, p, Telling(p)) \/ debounce[p] \cap Telling(p) # {}

AllAccounted == Running => \A p \in unseen \ missed : Accounted(p)

\* A monitor that runs after a step ran before it.
LEMMA StaysRunning == [Next]_vars /\ Running' => Running
<1> SUFFICES ASSUME [Next]_vars, Running' PROVE Running
  OBVIOUS
<1>1. ASSUME NEW p \in Paths, NEW op \in Ops, UserChange(p, op) \/ HandlerChange(p, op)
      PROVE  UNCHANGED proc
  BY <1>1 DEF UserChange, HandlerChange
<1>2. ASSUME NEW p \in Paths, HandlerBegins(p) \/ IgnoreExpires(p) \/ HandlerEnds
      PROVE  UNCHANGED proc
  BY <1>2 DEF HandlerBegins, IgnoreExpires, HandlerEnds
<1>3. HandlerEnds \/ LoopEvent \/ Consume => UNCHANGED proc
  BY DEF HandlerEnds, LoopEvent, Consume
<1>4. ASSUME NEW p \in Paths, TimerFires(p) \/ FlushBuild(p) PROVE UNCHANGED proc
  BY <1>4 DEF TimerFires, FlushBuild
<1>5. ASSUME NEW e \in Event, FlushSend(e) PROVE UNCHANGED <<loop, stopped>>
  BY <1>5 DEF FlushSend
<1>6. ~Stop /\ ~LoopReturns /\ ~LoopStopsTimers
  BY DEF Running, Stop, LoopReturns, LoopStopsTimers
<1>7. UNCHANGED proc \/ UNCHANGED <<loop, stopped>>
  BY <1>1, <1>2, <1>3, <1>4, <1>5, <1>6 DEF Next, vars
<1> QED BY <1>7 DEF Running, proc

\* What leaves the state of a path's notices alone keeps it accounted for.
LEMMA Undisturbed ==
  ASSUME NEW p \in Paths, Accounted(p),
         UNCHANGED <<queue, debounce, armed, late>>, (p \in there) = (p \in there')
  PROVE  Accounted(p)'
<1>1. Telling(p)' = Telling(p)
  BY DEF Telling
<1>2. Queued(p)' = Queued(p) /\ Underway(p)' = Underway(p)
  BY DEF Queued, Underway
<1> QED BY <1>1, <1>2 DEF Accounted

\* A change of another path, or one that is reported.
LEMMA AfterChange ==
  ASSUME TypeOK, NEW p \in Paths, NEW op \in Ops, Change(p, op), UNCHANGED timers,
         NEW q \in Paths, q # p => Accounted(q), q = p => Reported(p)
  PROVE  Accounted(q)'
<1>1. queue \in Seq(Paths \X Ops) /\ <<p, op>> \in Paths \X Ops
  BY DEF TypeOK
<1>2. queue' = queue \/ queue' = Append(queue, <<p, op>>)
  BY DEF Change
<1>3. CASE q = p
  <2>1. queue' = Append(queue, <<p, op>>)
    BY <1>3 DEF Change
  <2>2. op \in Telling(p)'
    BY DEF Change, After, Telling
  <2>3. InQueue(queue', p, Ops) /\ InQueue(queue', p, Telling(p)')
    BY SMTT(30), <1>1, <2>1, <2>2, InAppended
  <2> QED BY <1>3, <2>3 DEF Accounted, Queued
<1>4. CASE q # p
  <2>1. Telling(q)' = Telling(q)
    BY <1>4 DEF Change, After, Telling
  <2>2. ASSUME NEW S, InQueue(queue, q, S) PROVE InQueue(queue', q, S)
    <3>1. CASE queue' = queue
      BY <2>2, <3>1
    <3>2. CASE queue' = Append(queue, <<p, op>>)
      <4>1. InQueue(Append(queue, <<p, op>>), q, S)
        BY ZenonT(30), <1>1, <2>2, InAppended
      <4> QED BY <3>2, <4>1
    <3> QED BY <1>2, <3>1, <3>2
  <2>3. Underway(q)' = Underway(q) /\ debounce'[q] = debounce[q]
    <3>1. debounce' = debounce /\ armed' = armed /\ late' = late
      BY DEF timers
    <3> QED BY <3>1 DEF Underway
  <2> QED BY <1>4, <2>1, <2>2, <2>3 DEF Accounted, Queued
<1> QED BY <1>3, <1>4

\* After an event, what is unseen is still under way or was set aside.
LEMMA AfterLoopEvent ==
  ASSUME TypeOK, AllAccounted, LoopEvent, Running,
         NEW q \in Paths, q \in unseen' \ missed'
  PROVE  Accounted(q)'
<1> DEFINE p  == Head(queue)[1]
           op == Head(queue)[2]
<1>1. /\ queue \in Seq(Paths \X Ops) /\ queue # <<>> /\ queue' = Tail(queue)
      /\ p \in Paths /\ op \in Ops
  BY SMTT(30), QueueHead DEF LoopEvent, TypeOK
<1>2. q \in unseen \ missed /\ Accounted(q)
  BY DEF LoopEvent, AllAccounted
<1>3. Telling(q)' = Telling(q) /\ Telling(q) \subseteq Ops /\ late' = late
  BY SMTT(30) DEF LoopEvent, Telling
<1>4. CASE q = p
  <2>1. p \notin ignored
    BY <1>2, <1>4 DEF LoopEvent
  <2>2. debounce' = [debounce EXCEPT ![p] = @ \cup {op}] /\ armed' = armed \cup {p}
    BY <2>1 DEF LoopEvent, SetTimer
  <2>3. debounce'[p] = debounce[p] \cup {op}
    BY <1>1, <2>2 DEF TypeOK
  <2>4. Underway(q)'
    BY <1>4, <2>2, <2>3 DEF Underway
  <2>5. InQueue(queue, q, Telling(q)) =>
          InQueue(queue', q, Telling(q)) \/ op \in Telling(q)
    BY <1>1, <1>4, InTail
  <2> QED BY <1>2, <1>3, <1>4, <2>3, <2>4, <2>5 DEF Accounted
<1>5. CASE q # p
  <2>1. ASSUME NEW S, InQueue(queue, q, S) PROVE InQueue(queue', q, S)
    BY <1>1, <1>5, <2>1, InTail
  <2>2. debounce'[q] = debounce[q] /\ (q \in armed' <=> q \in armed)
    BY <1>1, <1>5 DEF LoopEvent, TypeOK, SetTimer
  <2>3. Underway(q)' = Underway(q)
    BY <1>3, <2>2 DEF Underway
  <2> QED BY <1>2, <1>3, <2>1, <2>2, <2>3 DEF Accounted, Queued
<1> QED BY <1>4, <1>5

\* After flushDebounce has taken its operations, likewise.
LEMMA AfterFlushBuild ==
  ASSUME TypeOK, AllAccounted, Running, NEW p \in Paths, FlushBuild(p),
         NEW q \in Paths, q \in unseen' \ missed'
  PROVE  Accounted(q)'
<1> DEFINE ops == debounce[p]
<1>1. queue' = queue /\ there' = there /\ Telling(q)' = Telling(q)
  BY DEF FlushBuild, disk, Telling
<1>2. q \in unseen \ missed
  BY DEF FlushBuild, TypeOK, hist
<1>3. Accounted(q)
  BY <1>2 DEF AllAccounted
<1>4. CASE q # p
  <2>1. debounce'[q] = debounce[q] /\ late'[q] = late[q] /\ (q \in armed' <=> q \in armed)
    BY SMTT(30), <1>4 DEF FlushBuild, TypeOK
  <2> QED BY <1>1, <1>3, <2>1 DEF Accounted, Queued, Underway
<1>5. CASE q = p /\ ops = {}
  <2>1. UNCHANGED <<debounce, armed>>
    BY <1>5 DEF FlushBuild
  <2>2. Queued(q) /\ InQueue(queue, q, Telling(q))
    BY <1>3, <1>5 DEF Accounted, Underway
  <2> QED BY <1>1, <2>1, <2>2 DEF Accounted, Queued
<1>6. CASE q = p /\ ops = {"chmod"}
  <2>1. q \in missed'
    BY <1>2, <1>6 DEF FlushBuild
  <2> QED BY <2>1
<1>7. CASE q = p /\ ops \notin {{}, {"chmod"}}
  <2>1. /\ unseen' = IF TellsOf(p, EventType(ops)) THEN unseen \ {p} ELSE unseen
        /\ ~TellsOf(p, EventType(ops)) /\ Absorbs(ops) => missed' = missed \cup (unseen \cap {p})
    BY <1>7 DEF FlushBuild
  <2>2. ~TellsOf(p, EventType(ops)) /\ ~Absorbs(ops)
    BY <1>2, <1>7, <2>1
  <2>3. ops \subseteq Ops
    BY DEF TypeOK
  <2>4. ops \cap Telling(p) = {}
    BY <2>2, <2>3 DEF TellsOf, EventType, Absorbs, Telling
  <2>5. InQueue(queue, q, Telling(q))
    BY <1>3, <1>7, <2>4 DEF Accounted
  <2>6. Queued(q)
    BY <2>5 DEF Queued, InQueue, Telling
  <2> QED BY <1>1, <2>5, <2>6 DEF Accounted, Queued
<1> QED BY <1>4, <1>5, <1>6, <1>7

\* Every step keeps every unseen change accounted for.
LEMMA StepAccounted == TypeOK /\ AllAccounted /\ [Next]_vars => AllAccounted'
<1> SUFFICES ASSUME TypeOK, AllAccounted, [Next]_vars, Running',
                    NEW q \in unseen' \ missed'
             PROVE  Accounted(q)'
  BY DEF AllAccounted
<1>1. Running /\ TypeOK'
  BY StaysRunning, StepTyped
<1>2. q \in Paths
  BY <1>1 DEF TypeOK
<1>3. q \in unseen \ missed => Accounted(q)
  BY <1>1 DEF AllAccounted
<1>4. ASSUME NEW p \in Paths, NEW op \in UserOps, UserChange(p, op) PROVE Accounted(q)'
  <2>1. op \in Ops /\ Change(p, op) /\ UNCHANGED timers
    BY <1>4 DEF UserChange
  <2>2. q = p => Reported(p)
    BY <1>4 DEF UserChange
  <2>3. q # p => Accounted(q)
    BY <1>3, <1>4 DEF UserChange
  <2> QED BY <1>2, <2>1, <2>2, <2>3, AfterChange
<1>5. ASSUME NEW p \in Paths, NEW op \in Ops, HandlerChange(p, op) PROVE Accounted(q)'
  <2>1. Change(p, op) /\ UNCHANGED timers /\ q # p /\ q \in unseen \ missed
    BY <1>5 DEF HandlerChange
  <2> QED BY <1>2, <1>3, <2>1, AfterChange
<1>6. ASSUME LoopEvent PROVE Accounted(q)'
  BY <1>1, <1>2, <1>6, AfterLoopEvent
<1>7. ASSUME NEW p \in Paths, FlushBuild(p) PROVE Accounted(q)'
  BY SMTT(30), <1>1, <1>2, <1>7, AfterFlushBuild
<1>8. ASSUME NEW p \in Paths, TimerFires(p) PROVE Accounted(q)'
  <2>1. /\ UNCHANGED <<queue, there, debounce>> /\ Accounted(q)
        /\ armed' = armed \ {p} /\ late' = [late EXCEPT ![p] = @ + 1]
    BY <1>3, <1>8 DEF TimerFires, disk, hist
  <2>2. Telling(q)' = Telling(q) /\ Queued(q)' = Queued(q)
    BY <2>1 DEF Telling, Queued
  <2>3. q \in armed \/ late[q] > 0 => q \in armed' \/ late'[q] > 0
    BY <1>2, <2>1 DEF TypeOK
  <2> QED BY SMTT(30), <2>1, <2>2, <2>3 DEF Accounted, Underway
<1>9. ASSUME NEW e \in Event, FlushSend(e) PROVE Accounted(q)'
  <2>1. q \in unseen \ missed
    BY <1>9 DEF FlushSend, hist
  <2>2. UNCHANGED <<queue, debounce, armed, late, there>>
    BY <1>9 DEF FlushSend, disk, timers
  <2> QED BY <1>2, <1>3, <2>1, <2>2, Undisturbed
<1>10. ASSUME UNCHANGED <<queue, there, timers, hist>> PROVE Accounted(q)'
  BY <1>2, <1>3, <1>10, Undisturbed DEF timers, hist
<1>11. ASSUME NEW p \in Paths, HandlerBegins(p) \/ IgnoreExpires(p)
       PROVE  UNCHANGED <<queue, there, timers, hist>>
  BY <1>11 DEF HandlerBegins, IgnoreExpires, disk
<1>12. HandlerEnds \/ Consume \/ UNCHANGED vars => UNCHANGED <<queue, there, timers, hist>>
  BY DEF HandlerEnds, Consume, vars, disk
<1>13. ~Stop /\ ~LoopReturns /\ ~LoopStopsTimers
  BY <1>1 DEF Running, Stop, LoopReturns, LoopStopsTimers
<1> QED
  BY <1>4, <1>5, <1>6, <1>7, <1>8, <1>9, <1>10, <1>11, <1>12, <1>13 DEF Next

\* While the monitor runs, whatever the directory tree, the capacities and the
\* interleaving of timers, flush goroutines, handlers and users: a change that
\* no event tells of has a notice under way, or was discarded in one of the
\* ways recorded in missed.
THEOREM NoOtherLoss == Spec => []NoChangeLost
<1>1. Init => AllAccounted
  BY SMTT(30) DEF Init, AllAccounted
<1>2. AllAccounted => NoChangeLost
  BY DEF AllAccounted, NoChangeLost, Running, Accounted
<1> QED BY <1>1, <1>2, StepAccounted, TypeCorrect, PTL DEF Spec

=============================================================================
