------------------------------ MODULE Monitor -------------------------------
(***************************************************************************)
(* sync.Monitor: fsnotify watches on directories, the queue of kernel      *)
(* events, debounce timers, ignore windows, the flush goroutines that      *)
(* build change events, the bounded event channel, and Stop.               *)
(*                                                                         *)
(* Users and the program's own message handlers change the directory.      *)
(* Time is abstract: a timer that runs may fire, an ignore window that is  *)
(* open may end.  The tombstone file, whose events are skipped, and the    *)
(* root itself are not among the paths; directories are not renamed.       *)
(***************************************************************************)
EXTENDS Naturals, Sequences

CONSTANTS
  Files, Dirs, \* the paths below the monitored directory
  Root,        \* the monitored directory
  Parent,      \* Parent[p]: the directory that holds p
  QueueCap,    \* the kernel's limit on queued events
  ChanCap,     \* 256, the capacity of the event channel
  UserOps,     \* what users do
  MaxChanges,  \* bound: changes made by users
  MaxWrites    \* bound: changes made by message handlers

Paths == Files \cup Dirs

\* fsnotify operations, and the types of the events made of them.
Ops == {"create", "write", "remove", "rename", "chmod"}
Removal == {"remove", "rename"}
Types == {"create", "modify", "delete"}
Event == Paths \X Types

ASSUME MonitorAssumption ==
  /\ Files \cap Dirs = {} /\ Root \notin Paths
  /\ Parent \in [Paths -> Dirs \cup {Root}]
  /\ QueueCap \in Nat /\ ChanCap \in Nat /\ UserOps \subseteq Ops
  /\ MaxChanges \in Nat /\ MaxWrites \in Nat

NoPath == Root

VARIABLES
  there,    \* the paths that exist
  watched,  \* the directories with a watch
  queue,    \* kernel events not yet read: <<path, op>>
  ignored,  \* ignoreMap: the paths whose ignore window is open
  debounce, \* debounce[p]: the collected operations, {} without an entry
  armed,    \* the paths whose entry's timer runs
  late,     \* late[p]: calls of flushDebounce(p) that will still come
  sending,  \* sending[e]: flush goroutines about to send event e
  ch,       \* the event channel
  closed,   \* close(ch) was called
  stopped,  \* Stop was called
  loop,     \* the loop goroutine: "run", "closing", "done"
  panicked, \* a goroutine sent on the closed channel
  writing,  \* the path a message handler is about to change
  changes, writes,
  unseen,   \* history: paths whose last change by a user no event tells of
  missed    \* history: those whose notice was discarded

disk == <<there, watched, queue, changes, writes>>
timers == <<debounce, armed, late>>
proc == <<closed, stopped, loop, panicked>>
hist == <<unseen, missed>>
vars == <<disk, ignored, timers, sending, ch, proc, writing, hist>>

Init ==
  /\ there \in {T \in SUBSET Paths : \A p \in T : Parent[p] \in T \cup {Root}}
  /\ watched = (there \cap Dirs) \cup {Root}
  /\ queue = <<>>
  /\ ignored = {}
  /\ debounce = [p \in Paths |-> {}]
  /\ armed = {}
  /\ late = [p \in Paths |-> 0]
  /\ sending = [e \in Event |-> 0]
  /\ ch = <<>>
  /\ closed = FALSE /\ stopped = FALSE /\ loop = "run" /\ panicked = FALSE
  /\ writing = NoPath
  /\ changes = 0 /\ writes = 0
  /\ unseen = {} /\ missed = {}

-----------------------------------------------------------------------------
(* Changes of the directory.                                               *)

\* What an operation on p leaves there.
After(p, op) == IF op \in Removal THEN there \ {p} ELSE there \cup {p}

\* create needs a parent; only an empty directory can be removed.
Possible(p, op) ==
  CASE op = "create" -> p \notin there /\ Parent[p] \in there \cup {Root}
    [] op = "write"  -> p \in there \cap Files
    [] op = "remove" -> p \in there /\ \A q \in there : Parent[q] # p
    [] op = "rename" -> p \in there \cap Files
    [] op = "chmod"  -> p \in there

\* A watch of the parent reports the operation, if there is room for it.
Reported(p) == Parent[p] \in watched /\ Len(queue) < QueueCap /\ ~stopped

\* The kernel: the change, the event, and the end of a removed directory's watch.
Change(p, op) ==
  /\ Possible(p, op)
  /\ there' = After(p, op)
  /\ watched' = IF op \in Removal THEN watched \ {p} ELSE watched
  /\ queue' = IF Reported(p) THEN Append(queue, <<p, op>>) ELSE queue

\* A user's change that is not reported is missed; a later one that is reported
\* makes up for an earlier one.
UserChange(p, op) ==
  /\ changes < MaxChanges
  /\ changes' = changes + 1
  /\ Change(p, op)
  /\ unseen' = unseen \cup {p}
  /\ missed' = IF Reported(p) THEN missed \ {p} ELSE missed \cup {p}
  /\ UNCHANGED <<writes, ignored, timers, sending, ch, proc, writing>>

\* A message handler has the path ignored (Ignore), unless it handles SYNC_APPLY
\* or, on the server, FILE_DATA ...
HandlerBegins(p) ==
  /\ ~panicked /\ writing = NoPath /\ writes < MaxWrites
  /\ writing' = p
  /\ writes' = writes + 1
  /\ ignored' \in {ignored, ignored \cup {p}}
  /\ UNCHANGED <<there, watched, queue, changes, timers, sending, ch, proc, hist>>

\* ... and changes it: what a user did there is overwritten.
HandlerChange(p, op) ==
  /\ ~panicked /\ writing = p
  /\ Change(p, op)
  /\ writing' = NoPath
  /\ unseen' = unseen \ {p}
  /\ missed' = missed \ {p}
  /\ UNCHANGED <<changes, writes, ignored, timers, sending, ch, proc>>

\* The change fails, or there is none: handleMonitorEvent only calls Ignore.
HandlerEnds ==
  /\ ~panicked /\ writing # NoPath
  /\ writing' = NoPath
  /\ UNCHANGED <<disk, ignored, timers, sending, ch, proc, hist>>

\* isIgnored after the end of the window.
IgnoreExpires(p) ==
  /\ p \in ignored
  /\ ignored' = ignored \ {p}
  /\ UNCHANGED <<disk, timers, sending, ch, proc, writing, hist>>

-----------------------------------------------------------------------------
(* The loop goroutine.                                                     *)

\* Mutant: the type of a new path is not looked at.
WatchNewAny(p, op) == IF op = "create" THEN watched \cup ({p} \cap there) ELSE watched

WatchNew(p, op) == IF op = "create" THEN watched \cup ({p} \cap there \cap Dirs) ELSE watched

\* Mutant: the first event of an entry sets its timer, later ones do not.
SetTimerOnce(p) == IF debounce[p] = {} THEN armed \cup {p} ELSE armed

\* AfterFunc for a new entry, Reset for an old one, whether or not it runs.
SetTimer(p) == armed \cup {p}

\* An event of an ignored path is dropped, a new directory is watched, and the
\* operation is added to the entry of its path, whose timer is set again.
LoopEvent ==
  LET p  == Head(queue)[1]
      op == Head(queue)[2]
  IN  /\ ~panicked /\ loop = "run" /\ queue # <<>>
      /\ queue' = Tail(queue)
      /\ IF p \in ignored
         THEN /\ missed' = missed \cup (unseen \cap {p})
              /\ UNCHANGED <<watched, debounce, armed>>
         ELSE /\ watched' = WatchNew(p, op)
              /\ debounce' = [debounce EXCEPT ![p] = @ \cup {op}]
              /\ armed' = SetTimer(p)
              /\ UNCHANGED missed
      /\ UNCHANGED <<there, changes, writes, ignored, late, sending, ch, proc, writing, unseen>>

\* Stop closes quit and the watcher.
Stop ==
  /\ ~panicked /\ ~stopped
  /\ stopped' = TRUE
  /\ UNCHANGED <<disk, ignored, timers, sending, ch, closed, loop, panicked, writing, hist>>

\* The loop returns: its deferred function closes the channel, then takes the
\* lock and stops the timers.
LoopReturns ==
  /\ ~panicked /\ loop = "run" /\ stopped
  /\ closed' = TRUE
  /\ loop' = "closing"
  /\ UNCHANGED <<disk, ignored, timers, sending, ch, stopped, panicked, writing, hist>>

LoopStopsTimers ==
  /\ ~panicked /\ loop = "closing"
  /\ armed' = {}
  /\ loop' = "done"
  /\ UNCHANGED <<disk, ignored, debounce, late, sending, ch, closed, stopped, panicked,
                 writing, hist>>

-----------------------------------------------------------------------------
(* Timers and the goroutines they start.                                   *)

TimerFires(p) ==
  /\ ~panicked /\ p \in armed
  /\ armed' = armed \ {p}
  /\ late' = [late EXCEPT ![p] = @ + 1]
  /\ UNCHANGED <<disk, ignored, debounce, sending, ch, proc, writing, hist>>

EventType(ops) ==
  IF ops \cap Removal # {} THEN "delete"
  ELSE IF "create" \in ops THEN "create" ELSE "modify"

\* The event says what became of p: that it is gone, or its entry could be built.
TellsOf(p, type) == (type = "delete") = (p \notin there)

\* A deletion dominates the other operations of its entry.
Absorbs(ops) == ops \cap Removal # {} /\ ~(ops \subseteq Removal)

\* flushDebounce up to the unlock.  The entry is gone, or was only touched by
\* chmod and stays, or an event is built; then a timer that was set again in
\* the meantime will find another entry or none.
FlushBuild(p) ==
  LET ops  == debounce[p]
      type == EventType(ops)
  IN  /\ ~panicked /\ late[p] > 0
      /\ \/ /\ ops = {}
            /\ late' = [late EXCEPT ![p] = @ - 1]
            /\ UNCHANGED <<debounce, armed, sending, hist>>
         \/ /\ ops = {"chmod"}
            /\ late' = [late EXCEPT ![p] = @ - 1]
            /\ missed' = missed \cup (unseen \cap {p})
            /\ UNCHANGED <<debounce, armed, sending, unseen>>
         \/ /\ ops \notin {{}, {"chmod"}}
            /\ late' = IF p \in armed THEN late ELSE [late EXCEPT ![p] = @ - 1]
            /\ armed' = armed \ {p}
            /\ debounce' = [debounce EXCEPT ![p] = {}]
            /\ sending' = [sending EXCEPT ![<<p, type>>] = @ + 1]
            /\ unseen' = IF TellsOf(p, type) THEN unseen \ {p} ELSE unseen
            /\ missed' = CASE TellsOf(p, type) -> missed \ {p}
                           [] ~TellsOf(p, type) /\ Absorbs(ops) -> missed \cup (unseen \cap {p})
                           [] OTHER -> missed
      /\ UNCHANGED <<disk, ignored, ch, proc, writing>>

\* The send: it panics on a closed channel and drops the event at a full one.
FlushSend(e) ==
  /\ ~panicked /\ sending[e] > 0
  /\ sending' = [sending EXCEPT ![e] = @ - 1]
  /\ \/ /\ closed
        /\ panicked' = TRUE
        /\ UNCHANGED <<ch, hist>>
     \/ /\ ~closed /\ Len(ch) < ChanCap
        /\ ch' = Append(ch, e)
        /\ UNCHANGED <<panicked, hist>>
     \/ /\ ~closed /\ Len(ch) >= ChanCap
        /\ unseen' = unseen \cup {e[1]}
        /\ missed' = missed \cup {e[1]}
        /\ UNCHANGED <<ch, panicked>>
  /\ UNCHANGED <<disk, ignored, timers, closed, stopped, loop, writing>>

\* The goroutine that reads Events().
Consume ==
  /\ ~panicked /\ ch # <<>>
  /\ ch' = Tail(ch)
  /\ UNCHANGED <<disk, ignored, timers, sending, proc, writing, hist>>

-----------------------------------------------------------------------------
Next ==
  \/ \E p \in Paths, op \in UserOps : UserChange(p, op)
  \/ \E p \in Paths, op \in Ops : HandlerChange(p, op)
  \/ \E p \in Paths : HandlerBegins(p) \/ IgnoreExpires(p)
  \/ HandlerEnds
  \/ LoopEvent \/ Stop \/ LoopReturns \/ LoopStopsTimers
  \/ \E p \in Paths : TimerFires(p) \/ FlushBuild(p)
  \/ \E e \in Event : FlushSend(e)
  \/ Consume

Spec == Init /\ [][Next]_vars

\* The loop and the flush goroutines run and timers fire.  An event that is built
\* needs no fairness: if its send comes, it is queued or recorded as missed.
FairSpec ==
  /\ Spec
  /\ WF_vars(LoopEvent)
  /\ \A p \in Paths : WF_vars(TimerFires(p)) /\ WF_vars(FlushBuild(p))

-----------------------------------------------------------------------------
(* Properties.                                                             *)

TypeOK ==
  /\ there \in SUBSET Paths
  /\ watched \in SUBSET (Dirs \cup {Root})
  /\ queue \in Seq(Paths \X Ops)
  /\ ignored \in SUBSET Paths
  /\ debounce \in [Paths -> SUBSET Ops]
  /\ armed \in SUBSET Paths
  /\ late \in [Paths -> Nat]
  /\ sending \in [Event -> Nat]
  /\ ch \in Seq(Event)
  /\ closed \in BOOLEAN /\ stopped \in BOOLEAN /\ panicked \in BOOLEAN
  /\ loop \in {"run", "closing", "done"}
  /\ writing \in Paths \cup {NoPath}
  /\ changes \in Nat /\ writes \in Nat
  /\ unseen \in SUBSET Paths /\ missed \in SUBSET unseen

\* The queue q holds an operation of S on p.
InQueue(q, p, S) == \E i \in DOMAIN q : q[i][1] = p /\ q[i][2] \in S

Queued(p) == InQueue(queue, p, Ops)

\* A flush of the entry of p will come.
Underway(p) == debounce[p] # {} /\ (p \in armed \/ late[p] > 0)

\* While the monitor runs, a change made by a user is lost in no other way than
\* those recorded in missed: not reported by the kernel (unwatched directory,
\* full queue), within an ignore window, chmod only, re-created within one
\* debounce delay of its removal, or dropped at a full channel.  Every other
\* change has a notice under way, however timers, resets and flush goroutines
\* of its path interleave.
NoChangeLost ==
  loop = "run" /\ ~stopped => \A p \in unseen \ missed : Queued(p) \/ Underway(p)

\* Real-time monitoring: while the monitor runs, no change of a user goes
\* unreported.
NothingMissed == ~stopped => missed = {}

\* For every change of a user flushDebounce eventually builds an event that tells
\* of it, or it is missed in one of those ways, unless the monitor is stopped.
EventuallyReported ==
  \A p \in Paths : p \in unseen ~> (p \notin unseen \/ p \in missed \/ stopped)

=============================================================================
