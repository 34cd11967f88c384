--------------------------- MODULE ClientProcess ---------------------------
(***************************************************************************)
(* The goroutines of the client process and the connection they share.     *)
(*                                                                         *)
(* main() runs one session after another: connect, handshake, initial      *)
(* sync, upload, receive loop, backoff.  Each session starts a monitor and *)
(* a goroutine that sends local changes; a third goroutine waits for a     *)
(* signal.  All of them use Client.conn: Close sets it to nil under mu,    *)
(* while the senders and the receiver read it without the lock, so that    *)
(* reading the pointer and using the connection are two steps.             *)
(*                                                                         *)
(* Sessions are numbered by the connections that were established.  What   *)
(* a message says is left out (FileSync), and so is how long a write may   *)
(* block (Transfer) and which changes a monitor reports (Monitor).         *)
(***************************************************************************)
EXTENDS Integers, FiniteSets

CONSTANTS MaxFaults,   \* failed scans, dials, handshakes, connections and monitors
          MaxBurst,    \* chunks the server streams, and messages a client uploads
          MaxChanges   \* local changes the monitors see

ASSUME ClientAssumption ==
  MaxFaults \in Nat /\ MaxBurst \in Nat /\ MaxChanges \in Nat

VARIABLES main,      \* where main() is
          hold,      \* the connection main() has read from Client.conn, 0 for none
          clean,     \* runSession returns nil
          burst,     \* messages of the current initial sync or upload
          ptr,       \* Client.conn: a session, or 0 for nil
          link,      \* what became of the connection of each session
          sessions,  \* connections established so far
          sig,       \* the goroutine that waits for a signal
          evt,       \* the goroutine that sends the local changes of a session
          ehold,     \* the connection it has read from Client.conn
          over,      \* sessions whose context was cancelled by runSession
          mon,       \* the monitor of a session
          armed,     \* its debounce timers that run
          late,      \* its flush goroutines that have not yet sent
          ch,        \* events in its channel
          panicked,  \* the goroutine whose panic ended the process, and its session
          faults, changes

conn == <<ptr, link, sessions>>
sender == <<evt, ehold>>
monitor == <<mon, armed, late, ch, changes>>
control == <<main, hold, clean, burst>>
vars == <<control, conn, sig, sender, over, monitor, panicked, faults>>

Sessions == 1 .. MaxFaults + 1
Writes == {"hello", "init", "upload"}
Reads == {"ack", "tree", "apply", "data", "recv"}
Pcs == Writes \cup Reads \cup
       {"top", "connect", "dial", "dialing", "retry", "drop", "watch", "live", "lost",
        "unwind", "stop", "clean", "failed", "backoff", "exit"}

NoPanic == <<"none", 0>>

Cancelled == sig # "waiting"

\* The process runs: main() has not returned and no goroutine has panicked.
Up == main # "exit" /\ panicked = NoPanic

Init ==
  /\ main = "top" /\ hold = 0 /\ clean = FALSE /\ burst = 0
  /\ ptr = 0 /\ link = [s \in Sessions |-> "none"] /\ sessions = 0
  /\ sig = "waiting" /\ over = {}
  /\ evt = [s \in Sessions |-> "none"] /\ ehold = [s \in Sessions |-> 0]
  /\ mon = [s \in Sessions |-> "none"]
  /\ armed = [s \in Sessions |-> 0] /\ late = [s \in Sessions |-> 0]
  /\ ch = [s \in Sessions |-> 0]
  /\ panicked = NoPanic /\ faults = 0 /\ changes = 0

-----------------------------------------------------------------------------
(* Client.Close, and what uses Client.conn.                                *)

\* Mutant: Close forgets the connection without closing it.
CloseForgets == ptr' = 0 /\ UNCHANGED <<link, sessions>>

Close ==
  /\ ptr' = 0
  /\ link' = [s \in Sessions |-> IF s = ptr THEN "closed" ELSE link[s]]
  /\ UNCHANGED sessions

\* c.conn.WriteMessage and c.conn.ReadMessage begin by reading the pointer.
MainReadsConn ==
  /\ Up /\ hold = 0
  /\ main \in Reads \cup Writes
  /\ main = "upload" => burst < MaxBurst
  /\ IF ptr = 0 THEN panicked' = <<"main", sessions>> /\ UNCHANGED hold
                ELSE hold' = ptr /\ UNCHANGED panicked
  /\ UNCHANGED <<main, clean, burst, conn, sig, sender, over, monitor, faults>>

-----------------------------------------------------------------------------
(* main() and Client.Connect.                                              *)

Exit == Close /\ main' = "exit"

LoopTop ==
  /\ Up /\ main = "top"
  /\ IF Cancelled THEN Exit ELSE main' = "connect" /\ UNCHANGED conn
  /\ UNCHANGED <<hold, clean, burst, sig, sender, over, monitor, panicked, faults>>

\* runSession returned.
Return ==
  /\ Up /\ main \in {"clean", "failed"}
  /\ IF main = "clean" \/ Cancelled THEN Exit ELSE main' = "backoff" /\ UNCHANGED conn
  /\ UNCHANGED <<hold, clean, burst, sig, sender, over, monitor, panicked, faults>>

Backoff ==
  /\ Up /\ main = "backoff"
  /\ \/ main' = "top" /\ UNCHANGED conn
     \/ Cancelled /\ Exit
  /\ UNCHANGED <<hold, clean, burst, sig, sender, over, monitor, panicked, faults>>

\* ScanLocal of the new engine fails: runSession returns before it connects.
ScanFails ==
  /\ Up /\ main = "connect"
  /\ faults < MaxFaults
  /\ faults' = faults + 1
  /\ main' = "failed"
  /\ UNCHANGED <<hold, clean, burst, conn, sig, sender, over, monitor, panicked>>

ConnectCloses ==
  /\ Up /\ main = "connect"
  /\ Close
  /\ main' = "dial"
  /\ UNCHANGED <<hold, clean, burst, sig, sender, over, monitor, panicked, faults>>

\* The context is checked before each dial, not after it.
DialBegins ==
  /\ Up /\ main = "dial"
  /\ main' = IF Cancelled THEN "failed" ELSE "dialing"
  /\ UNCHANGED <<hold, clean, burst, conn, sig, sender, over, monitor, panicked, faults>>

DialSucceeds ==
  /\ Up /\ main = "dialing"
  /\ sessions' = sessions + 1
  /\ ptr' = sessions + 1
  /\ link' = [link EXCEPT ![sessions + 1] = "up"]
  /\ main' = "hello" /\ clean' = FALSE /\ burst' = 0
  /\ UNCHANGED <<hold, sig, sender, over, monitor, panicked, faults>>

DialFails ==
  /\ Up /\ main = "dialing"
  /\ faults < MaxFaults
  /\ faults' = faults + 1
  /\ main' = "retry"
  /\ UNCHANGED <<hold, clean, burst, conn, sig, sender, over, monitor, panicked>>

Retry ==
  /\ Up /\ main = "retry"
  /\ \/ main' = "dial"
     \/ Cancelled /\ main' = "failed"
  /\ UNCHANGED <<hold, clean, burst, conn, sig, sender, over, monitor, panicked, faults>>

-----------------------------------------------------------------------------
(* runSession.                                                             *)

\* Where runSession goes after a message that is not part of a stream.
Following ==
  [hello |-> "ack", ack |-> "init", init |-> "tree", tree |-> "apply", apply |-> "data",
   recv |-> "live"]

\* A write on a lost connection may still be accepted by the local socket; a
\* read needs a message of the server.  Anything but the server's tree in its
\* place skips the initial sync; chunks come until the server's ACK, and the
\* upload goes on until nothing is left.
Transmits ==
  /\ Up /\ hold # 0
  /\ link[hold] = "up" \/ (main \in Writes /\ link[hold] = "cut")
  /\ \/ main \in DOMAIN Following /\ main' = Following[main] /\ burst' = burst
     \/ main = "tree" /\ main' = "watch" /\ burst' = burst
     \/ main = "data" /\ main' = "data" /\ burst < MaxBurst /\ burst' = burst + 1
     \/ main = "data" /\ main' = "upload" /\ burst' = 0
     \/ main = "upload" /\ main' = "upload" /\ burst' = burst + 1
  /\ hold' = 0
  /\ UNCHANGED <<clean, conn, sig, sender, over, monitor, panicked, faults>>

\* Errors of the upload are printed and ignored, all others end the session.
MainError ==
  /\ Up /\ hold # 0
  /\ link[hold] # "up"
  /\ \/ main = "upload" /\ main' = "upload" /\ burst' = burst + 1
     \/ main = "recv" /\ main' = "lost" /\ burst' = burst
     \/ main \notin {"upload", "recv"} /\ main' = "drop" /\ burst' = burst
  /\ hold' = 0
  /\ UNCHANGED <<clean, conn, sig, sender, over, monitor, panicked, faults>>

\* The answer to HELLO is not HELLO_ACK.
Refused ==
  /\ Up /\ hold # 0 /\ main = "ack"
  /\ link[hold] = "up"
  /\ faults < MaxFaults
  /\ faults' = faults + 1
  /\ main' = "drop" /\ hold' = 0
  /\ UNCHANGED <<clean, burst, conn, sig, sender, over, monitor, panicked>>

\* An error before the receive loop: Close, then return the error.
Drop ==
  /\ Up /\ main = "drop"
  /\ Close
  /\ main' = "failed"
  /\ UNCHANGED <<hold, clean, burst, sig, sender, over, monitor, panicked, faults>>

UploadDone ==
  /\ Up /\ main = "upload" /\ hold = 0
  /\ main' = "watch"
  /\ UNCHANGED <<hold, clean, burst, conn, sig, sender, over, monitor, panicked, faults>>

\* NewMonitor, Start and the goroutine that handles local changes.
MonitorStarts ==
  /\ Up /\ main = "watch"
  /\ mon' = [mon EXCEPT ![sessions] = "run"]
  /\ evt' = [evt EXCEPT ![sessions] = "idle"]
  /\ main' = "live"
  /\ UNCHANGED <<hold, clean, burst, conn, sig, ehold, over, armed, late, ch, changes,
                 panicked, faults>>

MonitorFails ==
  /\ Up /\ main = "watch"
  /\ faults < MaxFaults
  /\ faults' = faults + 1
  /\ Close
  /\ main' = "failed"
  /\ UNCHANGED <<hold, clean, burst, sig, sender, over, monitor, panicked>>

\* The select at the head of the receive loop.
LiveCheck ==
  /\ Up /\ main = "live"
  /\ IF Cancelled THEN Close /\ main' = "unwind" /\ clean' = TRUE
                  ELSE main' = "recv" /\ UNCHANGED <<conn, clean>>
  /\ UNCHANGED <<hold, burst, sig, sender, over, monitor, panicked, faults>>

\* Mutant: a lost connection is taken for a clean shutdown.
LostIsClean ==
  /\ Up /\ main = "lost"
  /\ Close
  /\ clean' = TRUE
  /\ main' = "unwind"
  /\ UNCHANGED <<hold, burst, sig, sender, over, monitor, panicked, faults>>

Lost ==
  /\ Up /\ main = "lost"
  /\ Close
  /\ clean' = Cancelled
  /\ main' = "unwind"
  /\ UNCHANGED <<hold, burst, sig, sender, over, monitor, panicked, faults>>

\* Mutant: the session's context is not cancelled.
UnwindKeeps ==
  /\ Up /\ main = "unwind"
  /\ main' = "stop"
  /\ UNCHANGED <<over, hold, clean, burst, conn, sig, sender, monitor, panicked, faults>>

\* The deferred calls, last one first: sessionCancel, then monitor.Stop.
Unwind ==
  /\ Up /\ main = "unwind"
  /\ over' = over \cup {sessions}
  /\ main' = "stop"
  /\ UNCHANGED <<hold, clean, burst, conn, sig, sender, monitor, panicked, faults>>

StopMonitor ==
  /\ Up /\ main = "stop"
  /\ mon' = [mon EXCEPT ![sessions] = "quit"]
  /\ main' = IF clean THEN "clean" ELSE "failed"
  /\ UNCHANGED <<hold, clean, burst, conn, sig, sender, over, armed, late, ch, changes,
                 panicked, faults>>

-----------------------------------------------------------------------------
(* The goroutine that handles the local changes of session s.              *)

\* Mutant: an event is taken from an empty channel.
EventTakenBlindly(s) ==
  /\ Up /\ evt[s] = "idle"
  /\ ch' = [ch EXCEPT ![s] = @ - 1]
  /\ evt' = [evt EXCEPT ![s] = "first"]
  /\ UNCHANGED <<control, conn, sig, ehold, over, mon, armed, late, changes, panicked, faults>>

\* select takes an event even when the context is done as well.
EventTaken(s) ==
  /\ Up /\ evt[s] = "idle"
  /\ ch[s] > 0
  /\ ch' = [ch EXCEPT ![s] = @ - 1]
  /\ evt' = [evt EXCEPT ![s] = "first"]
  /\ UNCHANGED <<control, conn, sig, ehold, over, mon, armed, late, changes, panicked, faults>>

\* Mutant: the goroutine watches the context of the process, not that of the
\* session, and does not notice that the channel is closed.
EventsEndWithProcess(s) ==
  /\ Up /\ evt[s] = "idle"
  /\ Cancelled
  /\ evt' = [evt EXCEPT ![s] = "done"]
  /\ UNCHANGED <<control, conn, sig, ehold, over, monitor, panicked, faults>>

EventsEnd(s) ==
  /\ Up /\ evt[s] = "idle"
  /\ \/ Cancelled \/ s \in over
     \/ mon[s] \in {"closed", "off"} /\ ch[s] = 0
  /\ evt' = [evt EXCEPT ![s] = "done"]
  /\ UNCHANGED <<control, conn, sig, ehold, over, monitor, panicked, faults>>

EventReadsConn(s) ==
  /\ Up /\ evt[s] \in {"first", "content"} /\ ehold[s] = 0
  /\ IF ptr = 0 THEN panicked' = <<"event", s>> /\ UNCHANGED ehold
                ELSE ehold' = [ehold EXCEPT ![s] = ptr] /\ UNCHANGED panicked
  /\ UNCHANGED <<control, conn, sig, evt, over, monitor, faults>>

\* A delete, or a directory, is one message; a file is followed by its content
\* (one chunk here).
EventSent(s) ==
  /\ Up /\ ehold[s] # 0
  /\ link[ehold[s]] \in {"up", "cut"}
  /\ \/ evt' = [evt EXCEPT ![s] = "idle"]
     \/ evt[s] = "first" /\ evt' = [evt EXCEPT ![s] = "content"]
  /\ ehold' = [ehold EXCEPT ![s] = 0]
  /\ UNCHANGED <<control, conn, sig, over, monitor, panicked, faults>>

\* The error is printed and the event forgotten.
EventError(s) ==
  /\ Up /\ ehold[s] # 0
  /\ link[ehold[s]] # "up"
  /\ evt' = [evt EXCEPT ![s] = "idle"]
  /\ ehold' = [ehold EXCEPT ![s] = 0]
  /\ UNCHANGED <<control, conn, sig, over, monitor, panicked, faults>>

-----------------------------------------------------------------------------
(* The monitor of session s: debounce timers, flush goroutines and the end *)
(* of its loop, which closes the channel before it stops the timers.       *)

LocalChange(s) ==
  /\ Up /\ mon[s] = "run"
  /\ changes < MaxChanges
  /\ changes' = changes + 1
  /\ armed' = [armed EXCEPT ![s] = @ + 1]
  /\ UNCHANGED <<control, conn, sig, sender, over, mon, late, ch, panicked, faults>>

TimerFires(s) ==
  /\ Up /\ armed[s] > 0
  /\ armed' = [armed EXCEPT ![s] = @ - 1]
  /\ late' = [late EXCEPT ![s] = @ + 1]
  /\ UNCHANGED <<control, conn, sig, sender, over, mon, ch, changes, panicked, faults>>

\* A flush that finds nothing to report sends nothing; a send on a closed
\* channel panics.
FlushSends(s) ==
  /\ Up /\ late[s] > 0
  /\ late' = [late EXCEPT ![s] = @ - 1]
  /\ \/ UNCHANGED <<ch, panicked>>
     \/ mon[s] \in {"run", "quit"} /\ ch' = [ch EXCEPT ![s] = @ + 1] /\ UNCHANGED panicked
     \/ mon[s] \in {"closed", "off"} /\ panicked' = <<"flush", s>> /\ UNCHANGED ch
  /\ UNCHANGED <<control, conn, sig, sender, over, mon, armed, changes, faults>>

ChannelCloses(s) ==
  /\ Up /\ mon[s] = "quit"
  /\ mon' = [mon EXCEPT ![s] = "closed"]
  /\ UNCHANGED <<control, conn, sig, sender, over, armed, late, ch, changes, panicked, faults>>

TimersStop(s) ==
  /\ Up /\ mon[s] = "closed"
  /\ mon' = [mon EXCEPT ![s] = "off"]
  /\ armed' = [armed EXCEPT ![s] = 0]
  /\ UNCHANGED <<control, conn, sig, sender, over, late, ch, changes, panicked, faults>>

-----------------------------------------------------------------------------
(* The signal goroutine, and the network.                                  *)

\* SIGINT or SIGTERM: cancel(), then client.Close().
Signal ==
  /\ Up /\ sig = "waiting"
  /\ sig' = "cancelled"
  /\ UNCHANGED <<control, conn, sender, over, monitor, panicked, faults>>

\* Mutant: the connection is left open, so that a pending read goes on.
SignalOnlyCancels ==
  /\ Up /\ sig = "cancelled"
  /\ sig' = "done"
  /\ UNCHANGED <<control, conn, sender, over, monitor, panicked, faults>>

SignalCloses ==
  /\ Up /\ sig = "cancelled"
  /\ Close
  /\ sig' = "done"
  /\ UNCHANGED <<control, sender, over, monitor, panicked, faults>>

\* The connection is lost: the server stops, or the network fails.
Cut(s) ==
  /\ Up /\ link[s] = "up"
  /\ faults < MaxFaults
  /\ faults' = faults + 1
  /\ link' = [link EXCEPT ![s] = "cut"]
  /\ UNCHANGED <<control, ptr, sessions, sig, sender, over, monitor, panicked>>

-----------------------------------------------------------------------------
MainNext ==
  \/ LoopTop \/ Return \/ Backoff
  \/ ScanFails \/ ConnectCloses \/ DialBegins \/ DialSucceeds \/ DialFails \/ Retry
  \/ MainReadsConn \/ Transmits \/ MainError \/ Refused \/ Drop \/ UploadDone
  \/ MonitorStarts \/ MonitorFails \/ LiveCheck \/ Lost \/ Unwind \/ StopMonitor

EventNext(s) ==
  EventTaken(s) \/ EventsEnd(s) \/ EventReadsConn(s) \/ EventSent(s) \/ EventError(s)

MonitorNext(s) ==
  LocalChange(s) \/ TimerFires(s) \/ FlushSends(s) \/ ChannelCloses(s) \/ TimersStop(s)

Next ==
  \/ MainNext
  \/ \E s \in Sessions : EventNext(s) \/ MonitorNext(s) \/ Cut(s)
  \/ Signal \/ SignalCloses

Spec == Init /\ [][Next]_vars

\* Every goroutine that can run is scheduled.  The server answers in the
\* handshake and the initial sync (no read has a deadline, so the client waits
\* for it); in the receive loop it may have nothing to say.
FairSpec ==
  /\ Spec
  /\ WF_vars(MainNext /\ ~(main = "recv" /\ main' = "live")) /\ WF_vars(SignalCloses)
  /\ \A s \in Sessions : /\ WF_vars(EventNext(s))
                         /\ WF_vars(ChannelCloses(s)) /\ WF_vars(TimersStop(s))

-----------------------------------------------------------------------------
TypeOK ==
  /\ main \in Pcs /\ hold \in {0} \cup Sessions /\ clean \in BOOLEAN /\ burst \in 0 .. MaxBurst
  /\ ptr \in {0} \cup Sessions /\ sessions \in {0} \cup Sessions
  /\ link \in [Sessions -> {"none", "up", "cut", "closed"}]
  /\ sig \in {"waiting", "cancelled", "done"} /\ over \subseteq Sessions
  /\ evt \in [Sessions -> {"none", "idle", "first", "content", "done"}]
  /\ ehold \in [Sessions -> {0} \cup Sessions]
  /\ mon \in [Sessions -> {"none", "run", "quit", "closed", "off"}]
  /\ armed \in [Sessions -> Nat] /\ late \in [Sessions -> Nat] /\ ch \in [Sessions -> Nat]
  /\ panicked \in {"none", "main", "event", "flush"} \X ({0} \cup Sessions)
  /\ faults \in 0 .. MaxFaults /\ changes \in 0 .. MaxChanges

\* A connection that is not closed is the one Client.conn points to, so that
\* no session leaks its connection, and once main() has returned none is open.
NoLeak ==
  /\ \A s \in Sessions : link[s] \in {"up", "cut"} => ptr = s
  /\ main = "exit" => ptr = 0

\* A goroutine meets the nil connection or the closed channel only at an end:
\* the main goroutine after a signal, a sender after the connection of its own
\* session was closed, a flush after its session was cancelled.  In a session
\* that goes on nobody panics, whatever the goroutines of earlier ones do.
PanicsOnlyAtEnd ==
  /\ panicked[1] = "main"  => Cancelled
  /\ panicked[1] = "event" => link[panicked[2]] = "closed"
  /\ panicked[1] = "flush" => panicked[2] \in over

\* Auto-reconnect: the process ends only because it was told to.
SurvivesConnectionLoss == panicked # NoPanic => Cancelled

\* A signal ends the process, wherever the goroutines are.
ShutdownCompletes == Cancelled ~> ~Up

\* After every failure the client gets back to a live session, unless it is
\* told to stop or panics.
Reconnects == main \in {"drop", "lost"} ~> main = "live" \/ Cancelled \/ panicked # NoPanic

\* The goroutine of a session that is over ends, although the channel and the
\* connection it uses are gone; the next sessions do not pile up senders.
SendersEnd == \A s \in Sessions : s \in over ~> evt[s] = "done" \/ ~Up

=============================================================================
