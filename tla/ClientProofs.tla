---------------------------- MODULE ClientProofs ----------------------------
(***************************************************************************)
(* No leaked connection and no panic inside a session, for any number of   *)
(* failures, messages and local changes.                                   *)
(***************************************************************************)
EXTENDS ClientProcess, TLAPS

USE ClientAssumption

-----------------------------------------------------------------------------
(* The inductive invariant.                                                *)

ConnTyped ==
  /\ ptr \in {0} \cup Sessions /\ sessions \in {0} \cup Sessions
  /\ link \in [Sessions -> {"none", "up", "cut", "closed"}]

MainTyped ==
  /\ main \in Pcs /\ hold \in {0} \cup Sessions /\ clean \in BOOLEAN /\ burst \in 0 .. MaxBurst
  /\ sig \in {"waiting", "cancelled", "done"} /\ over \subseteq Sessions
  /\ faults \in 0 .. MaxFaults

SenderTyped ==
  /\ evt \in [Sessions -> {"none", "idle", "first", "content", "done"}]
  /\ ehold \in [Sessions -> {0} \cup Sessions]

MonitorTyped ==
  /\ mon \in [Sessions -> {"none", "run", "quit", "closed", "off"}]
  /\ armed \in [Sessions -> Nat] /\ late \in [Sessions -> Nat] /\ ch \in [Sessions -> Nat]
  /\ changes \in 0 .. MaxChanges

PanicTyped == panicked \in {"none", "main", "event", "flush"} \X ({0} \cup Sessions)

\* The type invariant, by component.
LEMMA TypeSplit ==
  TypeOK <=> ConnTyped /\ MainTyped /\ SenderTyped /\ MonitorTyped /\ PanicTyped
BY DEF TypeOK, ConnTyped, MainTyped, SenderTyped, MonitorTyped, PanicTyped

Using == Reads \cup Writes

\* Client.conn and the connections: all but the latest one are closed.
ConnInv ==
  /\ ptr \in {0, sessions}
  /\ \A s \in Sessions : /\ link[s] = "none" <=> s > sessions
                         /\ link[s] \in {"up", "cut"} <=> s = ptr

\* Where main() uses the connection there is one, until a signal comes.
MainInv ==
  /\ main \in Using \cup {"watch", "live", "drop", "lost", "unwind", "stop"} => sessions > 0
  /\ main \in Using \cup {"watch", "live"} /\ ~Cancelled => ptr = sessions
  /\ hold # 0 => main \in Using /\ (Cancelled \/ hold = ptr)
  /\ hold # 0 /\ main = "upload" => burst < MaxBurst
  /\ main \in {"dial", "dialing", "retry", "exit"} => ptr = 0

\* Every session but the current one was ended by a failure, so that the
\* failures bound the sessions.
CountInv ==
  /\ sessions <= faults + 1
  /\ main \in {"connect", "dial", "dialing", "retry"} => sessions <= faults
  /\ main \in {"top", "failed", "backoff", "drop", "lost", "unwind", "stop"} /\ ~Cancelled
       => sessions <= faults
  /\ \A s \in Sessions : link[s] = "cut" => sessions <= faults

UnwindInv == main = "stop" => sessions \in over

\* A sender starts after the connection of its session was made.
SenderInv ==
  \A s \in Sessions : /\ evt[s] # "none" => s <= sessions
                      /\ ehold[s] # 0 => evt[s] # "none"

\* A monitor is stopped after the context of its session was cancelled.
MonitorInv == \A s \in Sessions : mon[s] \in {"quit", "closed", "off"} => s \in over

Inv ==
  /\ ConnTyped /\ MainTyped /\ SenderTyped /\ MonitorTyped /\ PanicTyped
  /\ ConnInv /\ MainInv /\ CountInv /\ UnwindInv /\ SenderInv /\ MonitorInv
  /\ PanicsOnlyAtEnd

\* The invariant holds when main() starts.
LEMMA InitInv == Init => Inv
<1> SUFFICES ASSUME Init PROVE Inv
  OBVIOUS
<1> USE DEF Init, Sessions
<1>1. ConnTyped /\ ConnInv
  BY DEF ConnTyped, ConnInv
<1>2. MainTyped /\ MainInv
  <2>1. main \in Pcs /\ main \notin Using
    BY DEF Pcs, Using, Reads, Writes
  <2>2. MainTyped
    <3>1. clean \in BOOLEAN
      BY Zenon
    <3>2. 0 \in 0 .. MaxBurst /\ 0 \in 0 .. MaxFaults
      OBVIOUS
    <3> QED BY <2>1, <3>1, <3>2 DEF MainTyped
  <2>3. MainInv
    BY <2>1 DEF MainInv
  <2> QED BY <2>2, <2>3
<1>3. SenderTyped
  BY DEF SenderTyped
<1>4. MonitorTyped
  BY DEF MonitorTyped
<1>5. CountInv /\ UnwindInv /\ SenderInv /\ MonitorInv
  BY DEF CountInv, UnwindInv, SenderInv, MonitorInv, Cancelled
<1>6. PanicTyped /\ PanicsOnlyAtEnd
  BY DEF PanicTyped, PanicsOnlyAtEnd, NoPanic
<1> QED BY <1>1, <1>2, <1>3, <1>4, <1>5, <1>6 DEF Inv

-----------------------------------------------------------------------------
(* Which part of the state a step may change.                              *)

\* The goroutines of a session touch neither main() nor the connection.
LEMMA SessionKeeps ==
  ASSUME NEW s \in Sessions, EventNext(s) \/ MonitorNext(s)
  PROVE  UNCHANGED <<control, conn, sig, over, faults>>
<1>1. CASE EventNext(s)
  BY <1>1 DEF EventNext, EventTaken, EventsEnd, EventReadsConn, EventSent, EventError
<1>2. CASE MonitorNext(s)
  BY <1>2 DEF MonitorNext, LocalChange, TimerFires, FlushSends, ChannelCloses, TimersStop
<1> QED BY <1>1, <1>2

\* A connection is closed, made or lost, and nothing else happens to one.
LEMMA ConnSteps ==
  [Next]_vars => \/ UNCHANGED conn \/ Close \/ DialSucceeds
                 \/ \E s \in Sessions : Cut(s)
<1> SUFFICES ASSUME [Next]_vars, ~UNCHANGED conn
             PROVE  Close \/ DialSucceeds \/ \E s \in Sessions : Cut(s)
  OBVIOUS
<1>1. LoopTop \/ Return \/ Backoff => Close
  BY DEF LoopTop, Return, Backoff, Exit
<1>2. ConnectCloses \/ Drop \/ MonitorFails \/ LiveCheck \/ Lost \/ SignalCloses => Close
  BY DEF ConnectCloses, Drop, MonitorFails, LiveCheck, Lost, SignalCloses
<1>3. ~(DialBegins \/ DialFails \/ Retry \/ MainReadsConn \/ Transmits \/ MainError
        \/ Refused \/ ScanFails)
  BY DEF DialBegins, DialFails, Retry, MainReadsConn, Transmits, MainError, Refused, ScanFails
<1>4. ~(UploadDone \/ MonitorStarts \/ Unwind \/ StopMonitor \/ Signal \/ UNCHANGED vars)
  BY DEF UploadDone, MonitorStarts, Unwind, StopMonitor, Signal, vars
<1>5. \A s \in Sessions : ~(EventNext(s) \/ MonitorNext(s))
  BY SessionKeeps
<1> QED BY <1>1, <1>2, <1>3, <1>4, <1>5 DEF Next, MainNext

\* Only MonitorStarts and the goroutine itself change a sender.
LEMMA SenderSteps ==
  [Next]_vars => \/ UNCHANGED sender \/ MonitorStarts
                 \/ \E s \in Sessions : EventNext(s)
<1> SUFFICES ASSUME [Next]_vars, ~UNCHANGED sender
             PROVE  MonitorStarts \/ \E s \in Sessions : EventNext(s)
  OBVIOUS
<1>1. ~(LoopTop \/ Return \/ Backoff \/ ConnectCloses \/ DialBegins \/ DialSucceeds)
  BY DEF LoopTop, Return, Backoff, ConnectCloses, DialBegins, DialSucceeds
<1>2. ~(DialFails \/ Retry \/ MainReadsConn \/ Transmits \/ MainError \/ Drop \/ UploadDone)
  BY DEF DialFails, Retry, MainReadsConn, Transmits, MainError, Drop, UploadDone
<1>3. ~(Refused \/ ScanFails \/ MonitorFails \/ LiveCheck \/ Lost \/ Unwind \/ StopMonitor)
  BY DEF Refused, ScanFails, MonitorFails, LiveCheck, Lost, Unwind, StopMonitor
<1>4. ~(Signal \/ SignalCloses \/ UNCHANGED vars)
  BY DEF Signal, SignalCloses, vars
<1>5. \A s \in Sessions : ~(MonitorNext(s) \/ Cut(s))
  BY DEF MonitorNext, LocalChange, TimerFires, FlushSends, ChannelCloses, TimersStop, Cut
<1> QED BY <1>1, <1>2, <1>3, <1>4, <1>5 DEF Next, MainNext

\* Only MonitorStarts, StopMonitor, the sender and the monitor itself change a
\* monitor.
LEMMA MonitorSteps ==
  [Next]_vars => \/ UNCHANGED monitor \/ MonitorStarts \/ StopMonitor
                 \/ \E s \in Sessions : EventTaken(s) \/ MonitorNext(s)
<1> SUFFICES ASSUME [Next]_vars, ~UNCHANGED monitor
             PROVE  \/ MonitorStarts \/ StopMonitor
                    \/ \E s \in Sessions : EventTaken(s) \/ MonitorNext(s)
  OBVIOUS
<1>1. ~(LoopTop \/ Return \/ Backoff \/ ConnectCloses \/ DialBegins \/ DialSucceeds)
  BY DEF LoopTop, Return, Backoff, ConnectCloses, DialBegins, DialSucceeds
<1>2. ~(DialFails \/ Retry \/ MainReadsConn \/ Transmits \/ MainError \/ Drop \/ UploadDone)
  BY DEF DialFails, Retry, MainReadsConn, Transmits, MainError, Drop, UploadDone
<1>3. ~(Refused \/ ScanFails \/ MonitorFails \/ LiveCheck \/ Lost \/ Unwind)
  BY DEF Refused, ScanFails, MonitorFails, LiveCheck, Lost, Unwind
<1>4. ~(Signal \/ SignalCloses \/ UNCHANGED vars)
  BY DEF Signal, SignalCloses, vars
<1>5. \A s \in Sessions : ~(EventsEnd(s) \/ EventReadsConn(s) \/ EventSent(s)
                              \/ EventError(s) \/ Cut(s))
  BY DEF EventsEnd, EventReadsConn, EventSent, EventError, Cut
<1> QED BY <1>1, <1>2, <1>3, <1>4, <1>5 DEF Next, MainNext, EventNext

-----------------------------------------------------------------------------
(* Every step preserves each part of the invariant.                        *)

\* Every step keeps all connections but the latest closed.
LEMMA StepConn == Inv /\ [Next]_vars => ConnTyped' /\ ConnInv'
<1> SUFFICES ASSUME Inv, [Next]_vars PROVE ConnTyped' /\ ConnInv'
  OBVIOUS
<1> USE DEF Inv, ConnTyped, ConnInv, Sessions
<1>1. CASE UNCHANGED conn
  BY <1>1 DEF conn
<1>2. CASE Close
  BY <1>2 DEF Close
<1>3. CASE DialSucceeds
  <2>1. sessions + 1 \in Sessions /\ sessions \in Nat
    BY <1>3 DEF DialSucceeds, MainTyped, CountInv
  <2>2. \A s \in Sessions : link'[s] = IF s = sessions + 1 THEN "up" ELSE link[s]
    BY <1>3 DEF DialSucceeds
  <2>3. ptr = 0
    BY <1>3 DEF DialSucceeds, MainInv
  <2>4. ConnTyped'
    BY <1>3, <2>1 DEF DialSucceeds
  <2>5. ConnInv'
    BY <1>3, <2>1, <2>2, <2>3 DEF DialSucceeds
  <2> QED BY <2>4, <2>5
<1>4. ASSUME NEW s \in Sessions, Cut(s) PROVE ConnTyped' /\ ConnInv'
  BY SMTT(30), <1>4 DEF Cut
<1> QED BY <1>1, <1>2, <1>3, <1>4, ConnSteps

\* Every step keeps the types of the main goroutine.
LEMMA StepMainTyped == Inv /\ [Next]_vars => MainTyped'
<1> SUFFICES ASSUME Inv, [Next]_vars PROVE MainTyped'
  OBVIOUS
<1> USE DEF Inv, MainTyped, ConnTyped, MainInv, Pcs, Reads, Writes, Sessions, Cancelled,
         control, conn
<1>1. CASE LoopTop
  BY <1>1 DEF LoopTop, Exit, Close
<1>2. CASE Return
  BY <1>2 DEF Return, Exit, Close
<1>3. CASE Backoff
  BY <1>3 DEF Backoff, Exit, Close
<1>4. CASE ConnectCloses
  BY <1>4 DEF ConnectCloses, Close
<1>5. CASE DialBegins
  BY <1>5 DEF DialBegins
<1>6. CASE DialSucceeds
  <2>1. clean' \in BOOLEAN
    BY <1>6, Zenon DEF DialSucceeds
  <2> QED BY <1>6, <2>1 DEF DialSucceeds
<1>7. CASE DialFails
  BY <1>7 DEF DialFails
<1>8. CASE Retry
  BY <1>8 DEF Retry
<1>9. CASE MainReadsConn
  BY <1>9 DEF MainReadsConn
<1>10. CASE Transmits
  BY <1>10 DEF Transmits, Following
<1>11. CASE MainError
  BY <1>11 DEF MainError
<1>12. CASE Drop
  BY <1>12 DEF Drop, Close
<1>13. CASE UploadDone
  BY <1>13 DEF UploadDone
<1>14. CASE MonitorStarts
  BY <1>14 DEF MonitorStarts
<1>15. CASE MonitorFails
  BY <1>15 DEF MonitorFails, Close
<1>16. CASE LiveCheck
  BY ZenonT(30), <1>16 DEF LiveCheck, Close
<1>17. CASE Lost
  BY <1>17 DEF Lost, Close
<1>18. CASE Unwind
  BY <1>18 DEF Unwind
<1>19. CASE StopMonitor
  BY <1>19 DEF StopMonitor
<1>20. CASE Signal
  BY <1>20 DEF Signal
<1>21. CASE SignalCloses
  BY <1>21 DEF SignalCloses, Close
<1>22. ASSUME NEW s \in Sessions, Cut(s) PROVE MainTyped'
  BY <1>22 DEF Cut
<1>23. CASE UNCHANGED <<control, conn, sig, over, faults>>
  BY <1>23 DEF control, conn
<1>24. CASE Refused
  BY <1>24 DEF Refused
<1>25. CASE ScanFails
  BY <1>25 DEF ScanFails
<1>26. UNCHANGED vars => UNCHANGED <<control, conn, sig, over, faults>>
  BY SMTT(30) DEF vars
<1> QED
BY ZenonT(30), <1>1, <1>2, <1>3, <1>4, <1>5, <1>6, <1>7, <1>8, <1>9, <1>10, <1>11, <1>12, <1>13,
     <1>14, <1>15, <1>16, <1>17, <1>18, <1>19, <1>20, <1>21, <1>22, <1>23, <1>24, <1>25,
     <1>26, SessionKeeps
  DEF Next, MainNext

\* Every step keeps the connection of the main goroutine in place.
LEMMA StepMain == Inv /\ [Next]_vars => MainInv'
<1> SUFFICES ASSUME Inv, [Next]_vars PROVE MainInv'
  OBVIOUS
<1> USE DEF Inv, MainTyped, ConnTyped, ConnInv, MainInv, Using, Reads, Writes, Sessions,
         Cancelled, control, conn
<1>1. CASE LoopTop
  BY <1>1 DEF LoopTop, Exit, Close
<1>2. CASE Return
  BY <1>2 DEF Return, Exit, Close
<1>3. CASE Backoff
  BY <1>3 DEF Backoff, Exit, Close
<1>4. CASE ConnectCloses
  BY <1>4 DEF ConnectCloses, Close
<1>5. CASE DialBegins
  BY <1>5 DEF DialBegins
<1>6. CASE DialSucceeds
  BY <1>6 DEF DialSucceeds
<1>7. CASE DialFails
  BY <1>7 DEF DialFails
<1>8. CASE Retry
  BY <1>8 DEF Retry
<1>9. CASE MainReadsConn
  BY <1>9 DEF MainReadsConn
<1>10. CASE Transmits
  BY <1>10 DEF Transmits, Following
<1>11. CASE MainError
  BY <1>11 DEF MainError
<1>12. CASE Drop
  BY <1>12 DEF Drop, Close
<1>13. CASE UploadDone
  BY <1>13 DEF UploadDone
<1>14. CASE MonitorStarts
  BY <1>14 DEF MonitorStarts
<1>15. CASE MonitorFails
  BY <1>15 DEF MonitorFails, Close
<1>16. CASE LiveCheck
  BY <1>16 DEF LiveCheck, Close
<1>17. CASE Lost
  BY <1>17 DEF Lost, Close
<1>18. CASE Unwind
  BY <1>18 DEF Unwind
<1>19. CASE StopMonitor
  BY <1>19 DEF StopMonitor
<1>20. CASE Signal
  BY <1>20 DEF Signal
<1>21. CASE SignalCloses
  BY <1>21 DEF SignalCloses, Close
<1>22. ASSUME NEW s \in Sessions, Cut(s) PROVE MainInv'
  BY <1>22 DEF Cut
<1>23. CASE UNCHANGED <<control, conn, sig, over, faults>>
  BY <1>23 DEF control, conn
<1>24. CASE Refused
  BY <1>24 DEF Refused
<1>25. CASE ScanFails
  BY <1>25 DEF ScanFails
<1>26. UNCHANGED vars => UNCHANGED <<control, conn, sig, over, faults>>
  BY SMTT(30) DEF vars
<1> QED
BY ZenonT(30), <1>1, <1>2, <1>3, <1>4, <1>5, <1>6, <1>7, <1>8, <1>9, <1>10, <1>11, <1>12, <1>13,
     <1>14, <1>15, <1>16, <1>17, <1>18, <1>19, <1>20, <1>21, <1>22, <1>23, <1>24, <1>25,
     <1>26, SessionKeeps
  DEF Next, MainNext

\* Every step keeps the failures ahead of the sessions.
LEMMA StepCount == Inv /\ [Next]_vars => CountInv'
<1> SUFFICES ASSUME Inv, [Next]_vars PROVE CountInv'
  OBVIOUS
<1> USE DEF Inv, MainTyped, ConnTyped, ConnInv, MainInv, CountInv, Using, Reads, Writes,
         Sessions, Cancelled, control, conn
<1>1. CASE LoopTop
  BY <1>1 DEF LoopTop, Exit, Close
<1>2. CASE Return
  BY <1>2 DEF Return, Exit, Close
<1>3. CASE Backoff
  BY <1>3 DEF Backoff, Exit, Close
<1>4. CASE ConnectCloses
  BY <1>4 DEF ConnectCloses, Close
<1>5. CASE DialBegins
  BY <1>5 DEF DialBegins
<1>6. CASE DialSucceeds
  BY <1>6 DEF DialSucceeds
<1>7. CASE DialFails
  BY <1>7 DEF DialFails
<1>8. CASE Retry
  BY <1>8 DEF Retry
<1>9. CASE MainReadsConn
  BY SMTT(30), <1>9 DEF MainReadsConn
<1>10. CASE Transmits
  BY <1>10 DEF Transmits, Following
<1>11. CASE MainError
  BY <1>11 DEF MainError
<1>12. CASE Drop
  BY <1>12 DEF Drop, Close
<1>13. CASE UploadDone
  BY <1>13 DEF UploadDone
<1>14. CASE MonitorStarts
  BY <1>14 DEF MonitorStarts
<1>15. CASE MonitorFails
  BY <1>15 DEF MonitorFails, Close
<1>16. CASE LiveCheck
  BY <1>16 DEF LiveCheck, Close
<1>17. CASE Lost
  BY <1>17 DEF Lost, Close
<1>18. CASE Unwind
  BY <1>18 DEF Unwind
<1>19. CASE StopMonitor
  BY <1>19 DEF StopMonitor
<1>20. CASE Signal
  BY <1>20 DEF Signal
<1>21. CASE SignalCloses
  BY <1>21 DEF SignalCloses, Close
<1>22. ASSUME NEW s \in Sessions, Cut(s) PROVE CountInv'
  BY <1>22 DEF Cut
<1>23. CASE UNCHANGED <<control, conn, sig, over, faults>>
  BY <1>23 DEF control, conn
<1>24. CASE Refused
  BY <1>24 DEF Refused
<1>25. CASE ScanFails
  BY <1>25 DEF ScanFails
<1>26. UNCHANGED vars => UNCHANGED <<control, conn, sig, over, faults>>
  BY DEF vars
<1> QED
BY ZenonT(30), <1>1, <1>2, <1>3, <1>4, <1>5, <1>6, <1>7, <1>8, <1>9, <1>10, <1>11, <1>12, <1>13,
     <1>14, <1>15, <1>16, <1>17, <1>18, <1>19, <1>20, <1>21, <1>22, <1>23, <1>24, <1>25,
     <1>26, SessionKeeps
  DEF Next, MainNext

\* Every step keeps the types of the event goroutines.
LEMMA StepSender == Inv /\ [Next]_vars => SenderTyped'
<1> SUFFICES ASSUME Inv, [Next]_vars PROVE SenderTyped'
  OBVIOUS
<1> USE DEF Inv, SenderTyped
<1>1. CASE UNCHANGED sender
  BY <1>1 DEF sender
<1>2. CASE MonitorStarts
  BY ZenonT(30), <1>2 DEF MonitorStarts
<1>3. ASSUME NEW s \in Sessions, EventNext(s) PROVE SenderTyped'
  <2>1. CASE EventTaken(s)
    BY <2>1 DEF EventTaken
  <2>2. CASE EventsEnd(s)
    BY <2>2 DEF EventsEnd
  <2>3. CASE EventReadsConn(s)
    BY <2>3 DEF EventReadsConn, ConnTyped
  <2>4. CASE EventSent(s)
    BY <2>4 DEF EventSent
  <2>5. CASE EventError(s)
    BY <2>5 DEF EventError
  <2> QED BY <1>3, <2>1, <2>2, <2>3, <2>4, <2>5 DEF EventNext
<1> QED BY <1>1, <1>2, <1>3, SenderSteps

\* Every step keeps the types of the monitors.
LEMMA StepMonitor == Inv /\ [Next]_vars => MonitorTyped'
<1> SUFFICES ASSUME Inv, [Next]_vars PROVE MonitorTyped'
  OBVIOUS
<1> USE DEF Inv, MonitorTyped
<1>1. CASE UNCHANGED monitor
  BY <1>1 DEF monitor
<1>2. CASE MonitorStarts
  BY ZenonT(30), <1>2 DEF MonitorStarts
<1>3. CASE StopMonitor
  BY ZenonT(30), <1>3 DEF StopMonitor
<1>4. ASSUME NEW s \in Sessions, EventTaken(s) PROVE MonitorTyped'
  BY <1>4 DEF EventTaken
<1>5. ASSUME NEW s \in Sessions, MonitorNext(s) PROVE MonitorTyped'
  <2>1. CASE LocalChange(s)
    BY <2>1 DEF LocalChange
  <2>2. CASE TimerFires(s)
    BY <2>2 DEF TimerFires
  <2>3. CASE FlushSends(s)
    BY <2>3 DEF FlushSends
  <2>4. CASE ChannelCloses(s)
    BY <2>4 DEF ChannelCloses
  <2>5. CASE TimersStop(s)
    BY <2>5 DEF TimersStop
  <2> QED BY <1>5, <2>1, <2>2, <2>3, <2>4, <2>5 DEF MonitorNext
<1> QED BY <1>1, <1>2, <1>3, <1>4, <1>5, MonitorSteps

\* A session that has been connected stays so, and one that is over stays over.
LEMMA Monotone ==
  Inv /\ [Next]_vars => sessions \in Int /\ sessions <= sessions' /\ over \subseteq over'
<1> SUFFICES ASSUME Inv, [Next]_vars
             PROVE  sessions \in Int /\ sessions <= sessions' /\ over \subseteq over'
  OBVIOUS
<1>1. sessions \in Int
  BY DEF Inv, ConnTyped, Sessions
<1>2. sessions <= sessions'
  BY SMTT(30), <1>1, ConnSteps DEF conn, Close, DialSucceeds, Cut
<1>3. over \subseteq over'
  <2>1. ASSUME NEW s \in Sessions, Cut(s) PROVE over' = over
    BY SMTT(30), <2>1 DEF Cut
<2> QED BY ZenonT(30), <2>1, SessionKeeps DEF Next, MainNext, vars, LoopTop, Return, Backoff,
         ConnectCloses, DialBegins, DialSucceeds, DialFails, Retry, MainReadsConn,
         Transmits, MainError, Refused, ScanFails, Drop, UploadDone, MonitorStarts,
         MonitorFails, LiveCheck, Lost, Unwind, StopMonitor, Signal, SignalCloses
<1> QED BY <1>1, <1>2, <1>3

\* A session whose monitor is about to be stopped is over.
LEMMA StepUnwind == Inv /\ [Next]_vars => UnwindInv'
<1> SUFFICES ASSUME Inv, [Next]_vars PROVE UnwindInv'
  OBVIOUS
<1> USE DEF Inv, UnwindInv, Sessions, Cancelled, control, conn
<1>1. CASE LoopTop
  BY <1>1 DEF LoopTop, Exit, Close
<1>2. CASE Return
  BY <1>2 DEF Return, Exit, Close
<1>3. CASE Backoff
  BY <1>3 DEF Backoff, Exit, Close
<1>4. CASE ConnectCloses
  BY <1>4 DEF ConnectCloses, Close
<1>5. CASE DialBegins
  BY <1>5 DEF DialBegins
<1>6. CASE DialSucceeds
  BY <1>6 DEF DialSucceeds
<1>7. CASE DialFails
  BY <1>7 DEF DialFails
<1>8. CASE Retry
  BY <1>8 DEF Retry
<1>9. CASE MainReadsConn
  BY SMTT(30), <1>9 DEF MainReadsConn
<1>10. CASE Transmits
  BY <1>10 DEF Transmits, Following
<1>11. CASE MainError
  BY <1>11 DEF MainError
<1>12. CASE Drop
  BY <1>12 DEF Drop, Close
<1>13. CASE UploadDone
  BY <1>13 DEF UploadDone
<1>14. CASE MonitorStarts
  BY <1>14 DEF MonitorStarts
<1>15. CASE MonitorFails
  BY <1>15 DEF MonitorFails, Close
<1>16. CASE LiveCheck
  BY <1>16 DEF LiveCheck, Close
<1>17. CASE Lost
  BY <1>17 DEF Lost, Close
<1>18. CASE Unwind
  BY <1>18 DEF Unwind
<1>19. CASE StopMonitor
  BY <1>19 DEF StopMonitor
<1>20. CASE Signal
  BY <1>20 DEF Signal
<1>21. CASE SignalCloses
  BY <1>21 DEF SignalCloses, Close
<1>22. ASSUME NEW s \in Sessions, Cut(s) PROVE UnwindInv'
  BY <1>22 DEF Cut
<1>23. CASE UNCHANGED <<control, conn, sig, over, faults>>
  BY <1>23 DEF control, conn
<1>24. CASE Refused
  BY <1>24 DEF Refused
<1>25. CASE ScanFails
  BY <1>25 DEF ScanFails
<1>26. UNCHANGED vars => UNCHANGED <<control, conn, sig, over, faults>>
  BY DEF vars
<1> QED
BY <1>1, <1>2, <1>3, <1>4, <1>5, <1>6, <1>7, <1>8, <1>9, <1>10, <1>11, <1>12, <1>13,
     <1>14, <1>15, <1>16, <1>17, <1>18, <1>19, <1>20, <1>21, <1>22, <1>23, <1>24, <1>25,
     <1>26, SessionKeeps
  DEF Next, MainNext

\* Event goroutines belong to connections that were made.
LEMMA StepSenderInv == Inv /\ [Next]_vars => SenderInv'
<1> SUFFICES ASSUME Inv, [Next]_vars PROVE SenderInv'
  OBVIOUS
<1> USE DEF Inv, SenderTyped, SenderInv
<1>1. sessions \in Int /\ sessions' \in Int /\ sessions <= sessions'
  BY Monotone, StepConn DEF ConnTyped, Sessions
<1>2. Sessions \subseteq Int
  BY DEF Sessions
<1>3. CASE UNCHANGED sender
  BY <1>1, <1>2, <1>3 DEF sender
<1>4. CASE MonitorStarts
  BY <1>1, <1>2, <1>4 DEF MonitorStarts
<1>5. ASSUME NEW s \in Sessions, EventNext(s) PROVE SenderInv'
  <2>1. CASE EventTaken(s)
    BY <1>1, <1>2, <2>1 DEF EventTaken
  <2>2. CASE EventsEnd(s)
    BY <1>1, <1>2, <2>2 DEF EventsEnd
  <2>3. CASE EventReadsConn(s)
    BY <1>1, <1>2, <2>3 DEF EventReadsConn
  <2>4. CASE EventSent(s)
    BY <1>1, <1>2, <2>4 DEF EventSent
  <2>5. CASE EventError(s)
    BY <1>1, <1>2, <2>5 DEF EventError
  <2> QED BY <1>5, <2>1, <2>2, <2>3, <2>4, <2>5 DEF EventNext
<1> QED BY <1>3, <1>4, <1>5, SenderSteps

\* A monitor is stopped only after its session is over.
LEMMA StepMonitorInv == Inv /\ [Next]_vars => MonitorInv'
<1> SUFFICES ASSUME Inv, [Next]_vars PROVE MonitorInv'
  OBVIOUS
<1> USE DEF Inv, MonitorTyped, MonitorInv
<1>1. over \subseteq over'
  BY Monotone
<1>2. CASE UNCHANGED monitor
  BY <1>1, <1>2 DEF monitor
<1>3. CASE MonitorStarts
  BY <1>1, <1>3 DEF MonitorStarts
<1>4. CASE StopMonitor
  BY <1>1, <1>4 DEF StopMonitor, UnwindInv
<1>5. ASSUME NEW s \in Sessions, EventTaken(s) PROVE MonitorInv'
  BY <1>1, <1>5 DEF EventTaken
<1>6. ASSUME NEW s \in Sessions, MonitorNext(s) PROVE MonitorInv'
  <2>1. \A t \in Sessions : mon'[t] \in {"quit", "closed", "off"}
                             => mon[t] \in {"quit", "closed", "off"}
    BY <1>6 DEF MonitorNext, LocalChange, TimerFires, FlushSends, ChannelCloses, TimersStop
  <2> QED BY SMTT(30), <1>1, <2>1
<1> QED BY <1>2, <1>3, <1>4, <1>5, <1>6, MonitorSteps

\* No step follows a panic; a step either panics at one of three places or
\* leaves no panic.
LEMMA StepPanic == Inv /\ [Next]_vars => PanicTyped' /\ PanicsOnlyAtEnd'
<1> SUFFICES ASSUME Inv, [Next]_vars PROVE PanicTyped' /\ PanicsOnlyAtEnd'
  OBVIOUS
<1>1. CASE UNCHANGED vars
  BY ZenonT(30), <1>1 DEF Inv, vars, conn, PanicTyped, PanicsOnlyAtEnd, Cancelled
<1>2. CASE panicked' = NoPanic
  BY <1>2 DEF PanicTyped, PanicsOnlyAtEnd, NoPanic
<1>3. CASE MainReadsConn /\ panicked' # NoPanic
  <2>1. panicked' = <<"main", sessions>> /\ ptr = 0 /\ main \in Using
    BY <1>3 DEF MainReadsConn, Up, Using
  <2>2. Cancelled
    BY <2>1 DEF Inv, MainInv, ConnTyped, Sessions
  <2>3. Cancelled' /\ sessions \in {0} \cup Sessions
    BY <1>3, <2>2 DEF MainReadsConn, Cancelled, Inv, ConnTyped
  <2> QED BY <2>1, <2>3 DEF PanicTyped, PanicsOnlyAtEnd
<1>4. ASSUME NEW s \in Sessions, EventReadsConn(s), panicked' # NoPanic
      PROVE  PanicTyped' /\ PanicsOnlyAtEnd'
  <2>1. panicked' = <<"event", s>> /\ ptr = 0 /\ evt[s] # "none"
    BY <1>4 DEF EventReadsConn, Up
  <2>2. s <= sessions
    BY <2>1 DEF Inv, SenderInv
  <2>3. link[s] \notin {"none", "up", "cut"}
    BY <2>1, <2>2 DEF Inv, ConnInv, ConnTyped, Sessions
  <2>4. link'[s] = "closed"
    BY <1>4, <2>3 DEF Inv, ConnTyped, EventReadsConn, conn
  <2> QED BY <2>1, <2>4 DEF PanicTyped, PanicsOnlyAtEnd
<1>5. ASSUME NEW s \in Sessions, FlushSends(s), panicked' # NoPanic
      PROVE  PanicTyped' /\ PanicsOnlyAtEnd'
  <2>1. panicked' = <<"flush", s>> /\ mon[s] \in {"closed", "off"} /\ over' = over
    BY <1>5 DEF FlushSends, Up
  <2>2. s \in over'
    BY SMTT(30), <2>1 DEF Inv, MonitorInv
  <2> QED BY <2>1, <2>2 DEF PanicTyped, PanicsOnlyAtEnd
<1>6. ASSUME NEW s \in Sessions, EventNext(s) \/ MonitorNext(s) \/ Cut(s),
             ~EventReadsConn(s), ~FlushSends(s)
      PROVE  panicked' = NoPanic
  BY ZenonT(30), <1>6 DEF EventNext, EventTaken, EventsEnd, EventSent, EventError, MonitorNext,
              LocalChange, TimerFires, ChannelCloses, TimersStop, Cut, Up
<1>7. ASSUME MainNext \/ Signal \/ SignalCloses, ~MainReadsConn PROVE panicked' = NoPanic
  <2>1. LoopTop \/ Return \/ Backoff \/ ConnectCloses \/ DialBegins \/ DialSucceeds
          => panicked' = NoPanic
    BY SMTT(30) DEF LoopTop, Return, Backoff, ConnectCloses, DialBegins, DialSucceeds, Up
  <2>2. DialFails \/ Retry \/ Transmits \/ MainError \/ Refused \/ ScanFails \/ Drop \/ UploadDone
          => panicked' = NoPanic
    BY SMTT(30) DEF DialFails, Retry, Transmits, MainError, Refused, ScanFails, Drop, UploadDone, Up
  <2>3. MonitorStarts \/ MonitorFails \/ LiveCheck \/ Lost \/ Unwind \/ StopMonitor
          => panicked' = NoPanic
    BY DEF MonitorStarts, MonitorFails, LiveCheck, Lost, Unwind, StopMonitor, Up
  <2>4. Signal \/ SignalCloses => panicked' = NoPanic
    BY DEF Signal, SignalCloses, Up
  <2> QED BY <1>7, <2>1, <2>2, <2>3, <2>4 DEF MainNext
<1> QED
  BY <1>1, <1>2, <1>3, <1>4, <1>5, <1>6, <1>7 DEF Next

-----------------------------------------------------------------------------
\* The inductive invariant holds always.
LEMMA Invariance == Spec => []Inv
<1>1. Inv /\ [Next]_vars => Inv'
  BY StepConn, StepMainTyped, StepMain, StepCount, StepSender, StepMonitor, StepUnwind,
     StepSenderInv, StepMonitorInv, StepPanic DEF Inv
<1> QED BY InitInv, <1>1, PTL DEF Spec

\* The goroutines of a client, their timers and the shared connection keep
\* their types; in particular the failures bound the number of sessions.
THEOREM TypeCorrect == Spec => []TypeOK
<1>1. Inv => TypeOK
  BY TypeSplit DEF Inv
<1> QED BY Invariance, <1>1, PTL

\* However sessions fail and wherever a signal arrives, at most the connection
\* Client.conn points to is open, and none once main() has returned.
THEOREM ConnectionsClosed == Spec => []NoLeak
<1>1. Inv => NoLeak
  BY DEF Inv, ConnInv, MainInv, NoLeak
<1> QED BY Invariance, <1>1, PTL

\* A nil connection is met by main() only after a signal, by a sender only
\* after its own connection was closed, and a closed channel only by a flush of
\* a session that is over, for any number of sessions and local changes.
THEOREM SessionsDoNotPanic == Spec => []PanicsOnlyAtEnd
<1>1. Inv => PanicsOnlyAtEnd
  BY DEF Inv
<1> QED BY Invariance, <1>1, PTL

=============================================================================
