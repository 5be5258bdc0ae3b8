--------------------------- MODULE Session_proofs ---------------------------
(***************************************************************************)
(* Theorems about Session for every MaxSeq, MaxCommands, QueueCapacity and *)
(* Undecodable.                                                            *)
(***************************************************************************)
EXTENDS Session, TLAPS

USE SessionAssumption DEF SessionAssumption

-----------------------------------------------------------------------------
(* Type correctness.                                                       *)

(* The initial state is typed.                                             *)
LEMMA TypeInit == Init => TypeOK
<1> SUFFICES ASSUME Init PROVE TypeOK
  OBVIOUS
<1>1. /\ sessionId \in BOOLEAN /\ finished \in BOOLEAN /\ shutdownSeen \in BOOLEAN
      /\ cmdClosed \in BOOLEAN /\ clone \in BOOLEAN /\ stale \in BOOLEAN
      /\ misresumed \in BOOLEAN
  BY DEF Init
<1>2. FlagsOK
  BY <1>1 DEF Init, FlagsOK, Places, Callbacks, Handshake
<1>3. CountersOK
  BY DEF Init, CountersOK
<1>4. QED
  BY <1>2, <1>3 DEF TypeOK

(* Every action keeps flags and places in their types.                     *)
LEMMA FlagsStep == FlagsOK /\ [Next]_vars => FlagsOK'
<1> SUFFICES ASSUME FlagsOK, [Next]_vars PROVE FlagsOK'
  OBVIOUS
<1> USE DEF FlagsOK, Places, Handshake, Callbacks, sessionVars, attemptVars, pumpVars, chanVars, appVars,
            serverVars, resumeHist, sendHist
<1>1. CASE CheckStop  BY <1>1 DEF CheckStop, StopDriver
<1>2. CASE CheckConnect  BY <1>2 DEF CheckConnect, ResumePoint
<1>3. CASE Closing  BY <1>3 DEF Closing, Advance
<1>4. CASE FailedStop  BY <1>4 DEF FailedStop, StopDriver
<1>5. CASE FailedRetry  BY <1>5 DEF FailedRetry, Advance
<1>6. CASE Sleep  BY <1>6 DEF Sleep, Advance
<1>7. CASE Dial  BY <1>7 DEF Dial, Advance
<1>8. CASE Hello  BY <1>8 DEF Hello, Advance
<1>9. CASE Greet  BY <1>9 DEF Greet
<1>10. CASE FirstReady
  <2>1. finished' \in BOOLEAN /\ shutdownSeen' \in BOOLEAN /\ sessionId' \in BOOLEAN
    BY <1>10 DEF FirstReady, FreshPump
  <2>2. stale' \in BOOLEAN /\ misresumed' \in BOOLEAN
    BY <1>10 DEF FirstReady
  <2>3. /\ pc' = "online" /\ appView' = "online" /\ reader' = "next" /\ writer' = "select"
        /\ init' \in {init, "sent"}
        /\ UNCHANGED <<err, isNew, shutdown, cmdClosed, discord, holder, clone>>
    BY <1>10 DEF FirstReady, FreshPump, InitAtReady
  <2>4. QED
    BY <2>1, <2>2, <2>3
<1>11. CASE FirstInvalid
  <2>1. sessionId' \in BOOLEAN
    BY <1>11 DEF FirstInvalid, SessionAfterInvalid
  <2>2. QED
    BY <1>11, <2>1 DEF FirstInvalid, SessionAfterInvalid
<1>12. CASE FirstMissed
  <2>1. finished' \in BOOLEAN /\ shutdownSeen' \in BOOLEAN
    BY <1>12 DEF FirstMissed, FreshPump
  <2>2. QED
    BY <1>12, <2>1 DEF FirstMissed, FreshPump, ReplayFrom, SequenceAtFirst
<1>13. CASE FirstResumed
  <2>1. finished' \in BOOLEAN /\ shutdownSeen' \in BOOLEAN
    BY <1>13 DEF FirstResumed, FreshPump
  <2>2. QED
    BY <1>13, <2>1 DEF FirstResumed, FreshPump, ReplayFrom
<1>14. CASE HandshakeFails  BY <1>14 DEF HandshakeFails
<1>15. CASE OnlineDone  BY <1>15 DEF OnlineDone
<1>16. CASE FirstEventDone  BY <1>16 DEF FirstEventDone, Advance
<1>17. CASE ReportDone  BY <1>17 DEF ReportDone
<1>18. CASE CallbackFails  BY <1>18 DEF CallbackFails
<1>19. CASE ReadDispatch
  <2>1. stale' \in BOOLEAN
    BY <1>19 DEF ReadDispatch
  <2>2. QED
    BY <1>19, <2>1 DEF ReadDispatch, Reading, StoredSequence
<1>20. CASE ReadUndecodable  BY <1>20 DEF ReadUndecodable, Reading
<1>21. CASE ReadUnnumbered  BY <1>21 DEF ReadUnnumbered, Reading
<1>22. CASE ReadBroken  BY <1>22 DEF ReadBroken, Reading
<1>23. CASE ReaderEnds  BY <1>23 DEF ReaderEnds, EndRun, AfterRun
<1>24. CASE EventHandled  BY <1>24 DEF EventHandled
<1>25. CASE EventRefused  BY <1>25 DEF EventRefused, EndRun, AfterRun
<1>26. CASE Tick  BY <1>26 DEF Tick, Selecting
<1>27. CASE TakeCommand  BY <1>27 DEF TakeCommand, Selecting, Popped
<1>28. CASE CommandsGone  BY <1>28 DEF CommandsGone, EndRun, AfterRun, Selecting
<1>29. CASE SeeShutdown  BY <1>29 DEF SeeShutdown, Selecting
<1>30. CASE SendDone  BY <1>30 DEF SendDone
<1>31. CASE SendFails  BY <1>31 DEF SendFails, EndRun, AfterRun
<1>32. CASE BuildOk  BY <1>32 DEF BuildOk, driverVars
<1>33. CASE BuildDropped  BY <1>33 DEF BuildDropped, SenderGone, driverVars
<1>34. CASE TakeShutdown  BY <1>34 DEF TakeShutdown, driverVars
<1>35. CASE SendShutdown  BY <1>35 DEF SendShutdown, driverVars
<1>36. CASE DropShutdown  BY <1>36 DEF DropShutdown, driverVars
<1>37. CASE DropDiscord  BY <1>37 DEF DropDiscord, SenderGone, driverVars
<1>38. CASE CloneClient  BY <1>38 DEF CloneClient, driverVars
<1>39. CASE DropClones
  <2>1. clone' \in BOOLEAN
    BY <1>39 DEF DropClones
  <2>2. QED
    BY <1>39, <2>1 DEF DropClones, driverVars
<1>40. CASE TrySend  BY <1>40 DEF TrySend, HasRoom, driverVars
<1>41. CASE Dispatch  BY <1>41 DEF Dispatch, driverVars
<1>42. CASE UNCHANGED vars  BY <1>42 DEF vars
<1>43. QED
  BY <1>1, <1>2, <1>3, <1>4, <1>5, <1>6, <1>7, <1>8, <1>9, <1>10, <1>11, <1>12,
     <1>13, <1>14, <1>15, <1>16, <1>17, <1>18, <1>19, <1>20, <1>21, <1>22, <1>23, <1>24,
     <1>25, <1>26, <1>27, <1>28, <1>29, <1>30, <1>31, <1>32, <1>33, <1>34, <1>35, <1>36,
     <1>37, <1>38, <1>39, <1>40, <1>41, <1>42
     DEF Next, Looping, Connecting, FirstEvent, Reporting, Read, Handling, Write, App,
         Terminated

(* Every action keeps the counters within their bounds.                    *)
LEMMA CountersStep == CountersOK /\ [Next]_vars => CountersOK'
<1> SUFFICES ASSUME CountersOK, [Next]_vars PROVE CountersOK'
  OBVIOUS
<1> USE DEF CountersOK, sessionVars, attemptVars, pumpVars, chanVars, appVars,
            serverVars, resumeHist, sendHist
<1>1. CASE CheckStop  BY <1>1 DEF CheckStop, StopDriver
<1>2. CASE CheckConnect  BY <1>2 DEF CheckConnect, ResumePoint
<1>3. CASE Closing  BY <1>3 DEF Closing, Advance
<1>4. CASE FailedStop  BY <1>4 DEF FailedStop, StopDriver
<1>5. CASE FailedRetry  BY <1>5 DEF FailedRetry, Advance
<1>6. CASE Sleep  BY <1>6 DEF Sleep, Advance
<1>7. CASE Dial  BY <1>7 DEF Dial, Advance
<1>8. CASE Hello  BY <1>8 DEF Hello, Advance
<1>9. CASE Greet  BY <1>9 DEF Greet
<1>10. CASE FirstReady  BY <1>10 DEF FirstReady, FreshPump, SequenceAtReady, InitAtReady
<1>11. CASE FirstInvalid  BY <1>11 DEF FirstInvalid, SessionAfterInvalid
<1>12. CASE FirstMissed  BY <1>12 DEF FirstMissed, FreshPump, ReplayFrom, SequenceAtFirst
<1>13. CASE FirstResumed  BY <1>13 DEF FirstResumed, FreshPump, ReplayFrom
<1>14. CASE HandshakeFails  BY <1>14 DEF HandshakeFails
<1>15. CASE OnlineDone  BY <1>15 DEF OnlineDone
<1>16. CASE FirstEventDone  BY <1>16 DEF FirstEventDone, Advance
<1>17. CASE ReportDone  BY <1>17 DEF ReportDone
<1>18. CASE CallbackFails  BY <1>18 DEF CallbackFails
<1>19. CASE ReadDispatch  BY <1>19 DEF ReadDispatch, Reading, StoredSequence
<1>20. CASE ReadUndecodable  BY <1>20 DEF ReadUndecodable, Reading
<1>21. CASE ReadUnnumbered  BY <1>21 DEF ReadUnnumbered, Reading
<1>22. CASE ReadBroken  BY <1>22 DEF ReadBroken, Reading
<1>23. CASE ReaderEnds  BY <1>23 DEF ReaderEnds, EndRun, AfterRun
<1>24. CASE EventHandled  BY <1>24 DEF EventHandled
<1>25. CASE EventRefused  BY <1>25 DEF EventRefused, EndRun, AfterRun
<1>26. CASE Tick  BY <1>26 DEF Tick, Selecting
<1>27. CASE TakeCommand  BY <1>27 DEF TakeCommand, Selecting, Popped
<1>28. CASE CommandsGone  BY <1>28 DEF CommandsGone, EndRun, AfterRun, Selecting
<1>29. CASE SeeShutdown  BY <1>29 DEF SeeShutdown, Selecting
<1>30. CASE SendDone  BY <1>30 DEF SendDone
<1>31. CASE SendFails  BY <1>31 DEF SendFails, EndRun, AfterRun
<1>32. CASE BuildOk  BY <1>32 DEF BuildOk, driverVars
<1>33. CASE BuildDropped  BY <1>33 DEF BuildDropped, SenderGone, driverVars
<1>34. CASE TakeShutdown  BY <1>34 DEF TakeShutdown, driverVars
<1>35. CASE SendShutdown  BY <1>35 DEF SendShutdown, driverVars
<1>36. CASE DropShutdown  BY <1>36 DEF DropShutdown, driverVars
<1>37. CASE DropDiscord  BY <1>37 DEF DropDiscord, SenderGone, driverVars
<1>38. CASE CloneClient  BY <1>38 DEF CloneClient, driverVars
<1>39. CASE DropClones  BY <1>39 DEF DropClones, driverVars
<1>40. CASE TrySend  BY <1>40 DEF TrySend, HasRoom, driverVars
<1>41. CASE Dispatch  BY <1>41 DEF Dispatch, driverVars
<1>42. CASE UNCHANGED vars  BY <1>42 DEF vars
<1>43. QED
  BY <1>1, <1>2, <1>3, <1>4, <1>5, <1>6, <1>7, <1>8, <1>9, <1>10, <1>11, <1>12,
     <1>13, <1>14, <1>15, <1>16, <1>17, <1>18, <1>19, <1>20, <1>21, <1>22, <1>23, <1>24,
     <1>25, <1>26, <1>27, <1>28, <1>29, <1>30, <1>31, <1>32, <1>33, <1>34, <1>35, <1>36,
     <1>37, <1>38, <1>39, <1>40, <1>41, <1>42
     DEF Next, Looping, Connecting, FirstEvent, Reporting, Read, Handling, Write, App,
         Terminated

(* Session's variables keep their types: in particular the sequence the    *)
(* driver stores never leaves the range the server numbers, the command    *)
(* queue never exceeds its capacity, and the writer never pops more than   *)
(* was accepted.                                                           *)
THEOREM TypeCorrect == Spec => []TypeOK
<1>1. TypeOK /\ [Next]_vars => TypeOK'
  BY FlagsStep, CountersStep DEF TypeOK
<1>2. QED
  BY TypeInit, <1>1, PTL DEF Spec

-----------------------------------------------------------------------------
(* The inductive invariant behind the resume and build() theorems.         *)

(* A handshake under way carries the session state it was started with,    *)
(* and a resume from a stale sequence is on record once it is sent.        *)
Captured ==
    /\ pc \in Handshake => isNew = ~sessionId
    /\ (pc \in Handshake /\ ~isNew) => resumeSeq = sequence
    /\ (pc = "first" /\ ~isNew /\ stale) => misresumed

(* What arrived on the connection was handed out, the handshake's event    *)
(* being on its way while Online is reported.                              *)
Covered ==
    /\ (pc = "online" /\ ~misresumed) =>
          \A n \in 2..pos : n \in handed \/ n \in Undecodable \/ n = first
    /\ (pc \in {"event", "run"} /\ ~misresumed) => Seen(pos)

(* The last number the server may still repeat on a resume.                *)
Replayable == IF sequence = 0 THEN 2 ELSE sequence + 1

(* What was handed out is at most one ahead of the stored sequence, known  *)
(* to the server, and never ahead of the connection being read.            *)
Bounded ==
    /\ \A n \in handed : n <= Replayable
    /\ sessionId => \A n \in handed : n <= srvSeq
    /\ pc = "online" => first <= pos /\ first <= Replayable
    /\ pc \in {"online", "event", "run"} => sessionId /\ \A n \in handed : n <= pos
    /\ (pc \in Handshake /\ isNew) => first = 0

(* build() is still waiting: nothing can have asked for a stop, and until  *)
(* a first session exists no callback was called.                          *)
Waiting ==
    /\ discord = "building" => shutdown = "open" /\ holder = "discord" /\ ~clone
    /\ init = "pending" =>
          /\ ~sessionId /\ err # "shutdown"
          /\ pc \in {"check", "failed", "sleep"} \cup Handshake
    /\ BuildNeverRefused

IInv == TypeOK /\ Captured /\ Covered /\ Bounded /\ Waiting /\ NoGap

(* The command ledger holds because nothing is in the writer's hands       *)
(* outside a running connection.                                           *)
Ledger == CommandsAccounted /\ (pc # "run" => writer = "select")

(* The application's actions and the server's touch none of the driver's   *)
(* variables.                                                              *)
LEMMA AppFrame == App => UNCHANGED <<driverVars, serverVars>>
BY DEF App, BuildOk, BuildDropped, TakeShutdown, SendShutdown, DropShutdown,
       DropDiscord, CloneClient, DropClones, TrySend

(* The server numbering an event touches nothing of ours.                  *)
LEMMA DispatchFrame == Dispatch => UNCHANGED <<driverVars, shutdown, accepted, appVars, pos>>
BY DEF Dispatch

(* Every action keeps Captured.                                            *)
LEMMA CapturedStep == IInv /\ [Next]_vars => Captured'
<1> SUFFICES ASSUME IInv, [Next]_vars PROVE Captured'
  OBVIOUS
<1> USE DEF IInv, Captured, TypeOK, FlagsOK, Handshake, Callbacks, sessionVars, attemptVars, pumpVars, chanVars, appVars,
            serverVars, resumeHist, sendHist
<1>1. CASE CheckStop  BY <1>1 DEF CheckStop, StopDriver, Observed
<1>2. CASE CheckConnect  BY <1>2 DEF CheckConnect, ResumePoint, Observed
<1>3. CASE Closing  BY <1>3 DEF Closing, Advance
<1>4. CASE FailedStop  BY <1>4 DEF FailedStop, StopDriver, Observed
<1>5. CASE FailedRetry  BY <1>5 DEF FailedRetry, Advance
<1>6. CASE Sleep  BY <1>6 DEF Sleep, Advance
<1>7. CASE Dial  BY <1>7 DEF Dial, Advance
<1>8. CASE Hello  BY <1>8 DEF Hello, Advance
<1>9. CASE Greet  BY <1>9 DEF Greet
<1>10. CASE FirstReady  BY <1>10 DEF FirstReady, FreshPump, SequenceAtReady, InitAtReady
<1>11. CASE FirstInvalid  BY <1>11 DEF FirstInvalid, SessionAfterInvalid
<1>12. CASE FirstMissed  BY <1>12 DEF FirstMissed, FreshPump, ReplayFrom, SequenceAtFirst
<1>13. CASE FirstResumed  BY <1>13 DEF FirstResumed, FreshPump, ReplayFrom
<1>14. CASE HandshakeFails  BY <1>14 DEF HandshakeFails
<1>15. CASE OnlineDone  BY <1>15 DEF OnlineDone
<1>16. CASE FirstEventDone  BY <1>16 DEF FirstEventDone, Advance
<1>17. CASE ReportDone  BY <1>17 DEF ReportDone
<1>18. CASE CallbackFails  BY <1>18 DEF CallbackFails
<1>19. CASE ReadDispatch  BY <1>19 DEF ReadDispatch, Reading, StoredSequence
<1>20. CASE ReadUndecodable  BY <1>20 DEF ReadUndecodable, Reading
<1>21. CASE ReadUnnumbered  BY <1>21 DEF ReadUnnumbered, Reading
<1>22. CASE ReadBroken  BY <1>22 DEF ReadBroken, Reading
<1>23. CASE ReaderEnds  BY <1>23 DEF ReaderEnds, EndRun, AfterRun
<1>24. CASE EventHandled  BY <1>24 DEF EventHandled
<1>25. CASE EventRefused  BY <1>25 DEF EventRefused, EndRun, AfterRun
<1>26. CASE Tick  BY <1>26 DEF Tick, Selecting
<1>27. CASE TakeCommand  BY <1>27 DEF TakeCommand, Selecting, Popped
<1>28. CASE CommandsGone  BY <1>28 DEF CommandsGone, EndRun, AfterRun, Selecting
<1>29. CASE SeeShutdown  BY <1>29 DEF SeeShutdown, Selecting
<1>30. CASE SendDone  BY <1>30 DEF SendDone
<1>31. CASE SendFails  BY <1>31 DEF SendFails, EndRun, AfterRun
<1>32. CASE Dispatch  BY <1>32 DEF Dispatch, driverVars
<1>33. CASE App  BY <1>33, AppFrame DEF driverVars
<1>34. CASE UNCHANGED vars  BY <1>34 DEF vars
<1>35. QED
  BY <1>1, <1>2, <1>3, <1>4, <1>5, <1>6, <1>7, <1>8, <1>9, <1>10, <1>11, <1>12,
     <1>13, <1>14, <1>15, <1>16, <1>17, <1>18, <1>19, <1>20, <1>21, <1>22, <1>23, <1>24,
     <1>25, <1>26, <1>27, <1>28, <1>29, <1>30, <1>31, <1>32, <1>33, <1>34
     DEF Next, Looping, Connecting, FirstEvent, Reporting, Read, Handling, Write,
         Terminated

(* Every action keeps Covered.                                             *)
LEMMA CoveredStep == IInv /\ [Next]_vars => Covered'
<1> SUFFICES ASSUME IInv, [Next]_vars PROVE Covered'
  OBVIOUS
<1> USE DEF IInv, Captured, Covered, NoGap, Seen, TypeOK, CountersOK, Handshake, Callbacks, sessionVars, attemptVars, pumpVars, chanVars, appVars,
            serverVars, resumeHist, sendHist
<1>1. CASE CheckStop  BY <1>1 DEF CheckStop, StopDriver, Observed
<1>2. CASE CheckConnect  BY <1>2 DEF CheckConnect, ResumePoint, Observed
<1>3. CASE Closing  BY <1>3 DEF Closing, Advance
<1>4. CASE FailedStop  BY <1>4 DEF FailedStop, StopDriver, Observed
<1>5. CASE FailedRetry  BY <1>5 DEF FailedRetry, Advance
<1>6. CASE Sleep  BY <1>6 DEF Sleep, Advance
<1>7. CASE Dial  BY <1>7 DEF Dial, Advance
<1>8. CASE Hello  BY <1>8 DEF Hello, Advance
<1>9. CASE Greet  BY <1>9 DEF Greet
<1>10. CASE FirstReady  BY <1>10 DEF FirstReady, FreshPump, SequenceAtReady, InitAtReady
<1>11. CASE FirstInvalid  BY <1>11 DEF FirstInvalid, SessionAfterInvalid
<1>12. CASE FirstMissed
  <2>1. ~isNew /\ sessionId /\ resumeSeq = sequence /\ (stale => misresumed)
    BY <1>12 DEF FirstMissed
  <2>2. pc' = "online" /\ pos' = ReplayFrom + 1 /\ first' = ReplayFrom + 1
        /\ UNCHANGED <<handed, misresumed>>
    BY <1>12 DEF FirstMissed
  <2>3. ASSUME ~misresumed, NEW n \in 2..pos'
        PROVE  n \in handed \/ n \in Undecodable \/ n = first'
    BY <2>1, <2>2, <2>3 DEF ReplayFrom
  <2>4. QED
    BY <2>2, <2>3
<1>13. CASE FirstResumed
  <2>1. ~isNew /\ sessionId /\ resumeSeq = sequence /\ (stale => misresumed)
    BY <1>13 DEF FirstResumed
  <2>2. pc' = "online" /\ pos' = ReplayFrom /\ UNCHANGED <<handed, misresumed>>
    BY <1>13 DEF FirstResumed
  <2>3. ASSUME ~misresumed, NEW n \in 2..pos'
        PROVE  n \in handed \/ n \in Undecodable
    BY <2>1, <2>2, <2>3 DEF ReplayFrom
  <2>4. QED
    BY <2>2, <2>3
<1>14. CASE HandshakeFails  BY <1>14 DEF HandshakeFails
<1>15. CASE OnlineDone  BY <1>15 DEF OnlineDone
<1>16. CASE FirstEventDone  BY <1>16 DEF FirstEventDone, Advance
<1>17. CASE ReportDone  BY <1>17 DEF ReportDone
<1>18. CASE CallbackFails  BY <1>18 DEF CallbackFails
<1>19. CASE ReadDispatch  BY <1>19 DEF ReadDispatch, Reading, StoredSequence
<1>20. CASE ReadUndecodable  BY <1>20 DEF ReadUndecodable, Reading
<1>21. CASE ReadUnnumbered  BY <1>21 DEF ReadUnnumbered, Reading
<1>22. CASE ReadBroken  BY <1>22 DEF ReadBroken, Reading
<1>23. CASE ReaderEnds  BY <1>23 DEF ReaderEnds, EndRun, AfterRun
<1>24. CASE EventHandled  BY <1>24 DEF EventHandled
<1>25. CASE EventRefused  BY <1>25 DEF EventRefused, EndRun, AfterRun
<1>26. CASE Tick  BY <1>26 DEF Tick, Selecting
<1>27. CASE TakeCommand  BY <1>27 DEF TakeCommand, Selecting, Popped
<1>28. CASE CommandsGone  BY <1>28 DEF CommandsGone, EndRun, AfterRun, Selecting
<1>29. CASE SeeShutdown  BY <1>29 DEF SeeShutdown, Selecting
<1>30. CASE SendDone  BY <1>30 DEF SendDone
<1>31. CASE SendFails  BY <1>31 DEF SendFails, EndRun, AfterRun
<1>32. CASE Dispatch  BY <1>32 DEF Dispatch, driverVars
<1>33. CASE App  BY <1>33, AppFrame DEF driverVars
<1>34. CASE UNCHANGED vars  BY <1>34 DEF vars
<1>35. QED
  BY <1>1, <1>2, <1>3, <1>4, <1>5, <1>6, <1>7, <1>8, <1>9, <1>10, <1>11, <1>12,
     <1>13, <1>14, <1>15, <1>16, <1>17, <1>18, <1>19, <1>20, <1>21, <1>22, <1>23, <1>24,
     <1>25, <1>26, <1>27, <1>28, <1>29, <1>30, <1>31, <1>32, <1>33, <1>34
     DEF Next, Looping, Connecting, FirstEvent, Reporting, Read, Handling, Write,
         Terminated

(* Every action keeps Bounded.                                             *)
LEMMA BoundedStep == IInv /\ [Next]_vars => Bounded'
<1> SUFFICES ASSUME IInv, [Next]_vars PROVE Bounded'
  OBVIOUS
<1> USE DEF IInv, Captured, Bounded, Replayable, TypeOK, CountersOK, Handshake, Callbacks, sessionVars, attemptVars, pumpVars, chanVars, appVars,
            serverVars, resumeHist, sendHist
<1>1. CASE CheckStop  BY <1>1 DEF CheckStop, StopDriver, Observed
<1>2. CASE CheckConnect  BY <1>2 DEF CheckConnect, ResumePoint, Observed
<1>3. CASE Closing  BY <1>3 DEF Closing, Advance
<1>4. CASE FailedStop  BY <1>4 DEF FailedStop, StopDriver, Observed
<1>5. CASE FailedRetry  BY <1>5 DEF FailedRetry, Advance
<1>6. CASE Sleep  BY <1>6 DEF Sleep, Advance
<1>7. CASE Dial  BY <1>7 DEF Dial, Advance
<1>8. CASE Hello  BY <1>8 DEF Hello, Advance
<1>9. CASE Greet  BY <1>9 DEF Greet
<1>10. CASE FirstReady  BY <1>10 DEF FirstReady, FreshPump, SequenceAtReady, InitAtReady
<1>11. CASE FirstInvalid  BY <1>11 DEF FirstInvalid, SessionAfterInvalid
<1>12. CASE FirstMissed
  <2>1. ~isNew /\ sessionId /\ resumeSeq = sequence /\ (stale => misresumed)
    BY <1>12 DEF FirstMissed
  <2>2. pc' = "online" /\ pos' = ReplayFrom + 1 /\ first' = ReplayFrom + 1
        /\ UNCHANGED <<handed, sequence, sessionId, srvSeq>>
    BY <1>12 DEF FirstMissed, SequenceAtFirst
  <2>3. ReplayFrom + 1 = Replayable
    BY <2>1 DEF ReplayFrom
  <2>4. QED
    BY <2>1, <2>2, <2>3
<1>13. CASE FirstResumed
  <2>1. ~isNew /\ sessionId /\ resumeSeq = sequence /\ (stale => misresumed)
    BY <1>13 DEF FirstResumed
  <2>2. pc' = "online" /\ pos' = srvSeq /\ first' = 0
        /\ UNCHANGED <<handed, sequence, sessionId, srvSeq>>
    BY <1>13 DEF FirstResumed
  <2>3. QED
    BY <2>1, <2>2
<1>14. CASE HandshakeFails  BY <1>14 DEF HandshakeFails
<1>15. CASE OnlineDone  BY <1>15 DEF OnlineDone
<1>16. CASE FirstEventDone  BY <1>16 DEF FirstEventDone, Advance
<1>17. CASE ReportDone  BY <1>17 DEF ReportDone
<1>18. CASE CallbackFails  BY <1>18 DEF CallbackFails
<1>19. CASE ReadDispatch  BY <1>19 DEF ReadDispatch, Reading, StoredSequence
<1>20. CASE ReadUndecodable  BY <1>20 DEF ReadUndecodable, Reading
<1>21. CASE ReadUnnumbered  BY <1>21 DEF ReadUnnumbered, Reading
<1>22. CASE ReadBroken  BY <1>22 DEF ReadBroken, Reading
<1>23. CASE ReaderEnds  BY <1>23 DEF ReaderEnds, EndRun, AfterRun
<1>24. CASE EventHandled  BY <1>24 DEF EventHandled
<1>25. CASE EventRefused  BY <1>25 DEF EventRefused, EndRun, AfterRun
<1>26. CASE Tick  BY <1>26 DEF Tick, Selecting
<1>27. CASE TakeCommand  BY <1>27 DEF TakeCommand, Selecting, Popped
<1>28. CASE CommandsGone  BY <1>28 DEF CommandsGone, EndRun, AfterRun, Selecting
<1>29. CASE SeeShutdown  BY <1>29 DEF SeeShutdown, Selecting
<1>30. CASE SendDone  BY <1>30 DEF SendDone
<1>31. CASE SendFails  BY <1>31 DEF SendFails, EndRun, AfterRun
<1>32. CASE Dispatch  BY <1>32 DEF Dispatch, driverVars
<1>33. CASE App
  <2>1. UNCHANGED <<pc, sessionId, sequence, isNew, first, srvSeq, pos, handed>>
    BY <1>33, AppFrame DEF driverVars
  <2>2. QED
    BY <2>1
<1>34. CASE UNCHANGED vars  BY <1>34 DEF vars
<1>35. QED
  BY <1>1, <1>2, <1>3, <1>4, <1>5, <1>6, <1>7, <1>8, <1>9, <1>10, <1>11, <1>12,
     <1>13, <1>14, <1>15, <1>16, <1>17, <1>18, <1>19, <1>20, <1>21, <1>22, <1>23, <1>24,
     <1>25, <1>26, <1>27, <1>28, <1>29, <1>30, <1>31, <1>32, <1>33, <1>34
     DEF Next, Looping, Connecting, FirstEvent, Reporting, Read, Handling, Write,
         Terminated

(* Every action keeps Waiting.                                             *)
LEMMA WaitingStep == IInv /\ [Next]_vars => Waiting'
<1> SUFFICES ASSUME IInv, [Next]_vars PROVE Waiting'
  OBVIOUS
<1> USE DEF IInv, Captured, Waiting, BuildNeverRefused, Handshake, Callbacks, sessionVars, attemptVars, pumpVars, chanVars, appVars,
            serverVars, resumeHist, sendHist
<1>1. CASE CheckStop  BY <1>1 DEF CheckStop, StopDriver, Observed
<1>2. CASE CheckConnect  BY <1>2 DEF CheckConnect, ResumePoint, Observed
<1>3. CASE Closing  BY <1>3 DEF Closing, Advance
<1>4. CASE FailedStop  BY <1>4 DEF FailedStop, StopDriver, Observed
<1>5. CASE FailedRetry  BY <1>5 DEF FailedRetry, Advance
<1>6. CASE Sleep  BY <1>6 DEF Sleep, Advance
<1>7. CASE Dial  BY <1>7 DEF Dial, Advance
<1>8. CASE Hello  BY <1>8 DEF Hello, Advance
<1>9. CASE Greet  BY <1>9 DEF Greet
<1>10. CASE FirstReady  BY <1>10 DEF FirstReady, FreshPump, SequenceAtReady, InitAtReady
<1>11. CASE FirstInvalid  BY <1>11 DEF FirstInvalid, SessionAfterInvalid
<1>12. CASE FirstMissed  BY <1>12 DEF FirstMissed, FreshPump, ReplayFrom, SequenceAtFirst
<1>13. CASE FirstResumed  BY <1>13 DEF FirstResumed, FreshPump, ReplayFrom
<1>14. CASE HandshakeFails  BY <1>14 DEF HandshakeFails
<1>15. CASE OnlineDone  BY <1>15 DEF OnlineDone
<1>16. CASE FirstEventDone  BY <1>16 DEF FirstEventDone, Advance
<1>17. CASE ReportDone  BY <1>17 DEF ReportDone
<1>18. CASE CallbackFails  BY <1>18 DEF CallbackFails
<1>19. CASE ReadDispatch  BY <1>19 DEF ReadDispatch, Reading, StoredSequence
<1>20. CASE ReadUndecodable  BY <1>20 DEF ReadUndecodable, Reading
<1>21. CASE ReadUnnumbered  BY <1>21 DEF ReadUnnumbered, Reading
<1>22. CASE ReadBroken  BY <1>22 DEF ReadBroken, Reading
<1>23. CASE ReaderEnds  BY <1>23 DEF ReaderEnds, EndRun, AfterRun
<1>24. CASE EventHandled  BY <1>24 DEF EventHandled
<1>25. CASE EventRefused  BY <1>25 DEF EventRefused, EndRun, AfterRun
<1>26. CASE Tick  BY <1>26 DEF Tick, Selecting
<1>27. CASE TakeCommand  BY <1>27 DEF TakeCommand, Selecting, Popped
<1>28. CASE CommandsGone  BY <1>28 DEF CommandsGone, EndRun, AfterRun, Selecting
<1>29. CASE SeeShutdown  BY <1>29 DEF SeeShutdown, Selecting
<1>30. CASE SendDone  BY <1>30 DEF SendDone
<1>31. CASE SendFails  BY <1>31 DEF SendFails, EndRun, AfterRun
<1>32. CASE Dispatch  BY <1>32 DEF Dispatch, driverVars
<1>33. CASE BuildOk  BY <1>33 DEF BuildOk, driverVars
<1>34. CASE BuildDropped  BY <1>34 DEF BuildDropped, SenderGone, driverVars
<1>35. CASE TakeShutdown  BY <1>35 DEF TakeShutdown, driverVars
<1>36. CASE SendShutdown  BY <1>36 DEF SendShutdown, driverVars
<1>37. CASE DropShutdown  BY <1>37 DEF DropShutdown, driverVars
<1>38. CASE DropDiscord  BY <1>38 DEF DropDiscord, SenderGone, driverVars
<1>39. CASE CloneClient  BY <1>39 DEF CloneClient, driverVars
<1>40. CASE DropClones  BY <1>40 DEF DropClones, driverVars
<1>41. CASE TrySend  BY <1>41 DEF TrySend, HasRoom, driverVars
<1>42. CASE UNCHANGED vars  BY <1>42 DEF vars
<1>43. QED
  BY <1>1, <1>2, <1>3, <1>4, <1>5, <1>6, <1>7, <1>8, <1>9, <1>10, <1>11, <1>12,
     <1>13, <1>14, <1>15, <1>16, <1>17, <1>18, <1>19, <1>20, <1>21, <1>22, <1>23, <1>24,
     <1>25, <1>26, <1>27, <1>28, <1>29, <1>30, <1>31, <1>32, <1>33, <1>34, <1>35, <1>36,
     <1>37, <1>38, <1>39, <1>40, <1>41, <1>42
     DEF Next, Looping, Connecting, FirstEvent, Reporting, Read, Handling, Write,
         Terminated, App

(* No action opens a gap, given the rest of the invariant.                 *)
LEMMA NoGapStep == IInv /\ [Next]_vars => NoGap'
<1> SUFFICES ASSUME IInv, [Next]_vars PROVE NoGap'
  OBVIOUS
<1> USE DEF IInv, Captured, Covered, NoGap, Seen, TypeOK, CountersOK, Handshake, Callbacks, sessionVars, attemptVars, pumpVars, chanVars, appVars,
            serverVars, resumeHist, sendHist
<1>1. CASE CheckStop  BY <1>1 DEF CheckStop, StopDriver, Observed
<1>2. CASE CheckConnect  BY <1>2 DEF CheckConnect, ResumePoint, Observed
<1>3. CASE Closing  BY <1>3 DEF Closing, Advance
<1>4. CASE FailedStop  BY <1>4 DEF FailedStop, StopDriver, Observed
<1>5. CASE FailedRetry  BY <1>5 DEF FailedRetry, Advance
<1>6. CASE Sleep  BY <1>6 DEF Sleep, Advance
<1>7. CASE Dial  BY <1>7 DEF Dial, Advance
<1>8. CASE Hello  BY <1>8 DEF Hello, Advance
<1>9. CASE Greet  BY <1>9 DEF Greet
<1>10. CASE FirstReady
  <2>1. handed' = {} /\ sequence' = sequence /\ (stale' <=> sequence # 0)
    BY <1>10 DEF FirstReady, SequenceAtReady
  <2>2. ~stale' => Seen(sequence)'
    BY <2>1
  <2>3. QED
    BY <2>2
<1>11. CASE FirstInvalid  BY <1>11 DEF FirstInvalid, SessionAfterInvalid
<1>12. CASE FirstMissed  BY <1>12 DEF FirstMissed, FreshPump, ReplayFrom, SequenceAtFirst
<1>13. CASE FirstResumed  BY <1>13 DEF FirstResumed, FreshPump, ReplayFrom
<1>14. CASE HandshakeFails  BY <1>14 DEF HandshakeFails
<1>15. CASE OnlineDone  BY <1>15 DEF OnlineDone
<1>16. CASE FirstEventDone  BY <1>16 DEF FirstEventDone, Advance
<1>17. CASE ReportDone  BY <1>17 DEF ReportDone
<1>18. CASE CallbackFails  BY <1>18 DEF CallbackFails
<1>19. CASE ReadDispatch  BY <1>19 DEF ReadDispatch, Reading, StoredSequence
<1>20. CASE ReadUndecodable  BY <1>20 DEF ReadUndecodable, Reading
<1>21. CASE ReadUnnumbered  BY <1>21 DEF ReadUnnumbered, Reading
<1>22. CASE ReadBroken  BY <1>22 DEF ReadBroken, Reading
<1>23. CASE ReaderEnds  BY <1>23 DEF ReaderEnds, EndRun, AfterRun
<1>24. CASE EventHandled  BY <1>24 DEF EventHandled
<1>25. CASE EventRefused  BY <1>25 DEF EventRefused, EndRun, AfterRun
<1>26. CASE Tick  BY <1>26 DEF Tick, Selecting
<1>27. CASE TakeCommand  BY <1>27 DEF TakeCommand, Selecting, Popped
<1>28. CASE CommandsGone  BY <1>28 DEF CommandsGone, EndRun, AfterRun, Selecting
<1>29. CASE SeeShutdown  BY <1>29 DEF SeeShutdown, Selecting
<1>30. CASE SendDone  BY <1>30 DEF SendDone
<1>31. CASE SendFails  BY <1>31 DEF SendFails, EndRun, AfterRun
<1>32. CASE Dispatch  BY <1>32 DEF Dispatch, driverVars
<1>33. CASE App  BY <1>33, AppFrame DEF driverVars
<1>34. CASE UNCHANGED vars  BY <1>34 DEF vars
<1>35. QED
  BY <1>1, <1>2, <1>3, <1>4, <1>5, <1>6, <1>7, <1>8, <1>9, <1>10, <1>11, <1>12,
     <1>13, <1>14, <1>15, <1>16, <1>17, <1>18, <1>19, <1>20, <1>21, <1>22, <1>23, <1>24,
     <1>25, <1>26, <1>27, <1>28, <1>29, <1>30, <1>31, <1>32, <1>33, <1>34
     DEF Next, Looping, Connecting, FirstEvent, Reporting, Read, Handling, Write,
         Terminated

(* The inductive invariant holds throughout.                               *)
LEMMA Inductive == Spec => []IInv
<1>1. Init => IInv
  <2> SUFFICES ASSUME Init PROVE IInv
    OBVIOUS
  <2>1. TypeOK
    BY TypeInit
  <2>2. Captured /\ Covered /\ NoGap
    BY DEF Init, Captured, Covered, NoGap, Handshake
  <2>3. Bounded
    BY DEF Init, Bounded, Handshake
  <2>4. Waiting
    BY DEF Init, Waiting, BuildNeverRefused, Handshake
  <2>5. QED
    BY <2>1, <2>2, <2>3, <2>4 DEF IInv
<1>2. IInv /\ [Next]_vars => IInv'
  <2> SUFFICES ASSUME IInv, [Next]_vars PROVE IInv'
    OBVIOUS
  <2>1. TypeOK'
    BY FlagsStep, CountersStep DEF IInv, TypeOK
  <2>2. QED
    BY <2>1, CapturedStep, CoveredStep, BoundedStep, WaitingStep, NoGapStep DEF IInv
<1>3. QED
  BY <1>1, <1>2, PTL DEF Spec

(* A resume of the session that the stored sequence belongs to skips no    *)
(* event: all events up to it were handed to the callback or could not be  *)
(* decoded, through any number of failures and resumes (discord.rs:221-243,*)
(* 316-337).  A sequence left over from an earlier session does skip some. *)
THEOREM ResumeLosesNothing == Spec => []NoGap
<1>1. IInv => NoGap
  BY DEF IInv
<1>2. QED
  BY Inductive, <1>1, PTL

(* build() never sees its driver stop unanswered.                          *)
THEOREM BuildIsAnswered == Spec => []BuildNeverRefused
<1>1. IInv => BuildNeverRefused
  BY DEF IInv, Waiting
<1>2. QED
  BY Inductive, <1>1, PTL

(* No step of the reader delivers a number again.                          *)
LEMMA ReadStep == IInv /\ [Next]_vars => ((pc = "run" /\ pos' # pos) => pos' \notin handed)
<1> SUFFICES ASSUME IInv, [Next]_vars PROVE ((pc = "run" /\ pos' # pos) => pos' \notin handed)
  OBVIOUS
<1> USE DEF IInv, Bounded, TypeOK, CountersOK, sessionVars, attemptVars, pumpVars, chanVars, appVars,
            serverVars, resumeHist, sendHist
<1>1. CASE CheckStop  BY <1>1 DEF CheckStop, StopDriver, Observed
<1>2. CASE CheckConnect  BY <1>2 DEF CheckConnect, ResumePoint, Observed
<1>3. CASE Closing  BY <1>3 DEF Closing, Advance
<1>4. CASE FailedStop  BY <1>4 DEF FailedStop, StopDriver, Observed
<1>5. CASE FailedRetry  BY <1>5 DEF FailedRetry, Advance
<1>6. CASE Sleep  BY <1>6 DEF Sleep, Advance
<1>7. CASE Dial  BY <1>7 DEF Dial, Advance
<1>8. CASE Hello  BY <1>8 DEF Hello, Advance
<1>9. CASE Greet  BY <1>9 DEF Greet
<1>10. CASE FirstReady  BY <1>10 DEF FirstReady, FreshPump, SequenceAtReady, InitAtReady
<1>11. CASE FirstInvalid  BY <1>11 DEF FirstInvalid, SessionAfterInvalid
<1>12. CASE FirstMissed  BY <1>12 DEF FirstMissed, FreshPump, ReplayFrom, SequenceAtFirst
<1>13. CASE FirstResumed  BY <1>13 DEF FirstResumed, FreshPump, ReplayFrom
<1>14. CASE HandshakeFails  BY <1>14 DEF HandshakeFails
<1>15. CASE OnlineDone  BY <1>15 DEF OnlineDone
<1>16. CASE FirstEventDone  BY <1>16 DEF FirstEventDone, Advance
<1>17. CASE ReportDone  BY <1>17 DEF ReportDone
<1>18. CASE CallbackFails  BY <1>18 DEF CallbackFails
<1>19. CASE ReadDispatch  BY <1>19 DEF ReadDispatch, Reading, StoredSequence
<1>20. CASE ReadUndecodable  BY <1>20 DEF ReadUndecodable, Reading
<1>21. CASE ReadUnnumbered  BY <1>21 DEF ReadUnnumbered, Reading
<1>22. CASE ReadBroken  BY <1>22 DEF ReadBroken, Reading
<1>23. CASE ReaderEnds  BY <1>23 DEF ReaderEnds, EndRun, AfterRun
<1>24. CASE EventHandled  BY <1>24 DEF EventHandled
<1>25. CASE EventRefused  BY <1>25 DEF EventRefused, EndRun, AfterRun
<1>26. CASE Tick  BY <1>26 DEF Tick, Selecting
<1>27. CASE TakeCommand  BY <1>27 DEF TakeCommand, Selecting, Popped
<1>28. CASE CommandsGone  BY <1>28 DEF CommandsGone, EndRun, AfterRun, Selecting
<1>29. CASE SeeShutdown  BY <1>29 DEF SeeShutdown, Selecting
<1>30. CASE SendDone  BY <1>30 DEF SendDone
<1>31. CASE SendFails  BY <1>31 DEF SendFails, EndRun, AfterRun
<1>32. CASE Dispatch  BY <1>32 DEF Dispatch, driverVars
<1>33. CASE App  BY <1>33, AppFrame DEF driverVars
<1>34. CASE UNCHANGED vars  BY <1>34 DEF vars
<1>35. QED
  BY <1>1, <1>2, <1>3, <1>4, <1>5, <1>6, <1>7, <1>8, <1>9, <1>10, <1>11, <1>12,
     <1>13, <1>14, <1>15, <1>16, <1>17, <1>18, <1>19, <1>20, <1>21, <1>22, <1>23, <1>24,
     <1>25, <1>26, <1>27, <1>28, <1>29, <1>30, <1>31, <1>32, <1>33, <1>34
     DEF Next, Looping, Connecting, FirstEvent, Reporting, Read, Handling, Write,
         Terminated

(* What the reader delivers was never delivered before in the session: the *)
(* one event a resumed handshake hands out is the only possible duplicate. *)
THEOREM ReaderDeliversOnce == Spec => ReadNeverRepeats
<1>1. IInv /\ [Next]_vars => [(pc = "run" /\ pos' # pos) => pos' \notin handed]_vars
  BY ReadStep
<1>2. QED
  BY Inductive, <1>1, PTL DEF Spec, ReadNeverRepeats

(* No step starts a dial after a shutdown.                                 *)
LEMMA DialStep == [Next]_vars => ((pc # "dial" /\ pc' = "dial") => shutdown = "open")
<1> SUFFICES ASSUME [Next]_vars PROVE ((pc # "dial" /\ pc' = "dial") => shutdown = "open")
  OBVIOUS
<1> USE DEF sessionVars, attemptVars, pumpVars, chanVars, appVars,
            serverVars, resumeHist, sendHist
<1>1. CASE CheckStop  BY <1>1 DEF CheckStop, StopDriver, Observed
<1>2. CASE CheckConnect  BY <1>2 DEF CheckConnect, ResumePoint, Observed
<1>3. CASE Closing  BY <1>3 DEF Closing, Advance
<1>4. CASE FailedStop  BY <1>4 DEF FailedStop, StopDriver, Observed
<1>5. CASE FailedRetry  BY <1>5 DEF FailedRetry, Advance
<1>6. CASE Sleep  BY <1>6 DEF Sleep, Advance
<1>7. CASE Dial  BY <1>7 DEF Dial, Advance
<1>8. CASE Hello  BY <1>8 DEF Hello, Advance
<1>9. CASE Greet  BY <1>9 DEF Greet
<1>10. CASE FirstReady  BY <1>10 DEF FirstReady, FreshPump, SequenceAtReady, InitAtReady
<1>11. CASE FirstInvalid  BY <1>11 DEF FirstInvalid, SessionAfterInvalid
<1>12. CASE FirstMissed  BY <1>12 DEF FirstMissed, FreshPump, ReplayFrom, SequenceAtFirst
<1>13. CASE FirstResumed  BY <1>13 DEF FirstResumed, FreshPump, ReplayFrom
<1>14. CASE HandshakeFails  BY <1>14 DEF HandshakeFails
<1>15. CASE OnlineDone  BY <1>15 DEF OnlineDone
<1>16. CASE FirstEventDone  BY <1>16 DEF FirstEventDone, Advance
<1>17. CASE ReportDone  BY <1>17 DEF ReportDone
<1>18. CASE CallbackFails  BY <1>18 DEF CallbackFails
<1>19. CASE ReadDispatch  BY <1>19 DEF ReadDispatch, Reading, StoredSequence
<1>20. CASE ReadUndecodable  BY <1>20 DEF ReadUndecodable, Reading
<1>21. CASE ReadUnnumbered  BY <1>21 DEF ReadUnnumbered, Reading
<1>22. CASE ReadBroken  BY <1>22 DEF ReadBroken, Reading
<1>23. CASE ReaderEnds  BY <1>23 DEF ReaderEnds, EndRun, AfterRun
<1>24. CASE EventHandled  BY <1>24 DEF EventHandled
<1>25. CASE EventRefused  BY <1>25 DEF EventRefused, EndRun, AfterRun
<1>26. CASE Tick  BY <1>26 DEF Tick, Selecting
<1>27. CASE TakeCommand  BY <1>27 DEF TakeCommand, Selecting, Popped
<1>28. CASE CommandsGone  BY <1>28 DEF CommandsGone, EndRun, AfterRun, Selecting
<1>29. CASE SeeShutdown  BY <1>29 DEF SeeShutdown, Selecting
<1>30. CASE SendDone  BY <1>30 DEF SendDone
<1>31. CASE SendFails  BY <1>31 DEF SendFails, EndRun, AfterRun
<1>32. CASE Dispatch  BY <1>32 DEF Dispatch, driverVars
<1>33. CASE App  BY <1>33, AppFrame DEF driverVars
<1>34. CASE UNCHANGED vars  BY <1>34 DEF vars
<1>35. QED
  BY <1>1, <1>2, <1>3, <1>4, <1>5, <1>6, <1>7, <1>8, <1>9, <1>10, <1>11, <1>12,
     <1>13, <1>14, <1>15, <1>16, <1>17, <1>18, <1>19, <1>20, <1>21, <1>22, <1>23, <1>24,
     <1>25, <1>26, <1>27, <1>28, <1>29, <1>30, <1>31, <1>32, <1>33, <1>34
     DEF Next, Looping, Connecting, FirstEvent, Reporting, Read, Handling, Write,
         Terminated

(* No connection is attempted once a shutdown was sent or its handle lost. *)
THEOREM ShutdownEndsDialing == Spec => NoDialAfterShutdown
BY DialStep, PTL DEF Spec, NoDialAfterShutdown

(* Every action keeps the ledger of commands.                              *)
LEMMA LedgerStep == TypeOK /\ Ledger /\ [Next]_vars => Ledger'
<1> SUFFICES ASSUME TypeOK /\ Ledger, [Next]_vars PROVE Ledger'
  OBVIOUS
<1> USE DEF Ledger, CommandsAccounted, InFlight, TypeOK, CountersOK, Handshake, Callbacks, sessionVars, attemptVars, pumpVars, chanVars, appVars,
            serverVars, resumeHist, sendHist
<1>1. CASE CheckStop  BY <1>1 DEF CheckStop, StopDriver, Observed
<1>2. CASE CheckConnect  BY <1>2 DEF CheckConnect, ResumePoint, Observed
<1>3. CASE Closing  BY <1>3 DEF Closing, Advance
<1>4. CASE FailedStop  BY <1>4 DEF FailedStop, StopDriver, Observed
<1>5. CASE FailedRetry  BY <1>5 DEF FailedRetry, Advance
<1>6. CASE Sleep  BY <1>6 DEF Sleep, Advance
<1>7. CASE Dial  BY <1>7 DEF Dial, Advance
<1>8. CASE Hello  BY <1>8 DEF Hello, Advance
<1>9. CASE Greet  BY <1>9 DEF Greet
<1>10. CASE FirstReady  BY <1>10 DEF FirstReady, FreshPump, SequenceAtReady, InitAtReady
<1>11. CASE FirstInvalid  BY <1>11 DEF FirstInvalid, SessionAfterInvalid
<1>12. CASE FirstMissed  BY <1>12 DEF FirstMissed, FreshPump, ReplayFrom, SequenceAtFirst
<1>13. CASE FirstResumed  BY <1>13 DEF FirstResumed, FreshPump, ReplayFrom
<1>14. CASE HandshakeFails  BY <1>14 DEF HandshakeFails
<1>15. CASE OnlineDone  BY <1>15 DEF OnlineDone
<1>16. CASE FirstEventDone  BY <1>16 DEF FirstEventDone, Advance
<1>17. CASE ReportDone  BY <1>17 DEF ReportDone
<1>18. CASE CallbackFails  BY <1>18 DEF CallbackFails
<1>19. CASE ReadDispatch  BY <1>19 DEF ReadDispatch, Reading, StoredSequence
<1>20. CASE ReadUndecodable  BY <1>20 DEF ReadUndecodable, Reading
<1>21. CASE ReadUnnumbered  BY <1>21 DEF ReadUnnumbered, Reading
<1>22. CASE ReadBroken  BY <1>22 DEF ReadBroken, Reading
<1>23. CASE ReaderEnds  BY <1>23 DEF ReaderEnds, EndRun, AfterRun
<1>24. CASE EventHandled  BY <1>24 DEF EventHandled
<1>25. CASE EventRefused  BY <1>25 DEF EventRefused, EndRun, AfterRun
<1>26. CASE Tick  BY <1>26 DEF Tick, Selecting
<1>27. CASE TakeCommand  BY <1>27 DEF TakeCommand, Selecting, Popped
<1>28. CASE CommandsGone  BY <1>28 DEF CommandsGone, EndRun, AfterRun, Selecting
<1>29. CASE SeeShutdown  BY <1>29 DEF SeeShutdown, Selecting
<1>30. CASE SendDone  BY <1>30 DEF SendDone
<1>31. CASE SendFails  BY <1>31 DEF SendFails, EndRun, AfterRun
<1>32. CASE Dispatch  BY <1>32 DEF Dispatch, driverVars
<1>33. CASE App  BY <1>33, AppFrame DEF driverVars
<1>34. CASE UNCHANGED vars  BY <1>34 DEF vars
<1>35. QED
  BY <1>1, <1>2, <1>3, <1>4, <1>5, <1>6, <1>7, <1>8, <1>9, <1>10, <1>11, <1>12,
     <1>13, <1>14, <1>15, <1>16, <1>17, <1>18, <1>19, <1>20, <1>21, <1>22, <1>23, <1>24,
     <1>25, <1>26, <1>27, <1>28, <1>29, <1>30, <1>31, <1>32, <1>33, <1>34
     DEF Next, Looping, Connecting, FirstEvent, Reporting, Read, Handling, Write,
         Terminated

(* Every command the writer popped is sent, lost with its connection, or   *)
(* in the writer's hands, and never two of these.                          *)
THEOREM CommandLedger == Spec => []CommandsAccounted
<1>1. Init => Ledger
  BY DEF Init, Ledger, CommandsAccounted, InFlight
<1>2. Ledger => CommandsAccounted
  BY DEF Ledger
<1>3. QED
  BY <1>1, <1>2, LedgerStep, TypeCorrect, PTL DEF Spec

-----------------------------------------------------------------------------
(* What the application was told, and how a connection ends.               *)

(* The steps that neither go anywhere nor report anything.                 *)
Staying ==
    \/ ReadDispatch \/ ReadUndecodable \/ ReadUnnumbered \/ ReadBroken \/ EventHandled
    \/ Tick \/ TakeCommand \/ SeeShutdown \/ SendDone \/ App \/ Dispatch \/ Terminated

(* The steps that end a running connection.                                *)
Ending == ReaderEnds \/ EventRefused \/ CommandsGone \/ SendFails

(* No other step changes what the application was told, or what will be.   *)
LEMMA Stays == Staying => UNCHANGED <<pc, err, sessionId, appView>>
<1> USE DEF sessionVars, pumpVars, chanVars, appVars, serverVars
<1>1. CASE App \/ Dispatch
  BY <1>1, AppFrame, DispatchFrame DEF driverVars
<1>2. CASE Terminated
  BY <1>2 DEF Terminated, vars
<1>3. CASE ~(App \/ Dispatch \/ Terminated)
  BY <1>3 DEF Staying, ReadDispatch, ReadUndecodable, ReadUnnumbered, ReadBroken, EventHandled,
              Tick, TakeCommand, SeeShutdown, SendDone
<1> QED BY <1>1, <1>2, <1>3 DEF Staying

(* How a running connection ends, and what the application is told then.   *)
LEMMA Ends ==
  ASSUME Ending
  PROVE  /\ pc = "run" /\ err' \in {"shutdown", "other"} /\ sessionId' = sessionId
         /\ err' = "shutdown" => pc' = "closing" /\ appView' = appView
         /\ err' = "other" => pc' = "offline" /\ appView' = "offline"
BY DEF Ending, ReaderEnds, EventRefused, CommandsGone, SendFails, EndRun, AfterRun, Selecting,
       sessionVars

(* Between two connections of a driver that goes on.                       *)
Between == pc \in {"check", "sleep"} \cup Handshake \/ (pc = "failed" /\ err # "shutdown")

(* The last report fits the place the driver is at; while it has a session *)
(* to resume, and no connection, the last report was of its loss.          *)
Reported ==
    /\ pc \in {"online", "event", "run", "closing"} => appView = "online"
    /\ pc = "offline" => appView = "offline"
    /\ pc = "invalid" => appView = "invalid" /\ ~sessionId
    /\ (pc = "stopped") <=> (appView = "ended")
    /\ pc = "closing" => err = "shutdown"
    /\ Between => /\ appView \in {"none", "offline", "invalid", "refused"}
                  /\ sessionId => appView \in {"offline", "refused"}

LEMMA ReportedStep == FlagsOK /\ Reported /\ [Next]_vars => Reported'
<1> SUFFICES ASSUME FlagsOK, Reported, [Next]_vars PROVE Reported'
  OBVIOUS
<1> USE DEF Reported, Between, Handshake, sessionVars
<1>1. CASE Staying \/ UNCHANGED vars
  <2>1. UNCHANGED <<pc, err, sessionId, appView>>
    BY <1>1, Stays DEF vars
  <2> QED BY <2>1
<1>2. CASE Ending
  BY <1>2, Ends
<1>3. CASE CheckStop \/ FailedStop
  BY <1>3 DEF CheckStop, FailedStop, StopDriver
<1>4. CASE CheckConnect
  BY <1>4 DEF CheckConnect
<1>5. CASE Closing \/ FailedRetry \/ Sleep
  BY <1>5 DEF Closing, FailedRetry, Sleep, Advance
<1>6. CASE Dial \/ Hello \/ Greet \/ HandshakeFails
  BY <1>6 DEF Dial, Hello, Greet, Advance, HandshakeFails
<1>7. CASE FirstReady \/ FirstMissed \/ FirstResumed
  BY <1>7 DEF FirstReady, FirstMissed, FirstResumed
<1>8. CASE FirstInvalid
  BY <1>8 DEF FirstInvalid, SessionAfterInvalid
<1>9. CASE OnlineDone \/ FirstEventDone
  BY <1>9 DEF OnlineDone, FirstEventDone, Advance
<1>10. CASE ReportDone
  BY <1>10 DEF ReportDone
<1>11. CASE CallbackFails
  BY <1>11 DEF CallbackFails, Callbacks
<1> QED
  BY <1>1, <1>2, <1>3, <1>4, <1>5, <1>6, <1>7, <1>8, <1>9, <1>10, <1>11
     DEF Next, Looping, Connecting, FirstEvent, Reporting, Read, Handling, Write, Staying, Ending

LEMMA AlwaysReported == Spec => []Reported
<1>1. Init => Reported
  BY DEF Init, Reported, Between, Handshake
<1>2. TypeOK => FlagsOK
  BY DEF TypeOK
<1> QED BY <1>1, <1>2, ReportedStep, TypeCorrect, PTL DEF Spec

(* No step reports out of order.                                           *)
LEMMA OrderStep ==
  ASSUME Captured, Reported, [Next]_vars
  PROVE  /\ (pc = "first" /\ pc' = "online") => appView \in {"none", "offline", "invalid", "refused"}
         /\ (pc' = "offline" /\ pc # "offline") => appView = "online"
         /\ (pc' = "invalid" /\ pc # "invalid") => appView \in {"offline", "refused"}
         /\ appView = "ended" => appView' = "ended"
<1> USE DEF Reported, Between, Handshake
<1>1. CASE Staying \/ UNCHANGED vars
  <2>1. UNCHANGED <<pc, appView>>
    BY <1>1, Stays DEF vars
  <2> QED BY <2>1
<1>2. CASE Ending
  BY <1>2, Ends
<1>3. CASE CheckStop \/ FailedStop
  BY <1>3 DEF CheckStop, FailedStop, StopDriver
<1>4. CASE CheckConnect
  BY <1>4 DEF CheckConnect
<1>5. CASE Closing \/ FailedRetry \/ Sleep
  BY <1>5 DEF Closing, FailedRetry, Sleep, Advance
<1>6. CASE Dial \/ Hello \/ Greet \/ HandshakeFails
  BY <1>6 DEF Dial, Hello, Greet, Advance, HandshakeFails
<1>7. CASE FirstReady \/ FirstMissed \/ FirstResumed
  BY <1>7 DEF FirstReady, FirstMissed, FirstResumed
<1>8. CASE FirstInvalid
  <2>1. pc = "first" /\ pc' = "invalid" /\ appView' = "invalid" /\ ~isNew
    BY <1>8 DEF FirstInvalid
  <2>2. sessionId
    BY <2>1 DEF Captured
  <2> QED BY <2>1, <2>2
<1>9. CASE OnlineDone \/ FirstEventDone
  BY <1>9 DEF OnlineDone, FirstEventDone, Advance
<1>10. CASE ReportDone
  BY <1>10 DEF ReportDone
<1>11. CASE CallbackFails
  BY <1>11 DEF CallbackFails, Callbacks
<1> QED
  BY <1>1, <1>2, <1>3, <1>4, <1>5, <1>6, <1>7, <1>8, <1>9, <1>10, <1>11
     DEF Next, Looping, Connecting, FirstEvent, Reporting, Read, Handling, Write, Staying, Ending

(* The application is told of every connection and of its loss in turn,    *)
(* through resumes, lost sessions and refusing callbacks, and of nothing   *)
(* after the end (discord.rs:208, 234-243, 271).                           *)
THEOREM ReportsInOrder == Spec => ReportOrder
<1>1. IInv /\ Reported /\ [Next]_vars
        => [/\ (pc = "first" /\ pc' = "online") => appView \in {"none", "offline", "invalid", "refused"}
            /\ (pc' = "offline" /\ pc # "offline") => appView = "online"
            /\ (pc' = "invalid" /\ pc # "invalid") => appView \in {"offline", "refused"}
            /\ appView = "ended" => appView' = "ended"]_vars
  BY OrderStep DEF IInv
<1> QED BY <1>1, Inductive, AlwaysReported, PTL DEF Spec, ReportOrder

-----------------------------------------------------------------------------
(* A graceful stop.                                                        *)

(* A writer that saw the shutdown has closed the queue.                    *)
SeenIsClosed == shutdownSeen => cmdClosed

LEMMA ClosedStep == SeenIsClosed /\ [Next]_vars => SeenIsClosed'
<1> SUFFICES ASSUME SeenIsClosed, [Next]_vars PROVE SeenIsClosed'
  OBVIOUS
<1> USE DEF SeenIsClosed, pumpVars, chanVars, driverVars
<1>1. CASE Looping
  BY <1>1 DEF Looping, CheckStop, CheckConnect, Closing, FailedStop, FailedRetry, Sleep, Advance,
              StopDriver
<1>2. CASE Connecting
  BY <1>2 DEF Connecting, Dial, Hello, Greet, Advance, HandshakeFails, FirstEvent, FirstReady,
              FirstInvalid, FirstMissed, FirstResumed, FreshPump
<1>3. CASE Reporting
  BY <1>3 DEF Reporting, OnlineDone, FirstEventDone, ReportDone, CallbackFails, Advance
<1>4. CASE Read \/ Handling
  BY <1>4 DEF Read, ReadDispatch, ReadUndecodable, ReadUnnumbered, ReadBroken, ReaderEnds,
              Handling, EventHandled, EventRefused
<1>5. CASE Write
  BY <1>5 DEF Write, Tick, TakeCommand, CommandsGone, SeeShutdown, SendDone, SendFails
<1>6. CASE App \/ Dispatch
  BY <1>6, AppFrame, DispatchFrame
<1>7. CASE Terminated \/ UNCHANGED vars
  BY <1>7 DEF Terminated, vars
<1> QED BY <1>1, <1>2, <1>3, <1>4, <1>5, <1>6, <1>7 DEF Next

(* Only the writer closes with the reader idle, and only when it is done.  *)
LEMMA DrainStep ==
  ASSUME Ledger, SeenIsClosed, [Next]_vars, pc = "run", pc' = "closing", reader = "next"
  PROVE  taken = accepted /\ cmdClosed' /\ 1..accepted = sent' \cup lost
<1>1. CASE CommandsGone
  <2>1. /\ taken = accepted /\ writer = "select" /\ sent' = sent /\ cmdClosed' = cmdClosed
        /\ EndRun(IF shutdownSeen THEN "shutdown" ELSE "other")
    BY <1>1 DEF CommandsGone, QueueEnded, Selecting, chanVars
  <2>2. shutdownSeen
    BY <2>1 DEF EndRun, AfterRun
  <2>3. InFlight = {}
    BY <2>1 DEF InFlight
  <2>4. 1..taken = sent \cup lost
    BY <2>3 DEF Ledger, CommandsAccounted
  <2> QED BY <2>1, <2>2, <2>4 DEF SeenIsClosed
<1>2. CASE ReaderEnds \/ SendFails
  BY <1>2 DEF ReaderEnds, SendFails, EndRun, AfterRun
<1>3. CASE EventRefused
  BY <1>3 DEF EventRefused
<1>4. CASE Staying \/ UNCHANGED vars
  BY <1>4, Stays DEF vars
<1>5. CASE Looping \/ Connecting \/ Reporting
  BY <1>5 DEF Looping, CheckStop, CheckConnect, Closing, FailedStop, FailedRetry, Sleep, Advance,
              Connecting, Dial, Hello, Greet, HandshakeFails, FirstEvent, FirstReady,
              FirstInvalid, FirstMissed, FirstResumed, Handshake,
              Reporting, OnlineDone, FirstEventDone, ReportDone, CallbackFails, Callbacks
<1> QED
  BY <1>1, <1>2, <1>3, <1>4, <1>5 DEF Next, Read, Handling, Write, Staying

LEMMA AlwaysLedger == Spec => [](Ledger /\ SeenIsClosed)
<1>1. Init => Ledger /\ SeenIsClosed
  BY DEF Init, Ledger, CommandsAccounted, InFlight, SeenIsClosed
<1> QED BY <1>1, LedgerStep, ClosedStep, TypeCorrect, PTL DEF Spec

(* A connection ended for a shutdown leaves no accepted command behind,    *)
(* however commands, heartbeats, events and the shutdown interleave        *)
(* (discord.rs:299-313).                                                   *)
THEOREM ShutdownDrains == Spec => GracefulDrain
<1>1. Ledger /\ SeenIsClosed /\ [Next]_vars
        => [(pc = "run" /\ pc' = "closing" /\ reader = "next")
              => taken = accepted /\ cmdClosed' /\ 1..accepted = sent' \cup lost]_vars
  BY DrainStep
<1> QED BY <1>1, AlwaysLedger, PTL DEF Spec, GracefulDrain
=============================================================================
