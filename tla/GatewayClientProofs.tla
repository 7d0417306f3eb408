------------------------ MODULE GatewayClientProofs ------------------------
(***************************************************************************)
(* What TLAPS proves of GatewayClient, for any number of callers, tokens,  *)
(* presences, connections, and any interval and backoff.                   *)
(***************************************************************************)
EXTENDS GatewayClient, TLAPS

-----------------------------------------------------------------------------
(* Type correctness.  The provers do not mix arithmetic with Boolean        *)
(* variables, so the timers have a lemma of their own.                      *)

\* A connection that has not been reported closed has a slot.
ConnOK == (Active \/ pc \in {"canceled", "failed"}) => conn \in Slots

DataTyped == ClientTyped /\ RunTyped /\ WritersTyped /\ ConnOK

LEMMA TypeInit == Init => DataTyped /\ TimersTyped
<1> SUFFICES ASSUME Init PROVE DataTyped /\ TimersTyped
  OBVIOUS
<1>1. ClientTyped
  BY DEF Init, ClientTyped
<1>2. RunTyped
  BY DEF Init, RunTyped
<1>3. WritersTyped
  BY DEF Init, WritersTyped
<1>4. ConnOK
  BY DEF Init, ConnOK, Active, Phases
<1>5. TimersTyped
  BY GatewayAssumption DEF Init, TimersTyped
<1> QED
  BY <1>1, <1>2, <1>3, <1>4, <1>5 DEF DataTyped

LEMMA DataStep == DataTyped /\ [Next]_vars => DataTyped'
<1> SUFFICES ASSUME DataTyped, [Next]_vars PROVE DataTyped'
  OBVIOUS
<1> USE DEF DataTyped, ClientTyped, RunTyped, WritersTyped, ConnOK, Active, Phases
<1>1. ASSUME NEW c \in Callers, NEW t \in Tokens \cup {NoToken}, ConfigureSet(c, t)
      PROVE  DataTyped'
  BY <1>1 DEF ConfigureSet, CancelledBy, Goto, callVars, chanVars, runVars,
       writerVars, history
<1>2. ASSUME NEW c \in Callers, ConfigureStatus(c)
      PROVE  DataTyped'
  <2>1. ClientTyped'
    BY <1>2 DEF ConfigureStatus, Goto, callVars, chanVars, runVars, writerVars,
       history
  <2>2. RunTyped'
    BY <1>2 DEF ConfigureStatus, Goto, callVars, chanVars, runVars, writerVars,
       history
  <2>3. WritersTyped'
    BY <1>2 DEF ConfigureStatus, Goto, callVars, chanVars, runVars, writerVars,
       history
  <2>4. ConnOK'
    BY <1>2 DEF ConfigureStatus, Goto, callVars, chanVars, runVars, writerVars,
       history
  <2> QED
    BY <2>1, <2>2, <2>3, <2>4
<1>3. ASSUME NEW c \in Callers, ConfigureWake(c)
      PROVE  DataTyped'
  BY <1>3 DEF ConfigureWake, Goto, callVars, chanVars, runVars, writerVars,
       history
<1>4. ASSUME NEW c \in Callers, NEW p \in Presences, PresenceSet(c, p)
      PROVE  DataTyped'
  BY <1>4 DEF PresenceSet, Goto, callVars, chanVars, runVars, writerVars,
       history
<1>5. ASSUME NEW c \in Callers, PresenceNotify(c)
      PROVE  DataTyped'
  BY <1>5 DEF PresenceNotify, Goto, callVars, chanVars, runVars, writerVars,
       history
<1>6. CASE RunRead
  BY <1>6 DEF RunRead, callVars, chanVars, runVars, writerVars, history
<1>7. CASE RunIdle
  <2>1. ClientTyped'
    BY <1>7 DEF RunIdle, callVars, chanVars, runVars, writerVars, history
  <2>2. RunTyped'
    BY <1>7 DEF RunIdle, callVars, chanVars, runVars, writerVars, history
  <2>3. WritersTyped'
    BY <1>7 DEF RunIdle, callVars, chanVars, runVars, writerVars, history
  <2>4. ConnOK'
    BY <1>7 DEF RunIdle, callVars, chanVars, runVars, writerVars, history
  <2> QED
    BY <2>1, <2>2, <2>3, <2>4
<1>8. ASSUME NEW s \in Slots, RunInstall(s) PROVE DataTyped'
  BY <1>8 DEF RunInstall, callVars, chanVars, runVars, writerVars, history
<1>9. CASE DialOk
  BY <1>9 DEF DialOk, Handshake, callVars, chanVars, runVars, writerVars,
       history
<1>10. CASE HelloOk
  BY <1>10 DEF HelloOk, Handshake, callVars, chanVars, runVars, writerVars,
       history
<1>11. CASE Snapshot
  BY <1>11 DEF Snapshot, callVars, chanVars, runVars, writerVars, history
<1>12. CASE IdentifyOk
  BY <1>12 DEF IdentifyOk, callVars, chanVars, runVars, writerVars, history
<1>13. CASE Announce
  BY <1>13 DEF Announce, callVars, chanVars, runVars, writerVars, history
<1>14. CASE ConnFails
  <2>1. ClientTyped'
    BY <1>14 DEF ConnFails, ConnReturns, Blocked, callVars,
       chanVars, runVars, writerVars, history
  <2>2. RunTyped'
    BY <1>14 DEF ConnFails, ConnReturns, Blocked, callVars,
       chanVars, runVars, writerVars, history
  <2>3. WritersTyped'
    BY <1>14 DEF ConnFails, ConnReturns, Blocked, callVars,
       chanVars, runVars, writerVars, history
  <2>4. ConnOK'
    BY <1>14 DEF ConnFails, ConnReturns, Blocked, callVars,
       chanVars, runVars, writerVars, history
  <2> QED
    BY <2>1, <2>2, <2>3, <2>4
<1>15. CASE ConnCancelled
  <2>1. ClientTyped'
    BY <1>15 DEF ConnCancelled, ConnReturns, Blocked, callVars,
       chanVars, runVars, writerVars, history
  <2>2. RunTyped'
    BY <1>15 DEF ConnCancelled, ConnReturns, Blocked, callVars,
       chanVars, runVars, writerVars, history
  <2>3. WritersTyped'
    BY <1>15 DEF ConnCancelled, ConnReturns, Blocked, callVars,
       chanVars, runVars, writerVars, history
  <2>4. ConnOK'
    BY <1>15 DEF ConnCancelled, ConnReturns, Blocked, callVars,
       chanVars, runVars, writerVars, history
  <2> QED
    BY <2>1, <2>2, <2>3, <2>4
<1>16. CASE ReadWriterError
  <2>1. ClientTyped'
    BY <1>16 DEF ReadWriterError, ConnReturns, callVars,
       chanVars, runVars, writerVars, history
  <2>2. RunTyped'
    BY <1>16 DEF ReadWriterError, ConnReturns, callVars,
       chanVars, runVars, writerVars, history
  <2>3. WritersTyped'
    BY <1>16 DEF ReadWriterError, ConnReturns, callVars,
       chanVars, runVars, writerVars, history
  <2>4. ConnOK'
    BY <1>16 DEF ReadWriterError, ConnReturns, callVars,
       chanVars, runVars, writerVars, history
  <2> QED
    BY <2>1, <2>2, <2>3, <2>4
<1>17. CASE RunClosed
  <2>1. ClientTyped'
    BY <1>17 DEF RunClosed, ClosedStatus, AfterClose, callVars,
       chanVars, runVars, writerVars, history
  <2>2. RunTyped'
    BY <1>17 DEF RunClosed, ClosedStatus, AfterClose, callVars,
       chanVars, runVars, writerVars, history
  <2>3. WritersTyped'
    BY <1>17 DEF RunClosed, ClosedStatus, AfterClose, callVars,
       chanVars, runVars, writerVars, history
  <2>4. ConnOK'
    BY <1>17 DEF RunClosed, ClosedStatus, AfterClose, callVars,
       chanVars, runVars, writerVars, history
  <2> QED
    BY <2>1, <2>2, <2>3, <2>4
<1>18. CASE BackoffWake
  <2>1. ClientTyped'
    BY <1>18 DEF BackoffWake, callVars, chanVars, runVars, writerVars, history
  <2>2. RunTyped'
    BY <1>18 DEF BackoffWake, callVars, chanVars, runVars, writerVars, history
  <2>3. WritersTyped'
    BY <1>18 DEF BackoffWake, callVars, chanVars, runVars, writerVars, history
  <2>4. ConnOK'
    BY <1>18 DEF BackoffWake, callVars, chanVars, runVars, writerVars, history
  <2> QED
    BY <2>1, <2>2, <2>3, <2>4
<1>19. CASE BackoffElapsed
  BY <1>19 DEF BackoffElapsed, callVars, chanVars, runVars, writerVars, history
<1>20. CASE RunStops
  BY <1>20 DEF RunStops, callVars, chanVars, runVars, writerVars, history
<1>21. ASSUME NEW s \in Slots, WriterStops(s) PROVE DataTyped'
  BY <1>21 DEF WriterStops, NoWriter, callVars, chanVars, runVars, writerVars,
       history
<1>22. ASSUME NEW s \in Slots, WriterNotified(s) PROVE DataTyped'
  <2>1. ClientTyped'
    BY <1>22 DEF WriterNotified, callVars, chanVars, runVars, writerVars,
       history
  <2>2. RunTyped'
    BY <1>22 DEF WriterNotified, callVars, chanVars, runVars, writerVars,
       history
  <2>3. WritersTyped'
    BY <1>22 DEF WriterNotified, callVars, chanVars, runVars, writerVars,
       history
  <2>4. ConnOK'
    BY <1>22 DEF WriterNotified, callVars, chanVars, runVars, writerVars,
       history
  <2> QED
    BY <2>1, <2>2, <2>3, <2>4
<1>23. ASSUME NEW s \in Slots, WriterTimer(s) PROVE DataTyped'
  BY <1>23 DEF WriterTimer, callVars, chanVars, runVars, writerVars, history
<1>24. ASSUME NEW s \in Slots, WriterLoad(s) PROVE DataTyped'
  <2>1. ClientTyped'
    BY <1>24 DEF WriterLoad, TimerSet, callVars, chanVars, runVars, writerVars,
       history
  <2>2. RunTyped'
    BY <1>24 DEF WriterLoad, TimerSet, callVars, chanVars, runVars, writerVars,
       history
  <2>3. WritersTyped'
    <3> USE <1>24 DEF WriterLoad, TimerSet
    <3>1. armed' \in [Slots -> BOOLEAN]
      OBVIOUS
    <3>2. wpc' \in [Slots -> {"none", "select", "load", "send"}]
      OBVIOUS
    <3>3. sending' \in [Slots -> Presences \cup {NoPresence}]
      OBVIOUS
    <3>4. UNCHANGED <<cancelled, lastSent>>
      OBVIOUS
    <3> QED
      BY <3>1, <3>2, <3>3, <3>4
  <2>4. ConnOK'
    BY <1>24 DEF WriterLoad, TimerSet, callVars, chanVars, runVars, writerVars,
       history
  <2> QED
    BY <2>1, <2>2, <2>3, <2>4
<1>25. ASSUME NEW s \in Slots, WriterSent(s) PROVE DataTyped'
  BY <1>25 DEF WriterSent, Open, callVars, chanVars, runVars, writerVars,
       history
<1>26. ASSUME NEW s \in Slots, WriterSendFails(s) PROVE DataTyped'
  BY <1>26 DEF WriterSendFails, NoWriter, Open, callVars, chanVars, runVars,
       writerVars, history
<1>27. CASE Tick
  BY <1>27 DEF Tick, callVars, chanVars, runVars, writerVars, history
<1>28. CASE Shutdown
  BY <1>28 DEF Shutdown, callVars, chanVars, runVars, writerVars, history
<1>29. CASE UNCHANGED vars
  BY <1>29 DEF vars, callVars, chanVars, runVars, writerVars, history
<1>30. QED
  BY <1>1, <1>2, <1>3, <1>4, <1>5, <1>6, <1>7, <1>8, <1>9, <1>10, <1>11, <1>12,
       <1>13, <1>14, <1>15, <1>16, <1>17, <1>18, <1>19, <1>20, <1>21, <1>22,
       <1>23, <1>24, <1>25, <1>26, <1>27, <1>28, <1>29
  DEF Next, CallerNext, RunNext, WriterNext

LEMMA TimersStep == TimersTyped /\ [Next]_vars => TimersTyped'
<1> SUFFICES ASSUME TimersTyped, [Next]_vars PROVE TimersTyped'
  OBVIOUS
<1> USE GatewayAssumption DEF TimersTyped
<1>1. CASE RunClosed
  BY <1>1 DEF RunClosed, runVars, writerVars
<1>2. CASE BackoffWake
  BY <1>2 DEF BackoffWake, runVars, writerVars
<1>3. CASE BackoffElapsed
  BY <1>3 DEF BackoffElapsed, NextBackoff, runVars, writerVars
<1>4. ASSUME NEW s \in Slots, WriterStops(s) PROVE TimersTyped'
  BY <1>4 DEF WriterStops, NoWriter, runVars, writerVars
<1>5. ASSUME NEW s \in Slots, WriterSent(s) PROVE TimersTyped'
  BY <1>5 DEF WriterSent, runVars, writerVars
<1>6. ASSUME NEW s \in Slots, WriterSendFails(s) PROVE TimersTyped'
  BY <1>6 DEF WriterSendFails, NoWriter, runVars, writerVars
<1>7. CASE Tick
  BY <1>7 DEF Tick, Due, runVars, writerVars
<1>8. CASE UNCHANGED <<backoff, age>>
  BY <1>8
<1>9. QED
  BY <1>1, <1>2, <1>3, <1>4, <1>5, <1>6, <1>7, <1>8
  DEF Next, CallerNext, RunNext, WriterNext, vars, runVars, writerVars,
      ConfigureSet, ConfigureStatus, ConfigureWake, PresenceSet,
      PresenceNotify, RunRead, RunIdle, RunInstall, DialOk, HelloOk,
      Snapshot, IdentifyOk, Announce, ConnFails, ConnCancelled,
      ReadWriterError, RunStops, WriterNotified, WriterTimer,
      WriterLoad, Shutdown, Handshake, ConnReturns

\* Every variable keeps its type and the backoff stays under twice its cap,
\* whatever the callers, the network and the writers do.
THEOREM TypeCorrect == Spec => []TypeOK
<1>1. Init => DataTyped /\ TimersTyped
  BY TypeInit
<1>2. DataTyped /\ TimersTyped /\ [Next]_vars => (DataTyped /\ TimersTyped)'
  BY DataStep, TimersStep
<1>3. DataTyped /\ TimersTyped => TypeOK
  BY DEF DataTyped, TypeOK
<1> QED
  BY <1>1, <1>2, <1>3, PTL DEF Spec

-----------------------------------------------------------------------------
(* The status.                                                             *)

LEMMA StatusStep == DataTyped /\ StatusCoherent /\ [Next]_vars => StatusCoherent'
<1> SUFFICES ASSUME DataTyped /\ StatusCoherent, [Next]_vars PROVE StatusCoherent'
  OBVIOUS
<1> USE DEF DataTyped, ClientTyped, StatusCoherent
<1>1. ASSUME NEW c \in Callers, NEW t \in Tokens \cup {NoToken}, ConfigureSet(c, t)
      PROVE  StatusCoherent'
  BY <1>1 DEF ConfigureSet, CancelledBy, Goto, callVars, chanVars, runVars,
       writerVars, history
<1>2. ASSUME NEW c \in Callers, ConfigureStatus(c)
      PROVE  StatusCoherent'
  BY <1>2 DEF ConfigureStatus, Goto, callVars, chanVars, runVars, writerVars,
       history
<1>3. ASSUME NEW c \in Callers, ConfigureWake(c)
      PROVE  StatusCoherent'
  BY <1>3 DEF ConfigureWake, Goto, callVars, chanVars, runVars, writerVars,
       history
<1>4. ASSUME NEW c \in Callers, NEW p \in Presences, PresenceSet(c, p)
      PROVE  StatusCoherent'
  BY <1>4 DEF PresenceSet, Goto, callVars, chanVars, runVars, writerVars,
       history
<1>5. ASSUME NEW c \in Callers, PresenceNotify(c)
      PROVE  StatusCoherent'
  BY <1>5 DEF PresenceNotify, Goto, callVars, chanVars, runVars, writerVars,
       history
<1>6. CASE RunRead
  BY <1>6 DEF RunRead, callVars, chanVars, runVars, writerVars, history
<1>7. CASE RunIdle
  BY <1>7 DEF RunIdle, callVars, chanVars, runVars, writerVars, history
<1>8. ASSUME NEW s \in Slots, RunInstall(s) PROVE StatusCoherent'
  BY <1>8 DEF RunInstall, callVars, chanVars, runVars, writerVars, history
<1>9. CASE DialOk
  BY <1>9 DEF DialOk, Handshake, callVars, chanVars, runVars, writerVars,
       history
<1>10. CASE HelloOk
  BY <1>10 DEF HelloOk, Handshake, callVars, chanVars, runVars, writerVars,
       history
<1>11. CASE Snapshot
  BY <1>11 DEF Snapshot, callVars, chanVars, runVars, writerVars, history
<1>12. CASE IdentifyOk
  BY <1>12 DEF IdentifyOk, callVars, chanVars, runVars, writerVars, history
<1>13. CASE Announce
  BY <1>13 DEF Announce, callVars, chanVars, runVars, writerVars, history
<1>14. CASE ConnFails
  BY <1>14 DEF ConnFails, ConnReturns, Blocked, callVars, chanVars, runVars,
       writerVars, history
<1>15. CASE ConnCancelled
  BY <1>15 DEF ConnCancelled, ConnReturns, Blocked, callVars, chanVars,
       runVars, writerVars, history
<1>16. CASE ReadWriterError
  BY <1>16 DEF ReadWriterError, ConnReturns, callVars, chanVars, runVars,
       writerVars, history
<1>17. CASE RunClosed
  BY <1>17 DEF RunClosed, ClosedStatus, AfterClose, callVars, chanVars,
       runVars, writerVars, history
<1>18. CASE BackoffWake
  BY <1>18 DEF BackoffWake, callVars, chanVars, runVars, writerVars, history
<1>19. CASE BackoffElapsed
  BY <1>19 DEF BackoffElapsed, callVars, chanVars, runVars, writerVars, history
<1>20. CASE RunStops
  BY <1>20 DEF RunStops, callVars, chanVars, runVars, writerVars, history
<1>21. ASSUME NEW s \in Slots, WriterStops(s) PROVE StatusCoherent'
  BY <1>21 DEF WriterStops, NoWriter, callVars, chanVars, runVars, writerVars,
       history
<1>22. ASSUME NEW s \in Slots, WriterNotified(s) PROVE StatusCoherent'
  BY <1>22 DEF WriterNotified, callVars, chanVars, runVars, writerVars, history
<1>23. ASSUME NEW s \in Slots, WriterTimer(s) PROVE StatusCoherent'
  BY <1>23 DEF WriterTimer, callVars, chanVars, runVars, writerVars, history
<1>24. ASSUME NEW s \in Slots, WriterLoad(s) PROVE StatusCoherent'
  BY <1>24 DEF WriterLoad, TimerSet, callVars, chanVars, runVars, writerVars,
       history
<1>25. ASSUME NEW s \in Slots, WriterSent(s) PROVE StatusCoherent'
  BY <1>25 DEF WriterSent, Open, callVars, chanVars, runVars, writerVars,
       history
<1>26. ASSUME NEW s \in Slots, WriterSendFails(s) PROVE StatusCoherent'
  BY <1>26 DEF WriterSendFails, NoWriter, Open, callVars, chanVars, runVars,
       writerVars, history
<1>27. CASE Tick
  BY <1>27 DEF Tick, callVars, chanVars, runVars, writerVars, history
<1>28. CASE Shutdown
  BY <1>28 DEF Shutdown, callVars, chanVars, runVars, writerVars, history
<1>29. CASE UNCHANGED vars
  BY <1>29 DEF vars, callVars, chanVars, runVars, writerVars, history
<1>30. QED
  BY <1>1, <1>2, <1>3, <1>4, <1>5, <1>6, <1>7, <1>8, <1>9, <1>10, <1>11, <1>12,
       <1>13, <1>14, <1>15, <1>16, <1>17, <1>18, <1>19, <1>20, <1>21, <1>22,
       <1>23, <1>24, <1>25, <1>26, <1>27, <1>28, <1>29
  DEF Next, CallerNext, RunNext, WriterNext

\* The status never shows a connection that is not there (client.go:89-96,
\* 133-139, 235-240).
THEOREM StatusIsCoherent == Spec => []StatusCoherent
<1>1. Init => DataTyped /\ StatusCoherent
  BY TypeInit DEF Init, StatusCoherent
<1>2. DataTyped /\ StatusCoherent /\ [Next]_vars
        => (DataTyped /\ StatusCoherent)'
  BY DataStep, StatusStep
<1> QED
  BY <1>1, <1>2, PTL DEF Spec

-----------------------------------------------------------------------------
(* The token of the connection.                                            *)

LEMMA TokenStep == DataTyped /\ TokenFresh /\ [Next]_vars => TokenFresh'
<1> SUFFICES ASSUME DataTyped /\ TokenFresh, [Next]_vars PROVE TokenFresh'
  OBVIOUS
<1> USE DEF DataTyped, ClientTyped, WritersTyped, ConnOK, TokenFresh, Active, Phases
<1>1. ASSUME NEW c \in Callers, NEW t \in Tokens \cup {NoToken}, ConfigureSet(c, t)
      PROVE  TokenFresh'
  BY <1>1 DEF ConfigureSet, CancelledBy, Goto, callVars, chanVars, runVars,
       writerVars, history
<1>2. ASSUME NEW c \in Callers, ConfigureStatus(c)
      PROVE  TokenFresh'
  BY <1>2 DEF ConfigureStatus, Goto, callVars, chanVars, runVars, writerVars,
       history
<1>3. ASSUME NEW c \in Callers, ConfigureWake(c)
      PROVE  TokenFresh'
  BY <1>3 DEF ConfigureWake, Goto, callVars, chanVars, runVars, writerVars,
       history
<1>4. ASSUME NEW c \in Callers, NEW p \in Presences, PresenceSet(c, p)
      PROVE  TokenFresh'
  BY <1>4 DEF PresenceSet, Goto, callVars, chanVars, runVars, writerVars,
       history
<1>5. ASSUME NEW c \in Callers, PresenceNotify(c)
      PROVE  TokenFresh'
  BY <1>5 DEF PresenceNotify, Goto, callVars, chanVars, runVars, writerVars,
       history
<1>6. CASE RunRead
  BY <1>6 DEF RunRead, callVars, chanVars, runVars, writerVars, history
<1>7. CASE RunIdle
  BY <1>7 DEF RunIdle, callVars, chanVars, runVars, writerVars, history
<1>8. ASSUME NEW s \in Slots, RunInstall(s) PROVE TokenFresh'
  BY <1>8 DEF RunInstall, callVars, chanVars, runVars, writerVars, history
<1>9. CASE DialOk
  BY <1>9 DEF DialOk, Handshake, callVars, chanVars, runVars, writerVars,
       history
<1>10. CASE HelloOk
  BY <1>10 DEF HelloOk, Handshake, callVars, chanVars, runVars, writerVars,
       history
<1>11. CASE Snapshot
  BY <1>11 DEF Snapshot, callVars, chanVars, runVars, writerVars, history
<1>12. CASE IdentifyOk
  BY <1>12 DEF IdentifyOk, callVars, chanVars, runVars, writerVars, history
<1>13. CASE Announce
  BY <1>13 DEF Announce, callVars, chanVars, runVars, writerVars, history
<1>14. CASE ConnFails
  BY <1>14 DEF ConnFails, ConnReturns, Blocked, callVars, chanVars, runVars,
       writerVars, history
<1>15. CASE ConnCancelled
  BY <1>15 DEF ConnCancelled, ConnReturns, Blocked, callVars, chanVars,
       runVars, writerVars, history
<1>16. CASE ReadWriterError
  BY <1>16 DEF ReadWriterError, ConnReturns, callVars, chanVars, runVars,
       writerVars, history
<1>17. CASE RunClosed
  BY <1>17 DEF RunClosed, ClosedStatus, AfterClose, callVars, chanVars,
       runVars, writerVars, history
<1>18. CASE BackoffWake
  BY <1>18 DEF BackoffWake, callVars, chanVars, runVars, writerVars, history
<1>19. CASE BackoffElapsed
  BY <1>19 DEF BackoffElapsed, callVars, chanVars, runVars, writerVars, history
<1>20. CASE RunStops
  BY <1>20 DEF RunStops, callVars, chanVars, runVars, writerVars, history
<1>21. ASSUME NEW s \in Slots, WriterStops(s) PROVE TokenFresh'
  BY <1>21 DEF WriterStops, NoWriter, callVars, chanVars, runVars, writerVars,
       history
<1>22. ASSUME NEW s \in Slots, WriterNotified(s) PROVE TokenFresh'
  BY <1>22 DEF WriterNotified, callVars, chanVars, runVars, writerVars, history
<1>23. ASSUME NEW s \in Slots, WriterTimer(s) PROVE TokenFresh'
  BY <1>23 DEF WriterTimer, callVars, chanVars, runVars, writerVars, history
<1>24. ASSUME NEW s \in Slots, WriterLoad(s) PROVE TokenFresh'
  BY <1>24 DEF WriterLoad, TimerSet, callVars, chanVars, runVars, writerVars,
       history
<1>25. ASSUME NEW s \in Slots, WriterSent(s) PROVE TokenFresh'
  BY <1>25 DEF WriterSent, Open, callVars, chanVars, runVars, writerVars,
       history
<1>26. ASSUME NEW s \in Slots, WriterSendFails(s) PROVE TokenFresh'
  BY <1>26 DEF WriterSendFails, NoWriter, Open, callVars, chanVars, runVars,
       writerVars, history
<1>27. CASE Tick
  BY <1>27 DEF Tick, callVars, chanVars, runVars, writerVars, history
<1>28. CASE Shutdown
  BY <1>28 DEF Shutdown, callVars, chanVars, runVars, writerVars, history
<1>29. CASE UNCHANGED vars
  BY <1>29 DEF vars, callVars, chanVars, runVars, writerVars, history
<1>30. QED
  BY <1>1, <1>2, <1>3, <1>4, <1>5, <1>6, <1>7, <1>8, <1>9, <1>10, <1>11, <1>12,
       <1>13, <1>14, <1>15, <1>16, <1>17, <1>18, <1>19, <1>20, <1>21, <1>22,
       <1>23, <1>24, <1>25, <1>26, <1>27, <1>28, <1>29
  DEF Next, CallerNext, RunNext, WriterNext

\* A connection never outlives its token unnoticed: it uses the current one,
\* or has been cancelled, or the change fell between Run's read and install
\* (client.go:80-87, 116-129).
THEOREM TokenStaysFresh == Spec => []TokenFresh
<1>1. Init => DataTyped /\ TokenFresh
  BY TypeInit DEF Init, TokenFresh, Active, Phases
<1>2. DataTyped /\ TokenFresh /\ [Next]_vars => (DataTyped /\ TokenFresh)'
  BY DataStep, TokenStep
<1> QED
  BY <1>1, <1>2, PTL DEF Spec

-----------------------------------------------------------------------------
(* Who else touches the connection: nobody.                                *)

\* What the callers, the clock and the shutdown leave alone.
LEMMA OthersKeep ==
  ASSUME \/ \E c \in Callers : CallerNext(c)
         \/ Tick \/ Shutdown \/ UNCHANGED vars
  PROVE  UNCHANGED <<pc, conn, runToken, wpc, missed>>
BY DEF CallerNext, ConfigureSet, ConfigureStatus, ConfigureWake, PresenceSet,
   PresenceNotify, Tick, Shutdown, vars, runVars, writerVars, history

\* What a writer leaves alone; it moves its own wpc only, if there is one.
LEMMA WriterKeeps ==
  ASSUME WritersTyped, NEW s \in Slots, WriterNext(s)
  PROVE  /\ UNCHANGED <<token, step, status, pc, conn, runToken, cancelled, missed>>
         /\ wpc[s] # "none"
         /\ \A t \in Slots : t # s => wpc'[t] = wpc[t]
<1>1. UNCHANGED <<token, step, status, pc, conn, runToken, cancelled, missed>>
  BY DEF WriterNext, WriterStops, WriterNotified, WriterTimer, WriterLoad,
     WriterSent, WriterSendFails, callVars, runVars, history
<1>2. wpc[s] # "none"
  BY DEF WriterNext, WriterStops, WriterNotified, WriterTimer, WriterLoad,
     WriterSent, WriterSendFails
<1>3. \E where : wpc' = [wpc EXCEPT ![s] = where]
  BY DEF WriterNext, WriterStops, WriterNotified, WriterTimer, WriterLoad,
     WriterSent, WriterSendFails, NoWriter
<1> QED
  BY <1>1, <1>2, <1>3 DEF WritersTyped

-----------------------------------------------------------------------------
(* The writers of earlier connections.                                     *)

\* Between two connections there is none, and one that has ended is cancelled.
StrayInv ==
  /\ StraysToldToStop
  /\ pc \in {"canceled", "failed"} => cancelled[conn]
  /\ ~Active /\ pc \notin {"canceled", "failed"} => conn = NoSlot

LEMMA StrayStep == DataTyped /\ StrayInv /\ [Next]_vars => StrayInv'
<1> SUFFICES ASSUME DataTyped, StrayInv, [Next]_vars PROVE StrayInv'
  OBVIOUS
<1> USE DEF DataTyped, WritersTyped, ConnOK, StrayInv, StraysToldToStop,
       Active, Phases
<1>1. ASSUME UNCHANGED <<pc, conn, wpc>>,
             \A s \in Slots : cancelled[s] => cancelled'[s]
      PROVE  StrayInv'
  BY <1>1
<1>2. CASE \/ \E c \in Callers : CallerNext(c)
           \/ Tick \/ Shutdown \/ UNCHANGED vars
  <2>1. \A s \in Slots : cancelled[s] => cancelled'[s]
    BY <1>2
    DEF CallerNext, ConfigureSet, ConfigureStatus, ConfigureWake, PresenceSet,
        PresenceNotify, Tick, Shutdown, vars
  <2> QED
    BY <1>1, <1>2, <2>1, OthersKeep
<1>3. ASSUME NEW s \in Slots, WriterNext(s) PROVE StrayInv'
  BY <1>3, WriterKeeps
<1>4. ASSUME NEW s \in Slots, RunInstall(s) PROVE StrayInv'
  <2>1. /\ conn = NoSlot /\ conn' = s /\ pc' = "dial" /\ wpc' = wpc
        /\ \A t \in Slots : t # s => cancelled'[t] = cancelled[t]
    BY <1>4 DEF RunInstall, writerVars
  <2> QED
    BY <2>1, GatewayAssumption
<1>5. CASE IdentifyOk
  <2>1. /\ pc' = "announce" /\ UNCHANGED <<conn, cancelled>>
        /\ \A t \in Slots : t # conn => wpc'[t] = wpc[t]
    BY <1>5 DEF IdentifyOk, runVars
  <2> QED
    BY <2>1
<1>6. ASSUME NEW r \in {"failed", "canceled"}, ConnReturns(r),
             Active
      PROVE  StrayInv'
  <2>1. /\ pc' = r /\ UNCHANGED <<conn, wpc>> /\ cancelled'[conn]
        /\ \A t \in Slots : cancelled[t] => cancelled'[t]
    BY <1>6 DEF ConnReturns
  <2> QED
    BY <2>1
<1>7. CASE RunClosed
  <2>1. /\ conn' = NoSlot /\ UNCHANGED <<wpc, cancelled>>
        /\ pc \in {"canceled", "failed"} /\ pc' \in {"exit", "top", "backoff"}
    BY <1>7 DEF RunClosed, AfterClose, writerVars
  <2> QED
    BY <2>1
<1>8. CASE DialOk \/ HelloOk \/ Snapshot \/ Announce
  <2>1. Active /\ Active' /\ UNCHANGED <<conn, wpc, cancelled>>
    BY <1>8 DEF DialOk, HelloOk, Handshake, Snapshot, Announce, writerVars
  <2> QED
    BY <2>1
<1>9. CASE RunRead \/ RunIdle \/ BackoffWake \/ BackoffElapsed \/ RunStops
  <2>1. /\ pc \in {"top", "idle", "backoff"}
        /\ pc' \in {"idle", "install", "top", "exit"}
        /\ UNCHANGED <<conn, wpc, cancelled>>
    BY <1>9
    DEF RunRead, RunIdle, BackoffWake, BackoffElapsed, RunStops, writerVars, runVars
  <2> QED
    BY <2>1
<1>10. CASE ConnFails \/ ConnCancelled \/ ReadWriterError
  BY <1>6, <1>10 DEF ConnFails, ConnCancelled, ReadWriterError, Blocked
<1> QED
  BY <1>2, <1>3, <1>4, <1>5, <1>7, <1>8, <1>9, <1>10 DEF Next, RunNext

\* No connection leaves a writer behind that has not been told to stop
\* (client.go:125-132, 310-316).
THEOREM StraysAreToldToStop == Spec => []StraysToldToStop
<1>1. Init => DataTyped /\ StrayInv
  BY TypeInit DEF Init, StrayInv, StraysToldToStop, Active, Phases
<1>2. DataTyped /\ StrayInv /\ [Next]_vars => (DataTyped /\ StrayInv)'
  BY DataStep, StrayStep
<1>3. StrayInv => StraysToldToStop
  BY DEF StrayInv
<1> QED
  BY <1>1, <1>2, <1>3, PTL DEF Spec

-----------------------------------------------------------------------------
(* What the status tells while calls of Configure do not overlap.          *)

\* Run connects with a token only, and who is about to clear the status has
\* cleared the token.
ToldInv ==
  /\ StatusTold
  /\ pc = "install" \/ Active => runToken # NoToken
  /\ \A c \in Callers : step[c] = "cleared" => token = NoToken

LEMMA ToldStep ==
  DataTyped /\ TokenFresh /\ ToldInv /\ Serial' /\ [Next]_vars => ToldInv'
<1> SUFFICES ASSUME DataTyped, TokenFresh, ToldInv, Serial', [Next]_vars
             PROVE  ToldInv'
  OBVIOUS
<1> USE DEF DataTyped, ClientTyped, WritersTyped, ConnOK, ToldInv, StatusTold,
       Active, Phases
<1>1. ASSUME NEW c \in Callers, NEW t \in Tokens \cup {NoToken}, ConfigureSet(c, t)
      PROVE  ToldInv'
  <2>1. /\ UNCHANGED <<status, pc, conn, runToken, missed>>
        /\ \A s \in Slots : cancelled[s] => cancelled'[s]
    BY <1>1 DEF ConfigureSet, runVars, history
  <2>2. ASSUME NEW d \in Callers, step'[d] = "cleared" PROVE token' = NoToken
    <3>1. step'[c] = (IF t = NoToken THEN "cleared" ELSE "set") /\ token' = t
      BY <1>1 DEF ConfigureSet, Goto
    <3>2. d = c
      BY <2>2, <3>1 DEF Serial
    <3> QED
      BY <2>2, <3>1, <3>2
  <2> QED
    BY <2>1, <2>2
<1>2. ASSUME NEW c \in Callers, ConfigureStatus(c) PROVE ToldInv'
  <2>1. /\ UNCHANGED <<token, pc, conn, runToken, cancelled, missed>>
        /\ \A d \in Callers : step'[d] = "cleared" => step[d] = "cleared"
    BY <1>2 DEF ConfigureStatus, Goto, runVars, history
  <2>2. CASE step[c] = "set"
    BY <1>2, <2>1, <2>2 DEF ConfigureStatus
  <2>3. CASE step[c] = "cleared"
    <3>1. pc = "reading" => cancelled[conn] \/ missed
      BY <2>3 DEF TokenFresh
    <3> QED
      BY <2>1, <3>1
  <2> QED
    BY <1>2, <2>2, <2>3 DEF ConfigureStatus
<1>3. ASSUME UNCHANGED <<token, status, pc, conn, runToken, cancelled, missed>>,
             \A d \in Callers : step'[d] = "cleared" => step[d] = "cleared"
      PROVE  ToldInv'
  BY <1>3
<1>4. ASSUME NEW c \in Callers,
             \/ ConfigureWake(c) \/ PresenceNotify(c)
             \/ \E p \in Presences : PresenceSet(c, p)
      PROVE  ToldInv'
  BY <1>3, <1>4
  DEF ConfigureWake, PresenceNotify, PresenceSet, Goto, runVars, history
<1>5. CASE Tick \/ Shutdown \/ UNCHANGED vars
  BY <1>3, <1>5 DEF Tick, Shutdown, vars, callVars, runVars, history
<1>6. ASSUME NEW s \in Slots, WriterNext(s) PROVE ToldInv'
  BY <1>3, <1>6, WriterKeeps
<1>7. ASSUME UNCHANGED <<token, step, runToken>>, pc' # "reading",
             pc' = "install" \/ Active' => pc = "install" \/ Active
      PROVE  ToldInv'
  BY <1>7
<1>8. CASE Announce
  BY <1>8 DEF Announce, callVars, runVars
<1>9. CASE RunRead
  BY <1>9 DEF RunRead, callVars
<1>10. CASE \/ RunIdle \/ BackoffWake \/ BackoffElapsed \/ RunStops
            \/ DialOk \/ HelloOk \/ Snapshot \/ IdentifyOk
            \/ \E s \in Slots : RunInstall(s)
  <2>1. UNCHANGED <<token, step, runToken>> /\ pc' # "reading"
        /\ (pc' = "install" \/ Active' => pc = "install" \/ Active)
    BY <1>10
    DEF RunIdle, BackoffWake, BackoffElapsed, RunStops, DialOk, HelloOk,
        Handshake, Snapshot, IdentifyOk, RunInstall, callVars, runVars
  <2> QED
    BY <1>7, <2>1
<1>11. CASE ConnFails \/ ConnCancelled \/ ReadWriterError
  BY <1>7, <1>11
  DEF ConnFails, ConnCancelled, ReadWriterError, ConnReturns, callVars
<1>12. CASE RunClosed
  BY <1>12 DEF RunClosed, AfterClose, callVars
<1> QED
  BY <1>1, <1>2, <1>4, <1>5, <1>6, <1>8, <1>9, <1>10, <1>11, <1>12
  DEF Next, CallerNext, RunNext

\* While calls of Configure do not overlap, the status shows the connection
\* there is (client.go:75-98, 233-240).
THEOREM StatusIsTold == Spec /\ []Serial => []StatusTold
<1>1. Init => ToldInv
  BY DEF Init, ToldInv, StatusTold, Active, Phases
<1>2. ToldInv => StatusTold
  BY DEF ToldInv
<1>3. Init => DataTyped
  BY TypeInit
<1> QED
  BY <1>1, <1>2, <1>3, DataStep, ToldStep, TokenStaysFresh, PTL DEF Spec

-----------------------------------------------------------------------------
(* The wake-up of an idle Run.                                             *)

LEMMA WakeStep == DataTyped /\ WakeNotLost /\ [Next]_vars => WakeNotLost'
<1> SUFFICES ASSUME DataTyped /\ WakeNotLost, [Next]_vars PROVE WakeNotLost'
  OBVIOUS
<1> USE DEF DataTyped, ClientTyped, WakeNotLost
<1>1. ASSUME NEW c \in Callers, NEW t \in Tokens \cup {NoToken}, ConfigureSet(c, t)
      PROVE  WakeNotLost'
  BY <1>1 DEF ConfigureSet, CancelledBy, Goto, callVars, chanVars, runVars,
       writerVars, history
<1>2. ASSUME NEW c \in Callers, ConfigureStatus(c)
      PROVE  WakeNotLost'
  BY <1>2 DEF ConfigureStatus, Goto, callVars, chanVars, runVars, writerVars,
       history
<1>3. ASSUME NEW c \in Callers, ConfigureWake(c)
      PROVE  WakeNotLost'
  BY <1>3 DEF ConfigureWake, Goto, callVars, chanVars, runVars, writerVars,
       history
<1>4. ASSUME NEW c \in Callers, NEW p \in Presences, PresenceSet(c, p)
      PROVE  WakeNotLost'
  BY <1>4 DEF PresenceSet, Goto, callVars, chanVars, runVars, writerVars,
       history
<1>5. ASSUME NEW c \in Callers, PresenceNotify(c)
      PROVE  WakeNotLost'
  BY <1>5 DEF PresenceNotify, Goto, callVars, chanVars, runVars, writerVars,
       history
<1>6. CASE RunRead
  BY <1>6 DEF RunRead, callVars, chanVars, runVars, writerVars, history
<1>7. CASE RunIdle
  BY <1>7 DEF RunIdle, callVars, chanVars, runVars, writerVars, history
<1>8. ASSUME NEW s \in Slots, RunInstall(s) PROVE WakeNotLost'
  BY <1>8 DEF RunInstall, callVars, chanVars, runVars, writerVars, history
<1>9. CASE DialOk
  BY <1>9 DEF DialOk, Handshake, callVars, chanVars, runVars, writerVars,
       history
<1>10. CASE HelloOk
  BY <1>10 DEF HelloOk, Handshake, callVars, chanVars, runVars, writerVars,
       history
<1>11. CASE Snapshot
  BY <1>11 DEF Snapshot, callVars, chanVars, runVars, writerVars, history
<1>12. CASE IdentifyOk
  BY <1>12 DEF IdentifyOk, callVars, chanVars, runVars, writerVars, history
<1>13. CASE Announce
  BY <1>13 DEF Announce, callVars, chanVars, runVars, writerVars, history
<1>14. CASE ConnFails
  BY <1>14 DEF ConnFails, ConnReturns, Blocked, callVars, chanVars, runVars,
       writerVars, history
<1>15. CASE ConnCancelled
  BY <1>15 DEF ConnCancelled, ConnReturns, Blocked, callVars, chanVars,
       runVars, writerVars, history
<1>16. CASE ReadWriterError
  BY <1>16 DEF ReadWriterError, ConnReturns, callVars, chanVars, runVars,
       writerVars, history
<1>17. CASE RunClosed
  BY <1>17 DEF RunClosed, ClosedStatus, AfterClose, callVars, chanVars,
       runVars, writerVars, history
<1>18. CASE BackoffWake
  BY <1>18 DEF BackoffWake, callVars, chanVars, runVars, writerVars, history
<1>19. CASE BackoffElapsed
  BY <1>19 DEF BackoffElapsed, callVars, chanVars, runVars, writerVars, history
<1>20. CASE RunStops
  BY <1>20 DEF RunStops, callVars, chanVars, runVars, writerVars, history
<1>21. ASSUME NEW s \in Slots, WriterStops(s) PROVE WakeNotLost'
  BY <1>21 DEF WriterStops, NoWriter, callVars, chanVars, runVars, writerVars,
       history
<1>22. ASSUME NEW s \in Slots, WriterNotified(s) PROVE WakeNotLost'
  BY <1>22 DEF WriterNotified, callVars, chanVars, runVars, writerVars, history
<1>23. ASSUME NEW s \in Slots, WriterTimer(s) PROVE WakeNotLost'
  BY <1>23 DEF WriterTimer, callVars, chanVars, runVars, writerVars, history
<1>24. ASSUME NEW s \in Slots, WriterLoad(s) PROVE WakeNotLost'
  BY <1>24 DEF WriterLoad, TimerSet, callVars, chanVars, runVars, writerVars,
       history
<1>25. ASSUME NEW s \in Slots, WriterSent(s) PROVE WakeNotLost'
  BY <1>25 DEF WriterSent, Open, callVars, chanVars, runVars, writerVars,
       history
<1>26. ASSUME NEW s \in Slots, WriterSendFails(s) PROVE WakeNotLost'
  BY <1>26 DEF WriterSendFails, NoWriter, Open, callVars, chanVars, runVars,
       writerVars, history
<1>27. CASE Tick
  BY <1>27 DEF Tick, callVars, chanVars, runVars, writerVars, history
<1>28. CASE Shutdown
  BY <1>28 DEF Shutdown, callVars, chanVars, runVars, writerVars, history
<1>29. CASE UNCHANGED vars
  BY <1>29 DEF vars, callVars, chanVars, runVars, writerVars, history
<1>30. QED
  BY <1>1, <1>2, <1>3, <1>4, <1>5, <1>6, <1>7, <1>8, <1>9, <1>10, <1>11, <1>12,
       <1>13, <1>14, <1>15, <1>16, <1>17, <1>18, <1>19, <1>20, <1>21, <1>22,
       <1>23, <1>24, <1>25, <1>26, <1>27, <1>28, <1>29
  DEF Next, CallerNext, RunNext, WriterNext

\* Run never waits for a wake-up that will not come while there is a token to
\* connect with (client.go:97, 117-123).
THEOREM WakeIsNotLost == Spec => []WakeNotLost
<1>1. Init => DataTyped /\ WakeNotLost
  BY TypeInit DEF Init, WakeNotLost
<1>2. DataTyped /\ WakeNotLost /\ [Next]_vars => (DataTyped /\ WakeNotLost)'
  BY DataStep, WakeStep
<1> QED
  BY <1>1, <1>2, PTL DEF Spec

-----------------------------------------------------------------------------
(* The presence on its way.  UpdateNotLost is not inductive: what the writer *)
(* holds between its steps, and what the identify carries before there is a *)
(* writer, must be accounted for as well.                                   *)

\* Before the identify is written this connection has no writer.
NoWriterYet ==
  pc \in {"dial", "hello", "snapshot", "identify"} => wpc[conn] = "none"

\* What the identify carries is the desired presence or a change is coming.
IdentifyFresh == pc = "identify" => lastSent[conn] = desired \/ Dirty

\* The writer's lastSent is what Discord has.
SentShown ==
  (pc \in {"announce", "reading"} /\ wpc[conn] # "none") => shown = lastSent[conn]

\* A writer at rest, or in the middle of a write, has the desired presence,
\* or its timer or a notification will make it look again.
RestFresh ==
  (pc \in {"announce", "reading"} /\ wpc[conn] = "select")
    => lastSent[conn] = desired \/ armed[conn] \/ Dirty
WriteFresh ==
  (pc \in {"announce", "reading"} /\ wpc[conn] = "send")
    => sending[conn] = desired \/ Dirty

UpdateInv ==
  NoWriterYet /\ IdentifyFresh /\ SentShown /\ RestFresh /\ WriteFresh

LEMMA UpdateStep == DataTyped /\ UpdateInv /\ [Next]_vars => UpdateInv'
<1> SUFFICES ASSUME DataTyped /\ UpdateInv, [Next]_vars PROVE UpdateInv'
  OBVIOUS
<1> USE DEF DataTyped, ClientTyped, RunTyped, WritersTyped, ConnOK, Active, Phases,
       UpdateInv, NoWriterYet, IdentifyFresh, SentShown, RestFresh, WriteFresh,
       Dirty
<1>1. ASSUME NEW c \in Callers, NEW t \in Tokens \cup {NoToken}, ConfigureSet(c, t)
      PROVE  UpdateInv'
  BY <1>1 DEF ConfigureSet, CancelledBy, Goto, callVars, chanVars, runVars,
       writerVars, history
<1>2. ASSUME NEW c \in Callers, ConfigureStatus(c)
      PROVE  UpdateInv'
  BY <1>2 DEF ConfigureStatus, Goto, callVars, chanVars, runVars, writerVars,
       history
<1>3. ASSUME NEW c \in Callers, ConfigureWake(c)
      PROVE  UpdateInv'
  BY <1>3 DEF ConfigureWake, Goto, callVars, chanVars, runVars, writerVars,
       history
<1>4. ASSUME NEW c \in Callers, NEW p \in Presences, PresenceSet(c, p)
      PROVE  UpdateInv'
  BY <1>4 DEF PresenceSet, Goto, callVars, chanVars, runVars, writerVars,
       history
<1>5. ASSUME NEW c \in Callers, PresenceNotify(c)
      PROVE  UpdateInv'
  BY <1>5 DEF PresenceNotify, Goto, callVars, chanVars, runVars, writerVars,
       history
<1>6. CASE RunRead
  BY <1>6 DEF RunRead, callVars, chanVars, runVars, writerVars, history
<1>7. CASE RunIdle
  BY <1>7 DEF RunIdle, callVars, chanVars, runVars, writerVars, history
<1>8. ASSUME NEW s \in Slots, RunInstall(s) PROVE UpdateInv'
  BY <1>8 DEF RunInstall, callVars, chanVars, runVars, writerVars, history
<1>9. CASE DialOk
  BY <1>9 DEF DialOk, Handshake, callVars, chanVars, runVars, writerVars,
       history
<1>10. CASE HelloOk
  BY <1>10 DEF HelloOk, Handshake, callVars, chanVars, runVars, writerVars,
       history
<1>11. CASE Snapshot
  BY <1>11 DEF Snapshot, callVars, chanVars, runVars, writerVars, history
<1>12. CASE IdentifyOk
  BY <1>12 DEF IdentifyOk, callVars, chanVars, runVars, writerVars, history
<1>13. CASE Announce
  BY <1>13 DEF Announce, callVars, chanVars, runVars, writerVars, history
<1>14. CASE ConnFails
  BY <1>14 DEF ConnFails, ConnReturns, Blocked, callVars, chanVars, runVars,
       writerVars, history
<1>15. CASE ConnCancelled
  BY <1>15 DEF ConnCancelled, ConnReturns, Blocked, callVars, chanVars,
       runVars, writerVars, history
<1>16. CASE ReadWriterError
  BY <1>16 DEF ReadWriterError, ConnReturns, callVars, chanVars, runVars,
       writerVars, history
<1>17. CASE RunClosed
  BY <1>17 DEF RunClosed, ClosedStatus, AfterClose, callVars, chanVars,
       runVars, writerVars, history
<1>18. CASE BackoffWake
  BY <1>18 DEF BackoffWake, callVars, chanVars, runVars, writerVars, history
<1>19. CASE BackoffElapsed
  BY <1>19 DEF BackoffElapsed, callVars, chanVars, runVars, writerVars, history
<1>20. CASE RunStops
  BY <1>20 DEF RunStops, callVars, chanVars, runVars, writerVars, history
<1>21. ASSUME NEW s \in Slots, WriterStops(s) PROVE UpdateInv'
  BY <1>21 DEF WriterStops, NoWriter, callVars, chanVars, runVars, writerVars,
       history
<1>22. ASSUME NEW s \in Slots, WriterNotified(s) PROVE UpdateInv'
  BY <1>22 DEF WriterNotified, callVars, chanVars, runVars, writerVars, history
<1>23. ASSUME NEW s \in Slots, WriterTimer(s) PROVE UpdateInv'
  BY <1>23 DEF WriterTimer, callVars, chanVars, runVars, writerVars, history
<1>24. ASSUME NEW s \in Slots, WriterLoad(s) PROVE UpdateInv'
  BY <1>24 DEF WriterLoad, TimerSet, callVars, chanVars, runVars, writerVars,
       history
<1>25. ASSUME NEW s \in Slots, WriterSent(s) PROVE UpdateInv'
  BY <1>25 DEF WriterSent, Open, callVars, chanVars, runVars, writerVars,
       history
<1>26. ASSUME NEW s \in Slots, WriterSendFails(s) PROVE UpdateInv'
  BY <1>26 DEF WriterSendFails, NoWriter, Open, callVars, chanVars, runVars,
       writerVars, history
<1>27. CASE Tick
  BY <1>27 DEF Tick, callVars, chanVars, runVars, writerVars, history
<1>28. CASE Shutdown
  BY <1>28 DEF Shutdown, callVars, chanVars, runVars, writerVars, history
<1>29. CASE UNCHANGED vars
  BY <1>29 DEF vars, callVars, chanVars, runVars, writerVars, history
<1>30. QED
  BY <1>1, <1>2, <1>3, <1>4, <1>5, <1>6, <1>7, <1>8, <1>9, <1>10, <1>11, <1>12,
       <1>13, <1>14, <1>15, <1>16, <1>17, <1>18, <1>19, <1>20, <1>21, <1>22,
       <1>23, <1>24, <1>25, <1>26, <1>27, <1>28, <1>29
  DEF Next, CallerNext, RunNext, WriterNext

\* A change of the desired presence is sent, or will be looked at by the
\* writer, or its notification went to the writer of an older connection
\* (client.go:100-105, 215-233, 310-350).
THEOREM UpdateIsNotLost == Spec => []UpdateNotLost
<1>1. Init => DataTyped /\ UpdateInv
  BY TypeInit DEF Init, UpdateInv, NoWriterYet, IdentifyFresh, SentShown,
     RestFresh, WriteFresh
<1>2. DataTyped /\ UpdateInv /\ [Next]_vars => (DataTyped /\ UpdateInv)'
  BY DataStep, UpdateStep
<1>3. UpdateInv => UpdateNotLost
  BY DEF UpdateInv, SentShown, RestFresh, UpdateNotLost
<1> QED
  BY <1>1, <1>2, <1>3, PTL DEF Spec

-----------------------------------------------------------------------------
(* The client implements the feed.  What is on its way must be a presence;  *)
(* that the client rests only when it may is UpdateNotLost.                 *)

HeldReal ==
  /\ pc = "identify" => lastSent[conn] \in Presences
  /\ (pc \in {"announce", "reading"} /\ wpc[conn] = "send")
       => sending[conn] \in Presences

\* An action that leaves the presences and this connection alone.
LEMMA HeldSame ==
  ASSUME HeldReal, UNCHANGED <<pc, conn, lastSent, sending, wpc>>
  PROVE  HeldReal'
BY DEF HeldReal

LEMMA HeldStep == DataTyped /\ UpdateInv /\ HeldReal /\ [Next]_vars => HeldReal'
<1> SUFFICES ASSUME DataTyped, UpdateInv, HeldReal, [Next]_vars PROVE HeldReal'
  OBVIOUS
<1>1. CASE \E c \in Callers : CallerNext(c)
  BY <1>1, HeldSame
  DEF CallerNext, ConfigureSet, ConfigureStatus, ConfigureWake, PresenceSet,
      PresenceNotify, runVars, writerVars
<1>2. CASE Tick \/ Shutdown \/ UNCHANGED vars
  BY <1>2, HeldSame DEF Tick, Shutdown, vars, runVars, writerVars
<1>3. CASE Snapshot
  <2>1. lastSent'[conn] = desired /\ conn' = conn /\ pc' = "identify"
    BY <1>3
    DEF Snapshot, DataTyped, WritersTyped, ConnOK, Active, Phases
  <2> QED
    BY <2>1 DEF HeldReal, DataTyped, ClientTyped
<1>4. CASE IdentifyOk
  <2>1. wpc'[conn] = "select" /\ conn' = conn /\ pc' = "announce"
    BY <1>4
    DEF IdentifyOk, DataTyped, WritersTyped, ConnOK, Active, Phases
  <2> QED
    BY <2>1 DEF HeldReal
<1>5. CASE Announce
  BY <1>5 DEF Announce, HeldReal, writerVars
<1>6. CASE RunNext /\ pc' \notin {"identify", "announce", "reading"}
  BY <1>6 DEF HeldReal
<1>7. CASE RunNext
  <2>1. \/ Snapshot \/ IdentifyOk \/ Announce
        \/ pc' \notin {"identify", "announce", "reading"}
    BY <1>7
    DEF RunNext, RunRead, RunIdle, RunInstall, DialOk, HelloOk, Handshake,
        ConnFails, ConnCancelled, ReadWriterError, ConnReturns, RunClosed,
        AfterClose, BackoffWake, BackoffElapsed, RunStops
  <2> QED
    BY <1>3, <1>4, <1>5, <1>6, <1>7, <2>1
<1>8. ASSUME NEW s \in Slots, WriterNext(s) PROVE HeldReal'
  <2> USE DEF DataTyped, ClientTyped, WritersTyped, HeldReal, UpdateInv, NoWriterYet
  <2>1. pc' = pc /\ conn' = conn
    BY <1>8
    DEF WriterNext, WriterStops, WriterNotified, WriterTimer, WriterLoad,
        WriterSent, WriterSendFails, runVars
  <2>2. CASE s # conn
    <3>1. pc \in {"identify", "announce", "reading"}
            => /\ lastSent'[conn] = lastSent[conn]
               /\ sending'[conn] = sending[conn]
               /\ wpc'[conn] = wpc[conn]
      BY <1>8, <2>2
      DEF ConnOK, Active, Phases, WriterNext, WriterStops, WriterNotified, WriterTimer, WriterLoad,
          WriterSent, WriterSendFails, NoWriter
    <3> QED
      BY <2>1, <3>1
  <2>3. CASE s = conn
    <3>1. pc # "identify"
      BY <1>8, <2>3
      DEF WriterNext, WriterStops, WriterNotified, WriterTimer, WriterLoad,
          WriterSent, WriterSendFails
    <3>2. CASE WriterLoad(s)
      <4>1. wpc'[s] = "send" => sending'[s] = desired
        BY <3>2 DEF WriterLoad
      <4> QED
        BY <2>1, <2>3, <3>1, <4>1
    <3>3. CASE ~WriterLoad(s)
      <4>1. wpc'[s] # "send"
        BY <1>8, <3>3
        DEF WriterNext, WriterStops, WriterNotified, WriterTimer, WriterSent,
            WriterSendFails, NoWriter
      <4> QED
        BY <2>1, <2>3, <3>1, <4>1
    <3> QED
      BY <3>2, <3>3
  <2> QED
    BY <2>2, <2>3
<1> QED
  BY <1>1, <1>2, <1>7, <1>8 DEF Next

\* After a step the client rests only with the desired presence shown.
LEMMA RestsRight ==
  ASSUME UpdateInv'
  PROVE  AtRest' \in BOOLEAN /\ (AtRest' => shown' = desired')
BY DEF AtRest, UpdateInv, SentShown, RestFresh

\* Nothing but the feed's turn has happened when the presences stay.
LEMMA FeedTurns ==
  ASSUME UpdateInv', UNCHANGED <<desired, shown, Taken>>
  PROVE  Feed!Next
BY RestsRight DEF Feed!Next, Feed!Turn, Feed!MayRest

\* A step of a caller.
LEMMA FeedCaller ==
  ASSUME DataTyped, UpdateInv', NEW c \in Callers, CallerNext(c)
  PROVE  Feed!Next
<1>1. Taken' = Taken /\ shown' = shown
  BY DEF CallerNext, ConfigureSet, ConfigureStatus, ConfigureWake, PresenceSet,
     PresenceNotify, runVars, writerVars, Taken
<1>2. CASE UNCHANGED desired
  BY <1>1, <1>2, FeedTurns
<1>3. ASSUME NEW p \in Presences, PresenceSet(c, p) PROVE Feed!Next
  <2>1. desired' \in Presences /\ step'[c] = "notify"
    BY <1>3 DEF PresenceSet, Goto, DataTyped, ClientTyped
  <2>2. AtRest' = FALSE
    BY <2>1 DEF AtRest, Dirty
  <2> QED
    BY <1>1, <2>1, <2>2 DEF Feed!Next, Feed!Ask
<1> QED
  BY <1>2, <1>3
  DEF CallerNext, ConfigureSet, ConfigureStatus, ConfigureWake, PresenceNotify,
      callVars

\* A step of Run.
LEMMA FeedRun ==
  ASSUME DataTyped, UpdateInv, HeldReal, UpdateInv', RunNext
  PROVE  Feed!Next
<1>1. desired' = desired
  BY DEF RunNext, RunRead, RunIdle, RunInstall, DialOk, HelloOk, Handshake,
     Snapshot, IdentifyOk, Announce, ConnFails, ConnCancelled, ReadWriterError,
     ConnReturns, RunClosed, BackoffWake, BackoffElapsed, RunStops, callVars
<1>2. CASE Snapshot
  <2>1. Taken = NoPresence /\ Taken' = desired
    BY <1>2
    DEF Snapshot, Taken, DataTyped, WritersTyped, ConnOK, Active, Phases
  <2>2. shown' = shown /\ AtRest' = FALSE
    BY <1>2 DEF Snapshot, AtRest
  <2> QED
    BY <1>1, <2>1, <2>2 DEF Feed!Next, Feed!Take
<1>3. CASE IdentifyOk
  <2>1. Taken # NoPresence /\ Taken = lastSent[conn]
    BY <1>3, GatewayAssumption DEF IdentifyOk, Taken, HeldReal
  <2>2. Taken' = NoPresence /\ shown' = lastSent[conn]
    BY <1>3
    DEF IdentifyOk, Taken, DataTyped, WritersTyped, ConnOK, Active, Phases
  <2> QED
    BY <1>1, <2>1, <2>2, RestsRight DEF Feed!Next, Feed!Deliver, Feed!MayRest
<1>4. ASSUME NEW r \in {"failed", "canceled"}, ConnReturns(r) PROVE Feed!Next
  <2>1. Taken' = NoPresence /\ shown' = NoPresence /\ AtRest' = FALSE
    BY <1>4 DEF ConnReturns, Taken, AtRest
  <2> QED
    BY <1>1, <2>1 DEF Feed!Next, Feed!Lose
<1>5. CASE UNCHANGED <<shown, Taken>>
  BY <1>1, <1>5, FeedTurns
<1>6. CASE Announce
  BY <1>5, <1>6 DEF Announce, Taken, writerVars
<1>7. CASE \/ RunRead \/ RunIdle \/ \E s \in Slots : RunInstall(s)
           \/ DialOk \/ HelloOk \/ RunClosed
           \/ BackoffWake \/ BackoffElapsed \/ RunStops
  <2>1. /\ pc \notin {"identify", "announce", "reading"}
        /\ pc' \notin {"identify", "announce", "reading"}
        /\ shown' = shown
    BY <1>7
    DEF RunRead, RunIdle, RunInstall, DialOk, HelloOk, Handshake, RunClosed,
        AfterClose, BackoffWake, BackoffElapsed, RunStops
  <2> QED
    BY <1>5, <2>1 DEF Taken
<1> QED
  BY <1>2, <1>3, <1>4, <1>6, <1>7
  DEF RunNext, ConnFails, ConnCancelled, ReadWriterError

\* A step of the writer of connection s.
LEMMA FeedWriter ==
  ASSUME DataTyped, UpdateInv, HeldReal, UpdateInv', NEW s \in Slots,
         WriterNext(s)
  PROVE  Feed!Next
<1> USE DEF DataTyped, WritersTyped
<1>1. pc' = pc /\ conn' = conn /\ desired' = desired
  BY DEF WriterNext, WriterStops, WriterNotified, WriterTimer, WriterLoad,
     WriterSent, WriterSendFails, runVars, callVars
<1>2. CASE UNCHANGED <<shown, Taken>>
  BY <1>1, <1>2, FeedTurns
<1>3. CASE ~Open(s)
  <2>1. shown' = shown
    BY <1>3
    DEF WriterNext, WriterStops, WriterNotified, WriterTimer, WriterLoad,
        WriterSent, WriterSendFails
  <2>2. s = conn => pc # "identify"
    BY DEF UpdateInv, NoWriterYet, WriterNext, WriterStops, WriterNotified,
       WriterTimer, WriterLoad, WriterSent, WriterSendFails
  <2>3. (s # conn /\ pc \in {"identify", "announce", "reading"})
          => /\ lastSent'[conn] = lastSent[conn]
             /\ sending'[conn] = sending[conn]
             /\ wpc'[conn] = wpc[conn]
    BY DEF ConnOK, Active, Phases, WriterNext, WriterStops, WriterNotified, WriterTimer, WriterLoad,
       WriterSent, WriterSendFails, NoWriter
  <2>4. Taken' = Taken
    BY <1>1, <1>3, <2>2, <2>3 DEF Taken, Open
  <2> QED
    BY <1>2, <2>1, <2>4
<1>4. CASE Open(s)
  <2>0. s = conn /\ pc \in {"announce", "reading"}
    BY <1>4 DEF Open
  <2>1. CASE WriterSent(s)
    <3>1. Taken = sending[s] /\ Taken # NoPresence
      BY <2>0, <2>1, GatewayAssumption DEF WriterSent, Taken, HeldReal
    <3>2. Taken' = NoPresence /\ shown' = sending[s]
      BY <1>1, <2>0, <2>1 DEF WriterSent, Taken
    <3> QED
      BY <1>1, <3>1, <3>2, RestsRight DEF Feed!Next, Feed!Deliver, Feed!MayRest
  <2>2. CASE WriterSendFails(s)
    <3>1. Taken' = NoPresence /\ shown' = shown /\ AtRest' = FALSE
      BY <1>1, <2>0, <2>2 DEF WriterSendFails, NoWriter, Taken, AtRest
    <3> QED
      BY <1>1, <3>1 DEF Feed!Next, Feed!Lose
  <2>3. CASE WriterLoad(s) /\ wpc'[s] = "send"
    <3>1. Taken = NoPresence
      BY <2>0, <2>3 DEF WriterLoad, Taken
    <3>2. Taken' = desired /\ AtRest' = FALSE /\ shown' = shown
      BY <1>1, <2>0, <2>3 DEF WriterLoad, Taken, AtRest
    <3> QED
      BY <1>1, <3>1, <3>2 DEF Feed!Next, Feed!Take
  <2>4. CASE \/ WriterStops(s) \/ WriterNotified(s) \/ WriterTimer(s)
             \/ WriterLoad(s) /\ wpc'[s] # "send"
    <3>1. wpc[s] # "send" /\ wpc'[s] # "send" /\ shown' = shown
      BY <2>4
      DEF WriterStops, WriterNotified, WriterTimer, WriterLoad, NoWriter
    <3>2. Taken' = Taken
      BY <1>1, <2>0, <3>1 DEF Taken
    <3> QED
      BY <1>2, <3>1, <3>2
  <2> QED
    BY <2>1, <2>2, <2>3, <2>4 DEF WriterNext
<1> QED
  BY <1>3, <1>4

LEMMA FeedStep ==
  ASSUME DataTyped, UpdateInv, HeldReal, UpdateInv', [Next]_vars
  PROVE  [Feed!Next]_Feed!vars
<1>1. CASE Tick \/ Shutdown \/ UNCHANGED vars
  <2>1. UNCHANGED <<desired, shown, Taken>>
    BY <1>1
    DEF Tick, Shutdown, vars, callVars, runVars, writerVars, Taken
  <2> QED
    BY <2>1, FeedTurns
<1> QED
  BY <1>1, FeedCaller, FeedRun, FeedWriter DEF Next

\* The client implements the feed, whatever the callers, the network, and the
\* writers of earlier connections do (client.go:100-105, 215-233, 306-352).
THEOREM ClientImplementsFeed == Spec => ImplementsFeed
<1>1. Init => DataTyped /\ UpdateInv /\ HeldReal
  BY TypeInit DEF Init, UpdateInv, NoWriterYet, IdentifyFresh, SentShown,
     RestFresh, WriteFresh, HeldReal
<1>2. DataTyped /\ UpdateInv /\ HeldReal /\ [Next]_vars
        => (DataTyped /\ UpdateInv /\ HeldReal)'
  BY DataStep, UpdateStep, HeldStep
<1>3. Init => Feed!Init
  BY DEF Init, Feed!Init, Taken, AtRest
<1>4. DataTyped /\ UpdateInv /\ HeldReal /\ UpdateInv' /\ [Next]_vars
        => [Feed!Next]_Feed!vars
  BY FeedStep
<1> QED
  BY <1>1, <1>2, <1>3, <1>4, PTL DEF Spec, ImplementsFeed, Feed!Spec
=============================================================================
