-------------------------- MODULE HeartbeatProofs --------------------------
(***************************************************************************)
(* Heartbeat for every bound: its types, that a connection is only given   *)
(* up after MaxMissed silent intervals in a row (CloseJustified), and that *)
(* a heartbeat never carries a number the gateway has not used (SeqReal).  *)
(* DetectedInTime, the other side of CloseJustified, rests on SilentInv.   *)
(* CloseJustified rests on CountInv, which relates missedHeartbeats, as    *)
(* heartbeatLoop counts it from acked, to the silent intervals there       *)
(* really were.  SeqReal rests on NumberInv, which follows a number from   *)
(* the gateway through the messages and the two atomics.                   *)
(***************************************************************************)
EXTENDS Heartbeat, TLAPS

\* missedHeartbeats counts no more than the silent intervals: an ack that came
\* in time is seen in acked.  One that came between the store and the send may
\* be taken for one that came in time, which only lowers the count.
CountInv ==
  /\ loop # "check" => missed <= late
  /\ loop = "check" => (acked \/ missed + 1 <= late)
  /\ loop = "wait" => (heard => acked)
  /\ loop # "exit" => missed < MaxMissed
  /\ gaveUp => (loop = "exit" /\ late = MaxMissed)

\* How many heartbeats may be unanswered where the loop is: one more than it
\* has counted, or two once the next is sent.  An ack seen in acked while the
\* loop waits may be for the heartbeat before the last.
SilentInv ==
  /\ loop \in {"wait", "check"} => silent <= missed + 2
  /\ (loop \in {"wait", "check"} /\ acked) => silent <= 1
  /\ loop \in {"store", "hasSeq", "seq", "send"} => silent <= missed + 1
  /\ (loop \in {"hasSeq", "seq", "send"} /\ acked) => silent = 0
  /\ silent <= MaxMissed + 1

\* The numbers the gateway has used.
Used == 1 .. srvSeq

\* Where a number is on its way, it has been used; hasSeq promises one in seq.
NumberInv ==
  /\ \A i \in 1 .. Len(inbox) : inbox[i].s \in Used \cup {0}
  /\ msg.s \in Used \cup {0}
  /\ reader = "seq" => msg.s \in Used
  /\ reader = "hasSeq" => seq \in Used
  /\ hasSeq => seq \in Used
  /\ loop = "seq" => hasSeq
  /\ val \in Used \cup {Nil}
  /\ beat \in Used \cup {Nil}

-----------------------------------------------------------------------------

LEMMA TypeInit == Init => TypeOK
<1> SUFFICES ASSUME Init PROVE TypeOK
  OBVIOUS
<1>1. msg \in Messages
  BY HeartbeatAssumption DEF Init, Message, Messages, Ops
<1>2. inbox \in Seq(Messages)
  BY DEF Init
<1>3. seq \in 0 .. MaxSeq /\ srvSeq \in 0 .. MaxSeq /\ unacked \in 0 .. MaxUnacked
      /\ missed \in 0 .. MaxMissed /\ late \in 0 .. MaxMissed
      /\ silent \in 0 .. MaxSilent
  BY HeartbeatAssumption DEF Init, MaxSilent
<1> QED
  BY <1>1, <1>2, <1>3 DEF Init, TypeOK

\* What heartbeatLoop does keeps the types.
LEMMA LoopTyped == TypeOK /\ CountInv /\ LoopNext => TypeOK'
<1> SUFFICES ASSUME TypeOK, CountInv, LoopNext PROVE TypeOK'
  OBVIOUS
<1> USE HeartbeatAssumption
    DEF TypeOK, loopVars, readerVars, atomics, gateway, history, MaxSilent
<1>1. CASE TimerFires
  BY <1>1 DEF TimerFires
<1>2. CASE LoopChecks
  BY <1>2 DEF LoopChecks, CountInv
<1>3. CASE LoopStores
  BY <1>3 DEF LoopStores
<1>4. CASE LoopHasSeq
  BY <1>4 DEF LoopHasSeq
<1>5. CASE LoopSeq
  BY <1>5 DEF LoopSeq
<1>6. CASE LoopSends
  <2>1. unacked' \in 0 .. MaxUnacked
    BY <1>6 DEF LoopSends, Delivered
  <2>2. beat' \in Nat \cup {Nil}
    BY <1>6 DEF LoopSends
  <2> QED
    BY <1>6, <2>1, <2>2 DEF LoopSends
<1>7. CASE LoopSendFails \/ LoopCancelled
  BY <1>7 DEF LoopSendFails, LoopCancelled
<1> QED
  BY <1>1, <1>2, <1>3, <1>4, <1>5, <1>6, <1>7 DEF LoopNext

\* A message is typed.
LEMMA MessageTyped ==
  ASSUME NEW o \in Ops, NEW s \in 0 .. MaxSeq
  PROVE  Message(o, s) \in Messages
BY DEF Message, Messages

\* What the read loop does keeps the types.
LEMMA ReaderTyped == TypeOK /\ ReaderNext => TypeOK'
<1> SUFFICES ASSUME TypeOK, ReaderNext PROVE TypeOK'
  OBVIOUS
<1> USE HeartbeatAssumption
    DEF TypeOK, loopVars, readerVars, atomics, gateway, history, MaxSilent
<1>1. CASE ReaderReceives
  <2>1. Head(inbox) \in Messages /\ Tail(inbox) \in Seq(Messages)
    BY <1>1 DEF ReaderReceives
  <2> QED
    BY <1>1, <2>1 DEF ReaderReceives
<1>2. CASE ReaderSeq
  BY <1>2 DEF ReaderSeq, Messages
<1>3. CASE ReaderHasSeq \/ ReaderDispatch
  BY <1>3 DEF ReaderHasSeq, ReaderDispatch
<1>3a. CASE ReaderAck
  <2>1. silent' \in 0 .. MaxSilent
    BY <1>3a DEF ReaderAck
  <2> QED
    BY <1>3a, <2>1 DEF ReaderAck
<1>4. CASE ReaderBeats
  BY <1>4 DEF ReaderBeats, Delivered
<1>5. CASE ReaderGivesUp \/ ReaderFinds \/ ReaderReadFails
  BY <1>5 DEF ReaderGivesUp, ReaderFinds, ReaderReadFails, ReaderLeaves
<1> QED
  BY <1>1, <1>2, <1>3, <1>3a, <1>4, <1>5 DEF ReaderNext

\* What the gateway does keeps the types.
LEMMA GatewayTyped == TypeOK /\ GatewayNext => TypeOK'
<1> SUFFICES ASSUME TypeOK, GatewayNext PROVE TypeOK'
  OBVIOUS
<1> USE HeartbeatAssumption
    DEF TypeOK, loopVars, readerVars, atomics, gateway, history, Post
<1>1. CASE GatewayAcks
  <2>1. Message("ack", 0) \in Messages
    BY MessageTyped DEF Ops
  <2>2. inbox' \in Seq(Messages)
    BY <1>1, <2>1 DEF GatewayAcks
  <2> QED
    BY <1>1, <2>2 DEF GatewayAcks
<1>2. CASE GatewayDispatches
  <2>1. srvSeq' \in 0 .. MaxSeq
    BY <1>2 DEF GatewayDispatches
  <2>2. Message("dispatch", srvSeq') \in Messages
    BY <2>1, MessageTyped DEF Ops
  <2>3. inbox' \in Seq(Messages)
    BY <1>2, <2>2 DEF GatewayDispatches
  <2> QED
    BY <1>2, <2>1, <2>3 DEF GatewayDispatches
<1>3. CASE GatewayAsks
  <2>1. PICK o \in {"beat", "leave"} : inbox' = Append(inbox, Message(o, 0))
    BY <1>3 DEF GatewayAsks
  <2>2. Message(o, 0) \in Messages
    BY MessageTyped DEF Ops
  <2>3. inbox' \in Seq(Messages)
    BY <2>1, <2>2
  <2> QED
    BY <1>3, <2>3 DEF GatewayAsks
<1> QED
  BY <1>1, <1>2, <1>3 DEF GatewayNext

-----------------------------------------------------------------------------

LEMMA CountInit == Init => CountInv
BY HeartbeatAssumption DEF Init, CountInv, heard

\* The count stays right: only heartbeatLoop counts, and only the read loop
\* and heartbeatLoop touch acked and heard.
LEMMA CountStep == TypeOK /\ CountInv /\ [Next]_vars => CountInv'
<1> SUFFICES ASSUME TypeOK, CountInv, [Next]_vars PROVE CountInv'
  OBVIOUS
<1> USE HeartbeatAssumption
    DEF loopVars, readerVars, atomics, gateway, history
<1>0. missed \in Nat /\ late \in 0 .. MaxMissed /\ MaxMissed \in Nat \ {0}
  BY DEF TypeOK
<1>1. CASE TimerFires
  <2>1. loop = "wait" /\ loop' = "check" /\ missed' = missed /\ acked' = acked
    BY <1>1 DEF TimerFires
  <2>2. CASE heard
    BY <1>1, <2>1, <2>2 DEF TimerFires, CountInv, heard
  <2>3. CASE ~heard
    <3>1. late' = IF late < MaxMissed THEN late + 1 ELSE late
      BY <1>1, <2>3 DEF TimerFires
    <3>2. missed <= late /\ missed < MaxMissed
      BY <2>1 DEF CountInv
    <3>3. missed' + 1 <= late'
      BY <1>0, <2>1, <3>1, <3>2
    <3> QED
      BY <1>1, <2>1, <3>2, <3>3 DEF TimerFires, CountInv, heard
  <2> QED
    BY <2>2, <2>3
<1>2. CASE LoopChecks
  <2>1. loop = "check" /\ late' = late /\ loop' \in {"store", "exit"}
    BY <1>2 DEF LoopChecks
  <2>2. CASE acked
    <3>1. missed' = 0 /\ ~gaveUp' /\ loop' = "store"
      BY <1>2, <2>2 DEF LoopChecks
    <3>2. missed' <= late' /\ missed' < MaxMissed
      BY <1>0, <2>1, <3>1
    <3> QED
      BY <3>1, <3>2 DEF CountInv
  <2>3. CASE ~acked
    <3>1. missed' = missed + 1 /\ missed + 1 <= late
      BY <1>2, <2>1, <2>3 DEF LoopChecks, CountInv
    <3>2. gaveUp' => (loop' = "exit" /\ TooMany(missed + 1))
      BY <1>2 DEF LoopChecks
    <3>3. ~gaveUp' => (loop' = "store" /\ ~TooMany(missed + 1))
      BY <1>2, <2>3 DEF LoopChecks
    <3>4. TooMany(missed + 1) => late' = MaxMissed
      BY <1>0, <2>1, <3>1 DEF TooMany
    <3>5. ~TooMany(missed + 1) => missed' < MaxMissed
      BY <1>0, <3>1 DEF TooMany
    <3>6. missed' <= late'
      BY <2>1, <3>1
    <3> QED
      BY <2>1, <3>2, <3>3, <3>4, <3>5, <3>6 DEF CountInv
  <2> QED
    BY <2>2, <2>3
<1>3. CASE LoopStores \/ LoopHasSeq \/ LoopSeq \/ LoopSendFails \/ LoopCancelled
  BY <1>3 DEF LoopStores, LoopHasSeq, LoopSeq, LoopSendFails, LoopCancelled,
     CountInv, heard
<1>4. CASE LoopSends
  <2>1. silent' # 0
    BY <1>4, <1>0 DEF LoopSends, MaxSilent, TypeOK
  <2> QED
    BY <1>4, <2>1 DEF LoopSends, CountInv, heard
<1>5. CASE ReaderNext \/ GatewayNext \/ WriterFails \/ Cancelled \/ UNCHANGED vars
  <2>1. UNCHANGED <<loop, missed, late, gaveUp>>
    BY <1>5 DEF ReaderNext, ReaderReceives, ReaderSeq, ReaderHasSeq, ReaderAck,
       ReaderDispatch, ReaderBeats, ReaderGivesUp, ReaderFinds, ReaderReadFails,
       ReaderLeaves, WriterFails, Cancelled, GatewayNext, GatewayAcks,
       GatewayDispatches, GatewayAsks, vars
  <2>2. UNCHANGED <<acked, silent>> \/ (acked' /\ silent' = 0)
    BY <1>5 DEF ReaderNext, ReaderReceives, ReaderSeq, ReaderHasSeq, ReaderAck,
       ReaderDispatch, ReaderBeats, ReaderGivesUp, ReaderFinds, ReaderReadFails,
       ReaderLeaves, WriterFails, Cancelled, GatewayNext, GatewayAcks,
       GatewayDispatches, GatewayAsks, vars
  <2> QED
    BY <2>1, <2>2 DEF CountInv, heard
<1> QED
  BY <1>1, <1>2, <1>3, <1>4, <1>5 DEF Next, LoopNext

LEMMA TypeStep == TypeOK /\ CountInv /\ [Next]_vars => TypeOK'
<1>1. TypeOK /\ UNCHANGED vars => TypeOK'
  BY DEF vars, TypeOK, loopVars, readerVars, atomics, gateway, history
<1>2. TypeOK /\ WriterFails => TypeOK'
  BY DEF WriterFails, TypeOK, loopVars, atomics, gateway, history
<1>3. TypeOK /\ Cancelled => TypeOK'
  <2> SUFFICES ASSUME TypeOK, Cancelled PROVE TypeOK'
    OBVIOUS
  <2>0. inbox' = <<>> /\ open' = FALSE
    BY DEF Cancelled
  <2>1. inbox' \in Seq(Messages)
    BY <2>0
  <2>2. open' \in BOOLEAN
    BY <2>0
  <2>3. UNCHANGED <<loopVars, readerVars, atomics, unacked, srvSeq, history>>
    BY DEF Cancelled
  <2> QED
    BY <2>1, <2>2, <2>3 DEF TypeOK, loopVars, readerVars, atomics, history, MaxSilent
<1> QED
  BY <1>1, <1>2, <1>3, LoopTyped, ReaderTyped, GatewayTyped DEF Next

LEMMA CountInvariant == Spec => [](TypeOK /\ CountInv)
BY TypeInit, CountInit, TypeStep, CountStep, PTL DEF Spec

\* Every variable keeps its type, missedHeartbeats its bound.
THEOREM HeartbeatTyped == Spec => []TypeOK
BY CountInvariant, PTL

\* The loop gives a connection up only after MaxMissed silent intervals.
THEOREM CloseIsJustified == Spec => []CloseJustified
<1>1. CountInv => CloseJustified
  BY DEF CountInv, CloseJustified
<1> QED
  BY <1>1, CountInvariant, PTL

-----------------------------------------------------------------------------

\* The loop stays ahead of the silence: it counts at every turn that finds no
\* ack, and an ack it finds was handled after the store before the last send.
LEMMA SilentStep == TypeOK /\ CountInv /\ SilentInv /\ [Next]_vars => SilentInv'
<1> SUFFICES ASSUME TypeOK, CountInv, SilentInv, [Next]_vars PROVE SilentInv'
  OBVIOUS
<1> USE DEF loopVars, readerVars, atomics, gateway, history
<1>0. /\ missed \in Nat /\ silent \in Nat /\ MaxMissed \in Nat \ {0}
      /\ acked \in BOOLEAN
      /\ loop # "exit" => missed < MaxMissed
  BY HeartbeatAssumption DEF TypeOK, CountInv, MaxSilent
<1>1. CASE TimerFires
  BY <1>0, <1>1 DEF TimerFires, SilentInv
<1>2. CASE LoopChecks
  <2>1. loop = "check" /\ silent' = silent /\ loop' \in {"store", "exit"}
    BY <1>2 DEF LoopChecks
  <2>2. silent <= missed' + 1
    BY <1>0, <1>2, <2>1 DEF LoopChecks, SilentInv
  <2> QED
    BY <2>1, <2>2 DEF SilentInv
<1>3. CASE LoopStores \/ LoopHasSeq \/ LoopSeq
  BY <1>0, <1>3 DEF LoopStores, LoopHasSeq, LoopSeq, SilentInv
<1>4. CASE LoopSends
  <2>1. silent' = silent + 1
    BY <1>0, <1>4 DEF LoopSends, MaxSilent, SilentInv
  <2>2. loop = "send" /\ loop' = "wait" /\ UNCHANGED <<missed, acked>>
    BY <1>4 DEF LoopSends
  <2> QED
    BY <1>0, <2>1, <2>2 DEF SilentInv
<1>5. CASE LoopSendFails \/ LoopCancelled
  BY <1>0, <1>5 DEF LoopSendFails, LoopCancelled, SilentInv
<1>6. CASE ReaderNext \/ GatewayNext \/ WriterFails \/ Cancelled \/ UNCHANGED vars
  <2>1. UNCHANGED <<loop, missed>>
    BY <1>6 DEF ReaderNext, ReaderReceives, ReaderSeq, ReaderHasSeq, ReaderAck,
       ReaderDispatch, ReaderBeats, ReaderGivesUp, ReaderFinds, ReaderReadFails,
       ReaderLeaves, WriterFails, Cancelled, GatewayNext, GatewayAcks,
       GatewayDispatches, GatewayAsks, vars
  <2>2. UNCHANGED <<acked, silent>> \/ silent' = 0
    BY <1>6 DEF ReaderNext, ReaderReceives, ReaderSeq, ReaderHasSeq, ReaderAck,
       ReaderDispatch, ReaderBeats, ReaderGivesUp, ReaderFinds, ReaderReadFails,
       ReaderLeaves, WriterFails, Cancelled, GatewayNext, GatewayAcks,
       GatewayDispatches, GatewayAsks, vars
  <2> QED
    BY <1>0, <2>1, <2>2 DEF SilentInv
<1> QED
  BY <1>1, <1>2, <1>3, <1>4, <1>5, <1>6 DEF Next, LoopNext

\* No more than MaxMissed + 1 heartbeats go unanswered (client.go:280-300).
THEOREM SilenceIsDetected == Spec => []DetectedInTime
<1>1. Init => SilentInv
  BY HeartbeatAssumption DEF Init, SilentInv
<1>2. SilentInv => DetectedInTime
  BY DEF SilentInv, DetectedInTime
<1> QED
  BY <1>1, <1>2, CountInvariant, SilentStep, PTL DEF Spec

-----------------------------------------------------------------------------

LEMMA NumberInit == Init => NumberInv
BY HeartbeatAssumption DEF Init, NumberInv, Used, Message

\* A number in use stays in use.
LEMMA UsedGrows ==
  ASSUME TypeOK, srvSeq' \in Nat, srvSeq <= srvSeq'
  PROVE  Used \subseteq Used'
BY HeartbeatAssumption DEF TypeOK, Used

\* A new message with a used number or none keeps the messages right.
LEMMA PostStep ==
  ASSUME TypeOK, NumberInv, NEW o \in Ops, NEW n \in Used' \cup {0},
         n \in 0 .. MaxSeq, Used \subseteq Used', Post(o, n)
  PROVE  \A i \in 1 .. Len(inbox') : inbox'[i].s \in Used' \cup {0}
<1> DEFINE m == Message(o, n)
<1>1. m \in Messages /\ m.s = n
  BY MessageTyped DEF Message
<1>2. inbox \in Seq(Messages) /\ inbox' = Append(inbox, m)
  BY DEF TypeOK, Post
<1>3. Len(inbox') = Len(inbox) + 1 /\ inbox'[Len(inbox) + 1] = m
  BY <1>1, <1>2
<1>4. \A i \in 1 .. Len(inbox) : inbox'[i] = inbox[i]
  BY <1>1, <1>2
<1>5. SUFFICES ASSUME NEW i \in 1 .. Len(inbox') PROVE inbox'[i].s \in Used' \cup {0}
  OBVIOUS
<1>6. CASE i = Len(inbox) + 1
  BY <1>1, <1>3, <1>6
<1>7. CASE i # Len(inbox) + 1
  <2>1. i \in 1 .. Len(inbox)
    BY <1>2, <1>3, <1>7
  <2> QED
    BY <1>4, <2>1 DEF NumberInv
<1> QED
  BY <1>6, <1>7

\* The gateway adds messages whose numbers it has used.
LEMMA NumberGateway == TypeOK /\ NumberInv /\ GatewayNext => NumberInv'
<1> SUFFICES ASSUME TypeOK, NumberInv, GatewayNext PROVE NumberInv'
  OBVIOUS
<1> USE DEF loopVars, readerVars, atomics, history
<1>1. srvSeq' \in 0 .. MaxSeq /\ srvSeq <= srvSeq'
  BY HeartbeatAssumption
  DEF TypeOK, GatewayNext, GatewayAcks, GatewayDispatches, GatewayAsks
<1>2. Used \subseteq Used'
  BY <1>1, UsedGrows, HeartbeatAssumption
<1>3. UNCHANGED <<msg, reader, seq, hasSeq, loop, val, beat>>
  BY DEF GatewayNext, GatewayAcks, GatewayDispatches, GatewayAsks
<1>4. \A i \in 1 .. Len(inbox') : inbox'[i].s \in Used' \cup {0}
  <2>0. 0 \in 0 .. MaxSeq
    BY HeartbeatAssumption
  <2>1. CASE GatewayAcks
    <3>1. Post("ack", 0)
      BY <2>1 DEF GatewayAcks
    <3> QED
      BY <1>2, <2>0, <3>1, PostStep DEF Ops
  <2>2. CASE GatewayDispatches
    <3>1. Post("dispatch", srvSeq')
      BY <2>2 DEF GatewayDispatches
    <3>2. srvSeq' \in Used'
      BY <2>2, HeartbeatAssumption DEF GatewayDispatches, Used, TypeOK
    <3> QED
      BY <1>1, <1>2, <3>1, <3>2, PostStep DEF Ops
  <2>3. CASE GatewayAsks
    <3>1. PICK o \in {"beat", "leave"} : Post(o, 0)
      BY <2>3 DEF GatewayAsks
    <3> QED
      BY <1>2, <2>0, <3>1, PostStep DEF Ops
  <2> QED
    BY <2>1, <2>2, <2>3 DEF GatewayNext
<1> QED
  BY <1>2, <1>3, <1>4 DEF NumberInv

\* The read loop moves a number from a message to seq before it sets hasSeq.
LEMMA NumberReader == TypeOK /\ NumberInv /\ ReaderNext => NumberInv'
<1> SUFFICES ASSUME TypeOK, NumberInv, ReaderNext PROVE NumberInv'
  OBVIOUS
<1> USE DEF loopVars, readerVars, atomics, gateway, history
<1>0. Used' = Used
  BY DEF ReaderNext, ReaderReceives, ReaderSeq, ReaderHasSeq, ReaderAck,
     ReaderDispatch, ReaderBeats, ReaderGivesUp, ReaderFinds, ReaderReadFails,
     ReaderLeaves, Used
<1>1. CASE ReaderReceives
  <2>1. inbox \in Seq(Messages) /\ inbox # <<>>
    BY <1>1 DEF ReaderReceives, TypeOK
  <2>2. Len(inbox') = Len(inbox) - 1 /\ Len(inbox) \in Nat \ {0}
    BY <1>1, <2>1 DEF ReaderReceives
  <2>3. \A i \in 1 .. Len(inbox') : inbox'[i] = inbox[i + 1]
    BY <1>1, <2>1 DEF ReaderReceives
  <2>4. \A i \in 1 .. Len(inbox') : inbox'[i].s \in Used \cup {0}
    <3> SUFFICES ASSUME NEW i \in 1 .. Len(inbox')
                 PROVE  inbox'[i].s \in Used \cup {0}
      OBVIOUS
    <3>1. i + 1 \in 1 .. Len(inbox)
      BY <2>2
    <3> QED
      BY <2>3, <3>1 DEF NumberInv
  <2>5. msg' = inbox[1] /\ 1 \in 1 .. Len(inbox)
    BY <1>1, <2>1, <2>2 DEF ReaderReceives
  <2>6. msg'.s \in Used \cup {0}
    BY <2>5 DEF NumberInv
  <2>7. reader' \in {"op", "seq"} /\ (reader' = "seq" => msg'.s \in Used)
    BY <1>1, <2>6 DEF ReaderReceives
  <2>8. UNCHANGED <<seq, hasSeq, loop, val, beat>>
    BY <1>1 DEF ReaderReceives
  <2> QED
    BY <1>0, <2>4, <2>6, <2>7, <2>8 DEF NumberInv
<1>2. CASE ReaderSeq
  BY <1>0, <1>2 DEF ReaderSeq, NumberInv
<1>3. CASE ReaderHasSeq
  BY <1>0, <1>3 DEF ReaderHasSeq, NumberInv
<1>4. CASE ReaderBeats
  BY <1>0, <1>4 DEF ReaderBeats, NumberInv
<1>5. CASE ReaderAck \/ ReaderDispatch \/ ReaderGivesUp \/ ReaderFinds
           \/ ReaderReadFails
  BY <1>0, <1>5 DEF ReaderAck, ReaderDispatch, ReaderGivesUp, ReaderFinds,
     ReaderReadFails, ReaderLeaves, NumberInv
<1> QED
  BY <1>1, <1>2, <1>3, <1>4, <1>5 DEF ReaderNext

\* heartbeatLoop reads seq only after hasSeq, which stays set.
LEMMA NumberLoop == TypeOK /\ NumberInv /\ LoopNext => NumberInv'
<1> SUFFICES ASSUME TypeOK, NumberInv, LoopNext PROVE NumberInv'
  OBVIOUS
<1> USE DEF loopVars, readerVars, atomics, gateway, history
<1>1. UNCHANGED <<srvSeq, inbox, msg, reader, seq, hasSeq>>
  BY DEF LoopNext, TimerFires, LoopChecks, LoopStores, LoopHasSeq, LoopSeq,
     LoopSends, LoopSendFails, LoopCancelled
<1>2. Used' = Used
  BY <1>1 DEF Used
<1>3. beat' \in {beat, val} /\ val' \in {val, Nil, seq}
      /\ (val' # val /\ val' # Nil => loop = "seq") /\ (loop' = "seq" => hasSeq)
  BY DEF LoopNext, TimerFires, LoopChecks, LoopStores, LoopHasSeq, LoopSeq,
     LoopSends, LoopSendFails, LoopCancelled
<1> QED
  BY <1>1, <1>2, <1>3 DEF NumberInv

LEMMA NumberStep == TypeOK /\ NumberInv /\ [Next]_vars => NumberInv'
<1>1. NumberInv /\ (UNCHANGED vars \/ WriterFails \/ Cancelled) => NumberInv'
  BY DEF vars, WriterFails, Cancelled, NumberInv, Used, loopVars, readerVars,
     atomics, gateway, history
<1> QED
  BY <1>1, NumberLoop, NumberReader, NumberGateway DEF Next

\* No heartbeat carries a number the gateway has not used.
THEOREM NumbersAreReal == Spec => []SeqReal
<1>1. NumberInv => SeqReal
  BY DEF NumberInv, SeqReal, Used
<1>2. Spec => []TypeOK
  BY HeartbeatTyped
<1>3. Spec => []NumberInv
  BY <1>2, NumberInit, NumberStep, PTL DEF Spec
<1> QED
  BY <1>1, <1>3, PTL
=============================================================================
