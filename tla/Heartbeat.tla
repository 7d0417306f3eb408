----------------------------- MODULE Heartbeat -----------------------------
(***************************************************************************)
(* The heartbeat of one gateway connection (internal/discord/client.go):   *)
(* heartbeatLoop beats at the interval of the hello and closes a socket    *)
(* whose acknowledgements stay away; runConnection's read loop handles     *)
(* what the gateway sends.  They share three atomics, acked, seq and       *)
(* hasSeq, so every load and store is a step of its own.  The presence     *)
(* writer matters here only when a send of it fails: it leaves the error   *)
(* in errCh, where the read loop looks after every message.                *)
(*                                                                         *)
(* The gateway is the environment: it acknowledges heartbeats when it      *)
(* likes, late or never, in order on the socket; the timer is an action.   *)
(***************************************************************************)
EXTENDS Naturals, Sequences

CONSTANTS
  Nil,        \* a heartbeat without a sequence number
  MaxMissed,  \* maxMissedHeartbeats
  MaxSeq,     \* bound: sequence numbers the gateway uses
  MaxInbox,   \* bound: messages on their way to the client
  MaxUnacked  \* bound: heartbeats the gateway remembers to acknowledge

ASSUME HeartbeatAssumption ==
  /\ Nil \notin Nat
  /\ MaxMissed \in Nat \ {0}
  /\ MaxSeq \in Nat
  /\ MaxInbox \in Nat
  /\ MaxUnacked \in Nat

VARIABLES
  open,     \* the socket is usable: not closed, and its context not cancelled
  loop,     \* where heartbeatLoop is
  missed,   \* missedHeartbeats
  val,      \* the number heartbeatLoop is about to send
  reader,   \* where the read loop is
  msg,      \* the message the read loop handles
  failed,   \* errCh holds the error of presenceWriter, which has returned
  acked, seq, hasSeq,  \* the shared atomics
  inbox,    \* messages on their way to the client
  unacked,  \* heartbeats the gateway got and has not acknowledged
  srvSeq,   \* the last sequence number the gateway used
  beat,     \* the number in the last heartbeat written
  silent,   \* history: heartbeats heartbeatLoop wrote since the last ack was
            \* handled
  late,     \* history: successive intervals that ended without an ack of theirs
  gaveUp    \* history: heartbeatLoop closed the socket for missing acks

loopVars   == <<loop, missed, val>>
readerVars == <<reader, msg, failed>>
atomics    == <<acked, seq, hasSeq>>
gateway    == <<inbox, unacked, srvSeq>>
history    == <<beat, silent, late, gaveUp>>
vars == <<open, loopVars, readerVars, atomics, gateway, history>>

\* An ack was handled since heartbeatLoop last wrote.
heard == silent = 0

\* gatewayPayload: op, and s, which is 0 when absent.
Ops == {"ack", "beat", "dispatch", "leave"}
Message(op, s) == [op |-> op, s |-> s]
Messages == [op : Ops, s : 0 .. MaxSeq]

Init ==
  /\ open = TRUE
  /\ loop = "wait" /\ missed = 0 /\ val = Nil
  /\ reader = "read" /\ msg = Message("dispatch", 0) /\ failed = FALSE
  /\ acked = TRUE /\ seq = 0 /\ hasSeq = FALSE
  /\ inbox = <<>> /\ unacked = 0 /\ srvSeq = 0
  /\ beat = Nil /\ silent = 0 /\ late = 0 /\ gaveUp = FALSE

-----------------------------------------------------------------------------
(* heartbeatLoop.                                                          *)

\* timer.C fires: the interval of the last heartbeat is over.
TimerFires ==
  /\ loop = "wait"
  /\ loop' = "check"
  /\ late' = IF heard THEN 0 ELSE IF late < MaxMissed THEN late + 1 ELSE late
  /\ UNCHANGED <<open, missed, val, readerVars, atomics, gateway, beat, silent,
                 gaveUp>>

\* Mutant of TooMany: one later than intended.
TooManyLater(n) == n > MaxMissed

\* Enough heartbeats have gone unanswered.
TooMany(n) == n >= MaxMissed

\* Mutant of LoopChecks: an ack does not reset missedHeartbeats.
LoopChecksNoReset ==
  /\ loop = "check"
  /\ missed' = IF acked THEN missed ELSE missed + 1
  /\ gaveUp' = (~acked /\ TooMany(missed + 1))
  /\ loop' = IF gaveUp' THEN "exit" ELSE "store"
  /\ open' = (open /\ ~gaveUp')
  /\ UNCHANGED <<val, readerVars, atomics, gateway, beat, silent, late>>

\* acked.Load() and the count; closeConn after too many.
LoopChecks ==
  /\ loop = "check"
  /\ missed' = IF acked THEN 0 ELSE missed + 1
  /\ gaveUp' = (~acked /\ TooMany(missed + 1))
  /\ loop' = IF gaveUp' THEN "exit" ELSE "store"
  /\ open' = (open /\ ~gaveUp')
  /\ UNCHANGED <<val, readerVars, atomics, gateway, beat, silent, late>>

\* Mutant of LoopStores: acked is not reset.
LoopStoresNothing ==
  /\ loop = "store"
  /\ loop' = "hasSeq"
  /\ UNCHANGED <<open, missed, val, readerVars, atomics, gateway, history>>

\* acked.Store(false).
LoopStores ==
  /\ loop = "store"
  /\ acked' = FALSE
  /\ loop' = "hasSeq"
  /\ UNCHANGED <<open, missed, val, readerVars, seq, hasSeq, gateway, history>>

\* currentSeq: hasSeq.Load(), then seq.Load().
LoopHasSeq ==
  /\ loop = "hasSeq"
  /\ val' = Nil
  /\ loop' = IF hasSeq THEN "seq" ELSE "send"
  /\ UNCHANGED <<open, missed, readerVars, atomics, gateway, history>>

LoopSeq ==
  /\ loop = "seq"
  /\ val' = seq
  /\ loop' = "send"
  /\ UNCHANGED <<open, missed, readerVars, atomics, gateway, history>>

\* The gateway gets a heartbeat to acknowledge (beyond MaxUnacked it forgets).
Delivered == unacked' = IF unacked < MaxUnacked THEN unacked + 1 ELSE unacked

\* Bound: where the history stops counting.
MaxSilent == MaxMissed + 2

\* send(opHeartbeat) succeeds; timer.Reset.
LoopSends ==
  /\ loop = "send" /\ open
  /\ beat' = val /\ silent' = IF silent < MaxSilent THEN silent + 1 ELSE silent
  /\ Delivered
  /\ loop' = "wait"
  /\ UNCHANGED <<open, missed, val, readerVars, atomics, inbox, srvSeq, late,
                 gaveUp>>

\* send(opHeartbeat) fails, on a closed socket or after 10s: closeConn.
LoopSendFails ==
  /\ loop = "send"
  /\ open' = FALSE
  /\ loop' = "exit"
  /\ UNCHANGED <<missed, val, readerVars, atomics, gateway, history>>

\* The context is cancelled: heartbeatCancel, deferred by runConnection, has been
\* called, or the context it derives from has been cancelled.
LoopCancelled ==
  /\ loop = "wait" /\ ~open
  /\ loop' = "exit"
  /\ UNCHANGED <<open, missed, val, readerVars, atomics, gateway, history>>

-----------------------------------------------------------------------------
(* runConnection's read loop.                                              *)

\* Mutant of ReaderReceives: hasSeq is stored before seq.
ReaderReceivesSwapped ==
  /\ reader = "read" /\ open /\ inbox # <<>>
  /\ msg' = Head(inbox) /\ inbox' = Tail(inbox)
  /\ reader' = IF msg'.s = 0 THEN "op" ELSE "seq"
  /\ hasSeq' = (hasSeq \/ msg'.s # 0)
  /\ UNCHANGED <<open, loopVars, failed, acked, seq, unacked, srvSeq, history>>

\* wsjson.Read returns a message.
ReaderReceives ==
  /\ reader = "read" /\ open /\ inbox # <<>>
  /\ msg' = Head(inbox) /\ inbox' = Tail(inbox)
  /\ reader' = IF msg'.s = 0 THEN "op" ELSE "seq"
  /\ UNCHANGED <<open, loopVars, failed, atomics, unacked, srvSeq, history>>

\* seq.Store(*payload.S), then hasSeq.Store(true).
ReaderSeq ==
  /\ reader = "seq"
  /\ seq' = msg.s
  /\ reader' = "hasSeq"
  /\ UNCHANGED <<open, loopVars, msg, failed, acked, hasSeq, gateway, history>>

ReaderHasSeq ==
  /\ reader = "hasSeq"
  /\ hasSeq' = TRUE
  /\ reader' = "op"
  /\ UNCHANGED <<open, loopVars, msg, failed, acked, seq, gateway, history>>

\* Mutant of Proceeds: errCh is not looked at when an ack is handled.
ProceedsOnAck(op) == ~failed \/ op = "ack"

\* The select on errCh finds nothing; op is the message's, whatever it is.
Proceeds(op) == ~failed

\* Where the switch on payload.Op finds op.
Handles(op) == reader = "op" /\ msg.op = op /\ Proceeds(op)

ReaderAck ==
  /\ Handles("ack")
  /\ acked' = TRUE /\ silent' = 0
  /\ reader' = "read"
  /\ UNCHANGED <<open, loopVars, msg, failed, seq, hasSeq, gateway, beat, late, gaveUp>>

ReaderDispatch ==
  /\ Handles("dispatch")
  /\ reader' = "read"
  /\ UNCHANGED <<open, loopVars, msg, failed, atomics, gateway, history>>

\* A heartbeat on request: seq and hasSeq change in this goroutine only.
ReaderBeats ==
  /\ Handles("beat") /\ open
  /\ beat' = IF hasSeq THEN seq ELSE Nil
  /\ Delivered
  /\ reader' = "read"
  /\ UNCHANGED <<open, loopVars, msg, failed, atomics, inbox, srvSeq, silent, late,
                 gaveUp>>

\* runConnection returns; the deferred CloseNow closes the socket.
ReaderLeaves ==
  /\ open' = FALSE
  /\ reader' = "exit"
  /\ UNCHANGED <<loopVars, msg, failed, atomics, gateway, history>>

\* opReconnect or opInvalidSession; or the requested heartbeat fails.
ReaderGivesUp == (Handles("leave") \/ Handles("beat")) /\ ReaderLeaves

\* The select on errCh finds the writer's error.
ReaderFinds == reader = "op" /\ ~Proceeds(msg.op) /\ ReaderLeaves

\* wsjson.Read fails, for any reason of the network's or because of closeConn.
ReaderReadFails == reader = "read" /\ ReaderLeaves

\* A send of presenceWriter fails, once; the socket may still be good.
WriterFails ==
  /\ ~failed
  /\ failed' = TRUE
  /\ UNCHANGED <<open, loopVars, reader, msg, atomics, gateway, history>>

\* Configure's cancelRun or the shutdown: nothing can be sent any more, and what
\* has not been read is lost.
Cancelled ==
  /\ open /\ open' = FALSE /\ inbox' = <<>>
  /\ UNCHANGED <<loopVars, readerVars, atomics, unacked, srvSeq, history>>

-----------------------------------------------------------------------------
(* The gateway.                                                            *)

Post(op, s) == inbox' = Append(inbox, Message(op, s))

GatewayAcks ==
  /\ open /\ unacked > 0 /\ Len(inbox) < MaxInbox
  /\ unacked' = unacked - 1
  /\ Post("ack", 0)
  /\ UNCHANGED <<open, loopVars, readerVars, atomics, srvSeq, history>>

GatewayDispatches ==
  /\ open /\ srvSeq < MaxSeq /\ Len(inbox) < MaxInbox
  /\ srvSeq' = srvSeq + 1
  /\ Post("dispatch", srvSeq')
  /\ UNCHANGED <<open, loopVars, readerVars, atomics, unacked, history>>

GatewayAsks ==
  /\ open /\ Len(inbox) < MaxInbox
  /\ \E op \in {"beat", "leave"} : Post(op, 0)
  /\ UNCHANGED <<open, loopVars, readerVars, atomics, unacked, srvSeq, history>>

-----------------------------------------------------------------------------

LoopNext ==
  \/ TimerFires \/ LoopChecks \/ LoopStores \/ LoopHasSeq \/ LoopSeq
  \/ LoopSends \/ LoopSendFails \/ LoopCancelled

ReaderNext ==
  \/ ReaderReceives \/ ReaderSeq \/ ReaderHasSeq \/ ReaderAck \/ ReaderDispatch
  \/ ReaderBeats \/ ReaderGivesUp \/ ReaderFinds \/ ReaderReadFails

GatewayNext == GatewayAcks \/ GatewayDispatches \/ GatewayAsks

Next == LoopNext \/ ReaderNext \/ GatewayNext \/ WriterFails \/ Cancelled

Spec == Init /\ [][Next]_vars

\* The two goroutines run; a read of an open, silent socket may block forever.
\* The gateway promises nothing.
FairSpec ==
  /\ Spec
  /\ WF_vars(LoopNext)
  /\ WF_vars(ReaderNext /\ (reader # "read" \/ inbox # <<>> \/ ~open))

-----------------------------------------------------------------------------

\* Every variable has its type; missedHeartbeats never exceeds
\* maxMissedHeartbeats (client.go:284-292).
TypeOK ==
  /\ open \in BOOLEAN /\ acked \in BOOLEAN /\ hasSeq \in BOOLEAN /\ failed \in BOOLEAN
  /\ loop \in {"wait", "check", "store", "hasSeq", "seq", "send", "exit"}
  /\ missed \in 0 .. MaxMissed
  /\ val \in Nat \cup {Nil} /\ beat \in Nat \cup {Nil}
  /\ reader \in {"read", "seq", "hasSeq", "op", "exit"}
  /\ msg \in Messages /\ inbox \in Seq(Messages)
  /\ seq \in 0 .. MaxSeq /\ srvSeq \in 0 .. MaxSeq
  /\ unacked \in 0 .. MaxUnacked
  /\ silent \in 0 .. MaxSilent /\ late \in 0 .. MaxMissed /\ gaveUp \in BOOLEAN

\* "Only close after multiple missed heartbeats (more tolerant)"
\* (client.go:285): heartbeatLoop gives a connection up only when each of its
\* last MaxMissed heartbeats saw its interval end before any ack was handled,
\* wherever the loads and stores of the two goroutines fall.
CloseJustified == gaveUp => late = MaxMissed

\* And it does so in time: no more than MaxMissed heartbeats in a row go
\* unanswered, and one more when an ack is handled between acked.Store(false)
\* and the send and so passes for the answer to the heartbeat it came before
\* (client.go:280-300).
DetectedInTime == silent <= MaxMissed + 1

\* A heartbeat carries no number or one the gateway has really sent, although
\* seq and hasSeq are not written together (client.go:247-250, 354-359).
SeqReal == beat \in {Nil} \cup 1 .. srvSeq

\* A gateway that stops acknowledging is given up in the end, even if it keeps
\* the socket open and other messages coming (client.go:271-303).
DeadPeerDetected == <>[](~heard) => <>(~open)

\* Whichever goroutine ends first, or closes the socket, the other one ends and the
\* socket is closed; also when it is the writer that has given up, although
\* nothing wakes the read loop for its error: an ack that comes makes it look,
\* and acks that stay away make heartbeatLoop close the socket
\* (client.go:175, 211-213, 251-255, 288-298, 339-345).
EndTogether ==
  (failed \/ ~open \/ loop = "exit" \/ reader = "exit")
    ~> (~open /\ loop = "exit" /\ reader = "exit")
=============================================================================
