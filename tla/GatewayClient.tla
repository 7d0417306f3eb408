--------------------------- MODULE GatewayClient ---------------------------
(***************************************************************************)
(* The Discord gateway client (internal/discord/client.go): the Run loop   *)
(* that owns at most one connection at a time, the presence writer each    *)
(* connection starts, and the callers (HTTP handlers, the poll loop) that  *)
(* change the token and the desired presence from their own goroutines.    *)
(*                                                                         *)
(* Steps are as fine as the locks: one action per critical section, per    *)
(* channel operation and per write on the socket.  A token stands for the  *)
(* pair (token, gatewayURL); the socket, Discord's answers and the passing *)
(* of time are the environment.  The heartbeat loop is module Heartbeat;   *)
(* here its only effect, closing the socket, is one cause of ConnFails.    *)
(***************************************************************************)
EXTENDS Naturals

CONSTANTS
  Callers,       \* goroutines that call Configure and SetPresence
  Tokens,        \* non-empty (token, gatewayURL) pairs
  NoToken,       \* the empty token
  Presences,     \* presences a caller may ask for
  NoPresence,    \* nothing
  Slots,         \* connections whose goroutines may be alive at one time
  NoSlot,        \* no connection
  Interval,      \* minPresenceInterval, in ticks
  BackoffStart,  \* 5 * time.Second
  BackoffCap     \* time.Minute

ASSUME GatewayAssumption ==
  /\ NoToken \notin Tokens
  /\ NoPresence \notin Presences
  /\ NoSlot \notin Slots
  /\ Interval \in Nat
  /\ BackoffStart \in Nat
  /\ BackoffCap \in Nat
  /\ BackoffStart < BackoffCap

VARIABLES
  token,      \* Client.token (with Client.gatewayURL)
  desired,    \* Client.desired
  cancelRun,  \* the connection Client.cancelRun cancels
  wakeCh,     \* Client.wakeCh holds its one element
  updateCh,   \* Client.updateCh holds its one element
  status,     \* Client.status: configured, connected, failed (LastError # "")
  step,       \* where each caller is inside Configure or SetPresence
  pc,         \* where Run and runConnection are
  conn,       \* the connection runConnection works on
  runToken,   \* the token Run read for it
  backoff,    \* Run's backoff
  cancelled,  \* per connection: its context is cancelled (or not made yet)
  errCh,      \* the current connection's errCh holds a write error
  wpc,        \* per connection: where its presenceWriter is
  lastSent,   \* presenceWriter's lastSent
  sending,    \* the presence presenceWriter is writing
  age,        \* ticks since presenceWriter's lastUpdate, Interval if none
  armed,      \* presenceWriter's timerC is not nil
  shown,      \* the presence Discord got last on the open connection
  stopped,    \* the context given to Run is done
  missed,     \* history: token changed between Run's read and its install
              \* of the cancel function of this connection
  stolen      \* history: an older writer took a notification from updateCh,
              \* and this connection has not read desired since

callVars   == <<token, desired, step>>
chanVars   == <<wakeCh, updateCh>>
runVars    == <<pc, conn, runToken, backoff, cancelRun>>
writerVars == <<wpc, lastSent, sending, age, armed>>
history    == <<missed, stolen>>
vars == <<callVars, chanVars, status, runVars, cancelled, errCh, writerVars,
          shown, stopped, history>>

Phases == {"dial", "hello", "snapshot", "identify", "announce", "reading"}

\* runConnection is executing.
Active == pc \in Phases

\* It is waiting for the network, so it can fail there.
Blocked == pc \in {"dial", "hello", "identify", "reading"}

\* The context of connection s, or its parent, is done.
CtxDone(s) == stopped \/ cancelled[s]

\* A write by the writer of s can reach Discord.
Open(s) == s = conn /\ pc \in {"announce", "reading"}

\* minPresenceInterval has passed since the writer's last update.
Due(s) == age[s] >= Interval

\* A presenceWriter that does not run, and its locals.
NoWriter(s) ==
  /\ wpc' = [wpc EXCEPT ![s] = "none"]
  /\ lastSent' = [lastSent EXCEPT ![s] = NoPresence]
  /\ sending' = [sending EXCEPT ![s] = NoPresence]
  /\ age' = [age EXCEPT ![s] = Interval]
  /\ armed' = [armed EXCEPT ![s] = FALSE]

Init ==
  /\ token = NoToken /\ desired \in Presences /\ cancelRun = NoSlot
  /\ wakeCh = FALSE /\ updateCh = FALSE
  /\ status = [configured |-> FALSE, connected |-> FALSE, failed |-> FALSE]
  /\ step = [c \in Callers |-> "idle"]
  /\ pc = "top" /\ conn = NoSlot /\ runToken = NoToken
  /\ backoff = BackoffStart
  /\ cancelled = [s \in Slots |-> TRUE]
  /\ errCh = FALSE
  /\ wpc = [s \in Slots |-> "none"]
  /\ lastSent = [s \in Slots |-> NoPresence]
  /\ sending = [s \in Slots |-> NoPresence]
  /\ age = [s \in Slots |-> Interval]
  /\ armed = [s \in Slots |-> FALSE]
  /\ shown = NoPresence /\ stopped = FALSE
  /\ missed = FALSE /\ stolen = FALSE

-----------------------------------------------------------------------------
(* Callers: Configure and SetPresence.                                     *)

Goto(c, where) == step' = [step EXCEPT ![c] = where]

\* Mutant of CancelledBy: Configure leaves the running connection alone.
CancelledByNothing(t) == {}

\* The connections a Configure(t) cancels.
CancelledBy(t) == IF t # token THEN {cancelRun} ELSE {}

\* Configure's section under mu: store the token, cancel what cancelRun names.
ConfigureSet(c, t) ==
  /\ step[c] = "idle"
  /\ token' = t
  /\ cancelled' = [s \in Slots |-> cancelled[s] \/ s \in CancelledBy(t)]
  /\ Goto(c, IF t = NoToken THEN "cleared" ELSE "set")
  /\ UNCHANGED <<desired, chanVars, status, runVars, errCh, writerVars, shown,
                 stopped, history>>

\* Configure's setStatus.
ConfigureStatus(c) ==
  /\ step[c] \in {"cleared", "set"}
  /\ status' = IF step[c] = "set" THEN [status EXCEPT !.configured = TRUE]
               ELSE [configured |-> FALSE, connected |-> FALSE, failed |-> FALSE]
  /\ Goto(c, "wake")
  /\ UNCHANGED <<token, desired, chanVars, runVars, cancelled, errCh,
                 writerVars, shown, stopped, history>>

\* Mutant of ConfigureWake: the notification goes to the wrong channel.
ConfigureWakesWriter(c) ==
  /\ step[c] = "wake"
  /\ updateCh' = TRUE
  /\ Goto(c, "idle")
  /\ UNCHANGED <<token, desired, wakeCh, status, runVars, cancelled, errCh,
                 writerVars, shown, stopped, history>>

\* Configure's notify(wakeCh): a full channel keeps its element.
ConfigureWake(c) ==
  /\ step[c] = "wake"
  /\ wakeCh' = TRUE
  /\ Goto(c, "idle")
  /\ UNCHANGED <<token, desired, updateCh, status, runVars, cancelled, errCh,
                 writerVars, shown, stopped, history>>

\* SetPresence's section under mu.
PresenceSet(c, p) ==
  /\ step[c] = "idle"
  /\ desired' = p
  /\ Goto(c, "notify")
  /\ UNCHANGED <<token, chanVars, status, runVars, cancelled, errCh,
                 writerVars, shown, stopped, history>>

\* SetPresence's notify(updateCh).
PresenceNotify(c) ==
  /\ step[c] = "notify"
  /\ updateCh' = TRUE
  /\ Goto(c, "idle")
  /\ UNCHANGED <<token, desired, wakeCh, status, runVars, cancelled, errCh,
                 writerVars, shown, stopped, history>>

-----------------------------------------------------------------------------
(* Run: the connection loop.                                               *)

\* connectionConfig, and the test for an empty token.
RunRead ==
  /\ pc = "top"
  /\ runToken' = token
  /\ pc' = IF token = NoToken THEN "idle" ELSE "install"
  /\ UNCHANGED <<callVars, chanVars, status, conn, backoff, cancelRun,
                 cancelled, errCh, writerVars, shown, stopped, history>>

\* No token: wait on wakeCh.
RunIdle ==
  /\ pc = "idle" /\ wakeCh
  /\ wakeCh' = FALSE
  /\ pc' = "top"
  /\ UNCHANGED <<callVars, updateCh, status, conn, runToken, backoff,
                 cancelRun, cancelled, errCh, writerVars, shown, stopped,
                 history>>

\* A fresh context for the next connection, its cancel stored in cancelRun.
RunInstall(s) ==
  /\ pc = "install" /\ wpc[s] = "none"
  /\ conn' = s /\ cancelRun' = s
  /\ cancelled' = [cancelled EXCEPT ![s] = FALSE]
  /\ pc' = "dial"
  /\ missed' = (runToken # token)
  /\ UNCHANGED <<callVars, chanVars, status, runToken, backoff, errCh,
                 writerVars, shown, stopped, stolen>>

\* websocket.Dial succeeds, then the hello arrives and is well formed.
Handshake(from, to) ==
  /\ pc = from
  /\ pc' = to
  /\ UNCHANGED <<callVars, chanVars, status, conn, runToken, backoff,
                 cancelRun, cancelled, errCh, writerVars, shown, stopped,
                 history>>

DialOk  == Handshake("dial", "hello")
HelloOk == Handshake("hello", "snapshot")

\* initial := desiredPresence(), the first lastSent of the writer to come.
Snapshot ==
  /\ pc = "snapshot"
  /\ lastSent' = [lastSent EXCEPT ![conn] = desired]
  /\ pc' = "identify"
  /\ UNCHANGED <<callVars, chanVars, status, conn, runToken, backoff,
                 cancelRun, cancelled, errCh, wpc, sending, age, armed, shown,
                 stopped, history>>

\* Mutant of IdentifyOk: the writer's lastSent is read anew when it starts.
IdentifyRereads ==
  /\ pc = "identify"
  /\ shown' = lastSent[conn]
  /\ lastSent' = [lastSent EXCEPT ![conn] = desired]
  /\ wpc' = [wpc EXCEPT ![conn] = "select"]
  /\ pc' = "announce"
  /\ UNCHANGED <<callVars, chanVars, status, conn, runToken, backoff,
                 cancelRun, cancelled, errCh, sending, age, armed,
                 stopped, history>>

\* The identify is written, the presence in it; the writer is started.
IdentifyOk ==
  /\ pc = "identify"
  /\ shown' = lastSent[conn]
  /\ wpc' = [wpc EXCEPT ![conn] = "select"]
  /\ pc' = "announce"
  /\ UNCHANGED <<callVars, chanVars, status, conn, runToken, backoff,
                 cancelRun, cancelled, errCh, lastSent, sending, age, armed,
                 stopped, history>>

\* setStatus once the identify has been written.
Announce ==
  /\ pc = "announce"
  /\ status' = [configured |-> TRUE, connected |-> TRUE, failed |-> FALSE]
  /\ pc' = "reading"
  /\ UNCHANGED <<callVars, chanVars, conn, runToken, backoff, cancelRun,
                 cancelled, errCh, writerVars, shown, stopped, history>>

\* Mutant of ConnReturns: Run does not call cancel.
ConnReturnsUncancelled(result) ==
  /\ pc' = result
  /\ errCh' = FALSE
  /\ shown' = NoPresence
  /\ lastSent' = IF wpc[conn] = "none"
                 THEN [lastSent EXCEPT ![conn] = NoPresence] ELSE lastSent
  /\ UNCHANGED <<callVars, chanVars, status, conn, runToken, backoff,
                 cancelRun, cancelled, wpc, sending, age, armed, stopped, history>>

\* runConnection returns, closing the socket, and Run cancels its context.
\* Nobody reads its errCh any more.  A connection that ends before its writer
\* starts leaves no goroutine.
ConnReturns(result) ==
  /\ pc' = result
  /\ errCh' = FALSE
  /\ cancelled' = [cancelled EXCEPT ![conn] = TRUE]
  /\ shown' = NoPresence
  /\ lastSent' = IF wpc[conn] = "none"
                 THEN [lastSent EXCEPT ![conn] = NoPresence] ELSE lastSent
  /\ UNCHANGED <<callVars, chanVars, status, conn, runToken, backoff,
                 cancelRun, wpc, sending, age, armed, stopped, history>>

\* Any failure: dial, bad hello, a write, a read, op 7, op 9, the heartbeat.
\* A cancelled read may also surface as one (net.ErrClosed).
ConnFails == Blocked /\ ConnReturns("failed")

\* The context is done and the pending call returns context.Canceled.
ConnCancelled == Blocked /\ CtxDone(conn) /\ ConnReturns("canceled")

\* A message arrives after the writer reported an error in errCh.
ReadWriterError == pc = "reading" /\ errCh /\ ConnReturns("failed")

\* Mutants: the closed connection is still announced; ctx.Err() is not tested.
ClosedStatusKept == [status EXCEPT !.failed = @ \/ pc = "failed"]
AfterCloseOnward == IF pc = "canceled" THEN "top" ELSE "backoff"

\* The status after a connection, and where Run goes from there.
ClosedStatus == [status EXCEPT !.connected = FALSE, !.failed = @ \/ pc = "failed"]

AfterClose == IF stopped THEN "exit" ELSE IF pc = "canceled" THEN "top" ELSE "backoff"

\* Run's setStatus after the connection, and what it does next.
RunClosed ==
  /\ pc \in {"canceled", "failed"}
  /\ status' = ClosedStatus
  /\ pc' = AfterClose
  /\ conn' = NoSlot /\ runToken' = NoToken
  /\ backoff' = IF ~stopped /\ pc = "canceled" THEN BackoffStart ELSE backoff
  /\ missed' = FALSE /\ stolen' = FALSE
  /\ UNCHANGED <<callVars, chanVars, cancelRun, cancelled, errCh, writerVars,
                 shown, stopped>>

\* The wait before a retry ends early: wakeCh had an element.
BackoffWake ==
  /\ pc = "backoff" /\ wakeCh
  /\ wakeCh' = FALSE
  /\ backoff' = BackoffStart
  /\ pc' = "top"
  /\ UNCHANGED <<callVars, updateCh, status, conn, runToken, cancelRun,
                 cancelled, errCh, writerVars, shown, stopped, history>>

\* Mutant of NextBackoff: no ceiling.
NextBackoffUnbounded == 2 * backoff

\* The wait before a retry runs to its end.
NextBackoff == IF backoff < BackoffCap THEN 2 * backoff ELSE backoff

BackoffElapsed ==
  /\ pc = "backoff"
  /\ backoff' = NextBackoff
  /\ pc' = "top"
  /\ UNCHANGED <<callVars, chanVars, status, conn, runToken, cancelRun,
                 cancelled, errCh, writerVars, shown, stopped, history>>

\* ctx.Done() in either of Run's selects.
RunStops ==
  /\ stopped /\ pc \in {"idle", "backoff"}
  /\ pc' = "exit"
  /\ UNCHANGED <<callVars, chanVars, status, conn, runToken, backoff,
                 cancelRun, cancelled, errCh, writerVars, shown, stopped,
                 history>>

\* The process is asked to terminate: every context is done.
Shutdown ==
  /\ ~stopped /\ stopped' = TRUE
  /\ UNCHANGED <<callVars, chanVars, status, runVars, cancelled, errCh,
                 writerVars, shown, history>>

-----------------------------------------------------------------------------
(* presenceWriter: one goroutine per connection, all on the same updateCh. *)

\* ctx.Done() is chosen in the select.
WriterStops(s) ==
  /\ wpc[s] = "select" /\ CtxDone(s)
  /\ NoWriter(s)
  /\ UNCHANGED <<callVars, chanVars, status, runVars, cancelled, errCh, shown,
                 stopped, history>>

\* updateCh is chosen, by whichever writer gets there first.
WriterNotified(s) ==
  /\ wpc[s] = "select" /\ updateCh
  /\ updateCh' = FALSE
  /\ wpc' = [wpc EXCEPT ![s] = "load"]
  /\ stolen' = (stolen \/ (s # conn /\ pc \in {"identify", "announce", "reading"}))
  /\ UNCHANGED <<callVars, wakeCh, status, runVars, cancelled, errCh, lastSent,
                 sending, age, armed, shown, stopped, missed>>

\* timerC is chosen.
WriterTimer(s) ==
  /\ wpc[s] = "select" /\ armed[s] /\ Due(s)
  /\ armed' = [armed EXCEPT ![s] = FALSE]
  /\ wpc' = [wpc EXCEPT ![s] = "load"]
  /\ UNCHANGED <<callVars, chanVars, status, runVars, cancelled, errCh,
                 lastSent, sending, age, shown, stopped, history>>

\* Mutant of TimerSet: timerC stays nil.
TimerForgotten(s) == armed

\* timer.Reset(wait), timerC = timer.C.
TimerSet(s) == [armed EXCEPT ![s] = TRUE]

\* desiredPresence(): skip what was sent, arm the timer if too early, or send.
WriterLoad(s) ==
  /\ wpc[s] = "load"
  /\ \/ /\ desired = lastSent[s]
        /\ wpc' = [wpc EXCEPT ![s] = "select"]
        /\ UNCHANGED <<sending, armed>>
     \/ /\ desired # lastSent[s] /\ ~Due(s)
        /\ armed' = TimerSet(s)
        /\ wpc' = [wpc EXCEPT ![s] = "select"]
        /\ UNCHANGED sending
     \/ /\ desired # lastSent[s] /\ Due(s)
        /\ sending' = [sending EXCEPT ![s] = desired]
        /\ wpc' = [wpc EXCEPT ![s] = "send"]
        /\ UNCHANGED armed
  /\ stolen' = (stolen /\ s # conn)
  /\ UNCHANGED <<callVars, chanVars, status, runVars, cancelled, errCh,
                 lastSent, age, shown, stopped, missed>>

\* Mutant of WriterSent: lastSent is read anew after the send.
WriterSentRereads(s) ==
  /\ wpc[s] = "send" /\ Open(s)
  /\ shown' = sending[s]
  /\ lastSent' = [lastSent EXCEPT ![s] = desired]
  /\ sending' = [sending EXCEPT ![s] = NoPresence]
  /\ age' = [age EXCEPT ![s] = 0]
  /\ wpc' = [wpc EXCEPT ![s] = "select"]
  /\ UNCHANGED <<callVars, chanVars, status, runVars, cancelled, errCh, armed,
                 stopped, history>>

\* send(opPresenceUpdate) succeeds; lastSent and lastUpdate follow.
WriterSent(s) ==
  /\ wpc[s] = "send" /\ Open(s)
  /\ shown' = sending[s]
  /\ lastSent' = [lastSent EXCEPT ![s] = sending[s]]
  /\ sending' = [sending EXCEPT ![s] = NoPresence]
  /\ age' = [age EXCEPT ![s] = 0]
  /\ wpc' = [wpc EXCEPT ![s] = "select"]
  /\ UNCHANGED <<callVars, chanVars, status, runVars, cancelled, errCh, armed,
                 stopped, history>>

\* send(opPresenceUpdate) fails: the error goes to errCh, the writer returns.
\* The errCh of an older connection has no reader left.
WriterSendFails(s) ==
  /\ wpc[s] = "send"
  /\ errCh' = (errCh \/ Open(s))
  /\ NoWriter(s)
  /\ UNCHANGED <<callVars, chanVars, status, runVars, cancelled, shown,
                 stopped, history>>

\* Time passes for every throttled writer.
Tick ==
  /\ \E s \in Slots : ~Due(s)
  /\ age' = [s \in Slots |-> IF Due(s) THEN age[s] ELSE age[s] + 1]
  /\ UNCHANGED <<callVars, chanVars, status, runVars, cancelled, errCh, wpc,
                 lastSent, sending, armed, shown, stopped, history>>

-----------------------------------------------------------------------------

CallerNext(c) ==
  \/ \E t \in Tokens \cup {NoToken} : ConfigureSet(c, t)
  \/ ConfigureStatus(c)
  \/ ConfigureWake(c)
  \/ \E p \in Presences : PresenceSet(c, p)
  \/ PresenceNotify(c)

RunNext ==
  \/ RunRead \/ RunIdle \/ \E s \in Slots : RunInstall(s)
  \/ DialOk \/ HelloOk \/ Snapshot \/ IdentifyOk \/ Announce
  \/ ConnFails \/ ConnCancelled \/ ReadWriterError \/ RunClosed
  \/ BackoffWake \/ BackoffElapsed \/ RunStops

WriterNext(s) ==
  \/ WriterStops(s) \/ WriterNotified(s) \/ WriterTimer(s)
  \/ WriterLoad(s) \/ WriterSent(s) \/ WriterSendFails(s)

Next ==
  \/ \E c \in Callers : CallerNext(c)
  \/ RunNext
  \/ \E s \in Slots : WriterNext(s)
  \/ Tick \/ Shutdown

Spec == Init /\ [][Next]_vars

\* What the goroutines and the timeouts guarantee.  Callers finish the call
\* they are in.  Run moves on wherever it is not waiting for Discord: a dial
\* ends within 30s and an identify within 10s, one way or the other.  The read
\* of the hello has no timeout and a read returns only when its context is
\* done, or when the next message (heartbeats bring one) finds an error in
\* errCh.  select picks at random among the ready cases, so a goroutine
\* that keeps finding ctx.Done() ready takes it in the end.
RunMoves ==
  \/ RunNext /\ pc \notin {"hello", "reading"}
  \/ ConnCancelled \/ ReadWriterError

Fairness ==
  /\ \A c \in Callers :
       WF_vars(ConfigureStatus(c) \/ ConfigureWake(c) \/ PresenceNotify(c))
  /\ WF_vars(RunMoves) /\ SF_vars(RunStops)
  /\ \A s \in Slots : WF_vars(WriterNext(s)) /\ SF_vars(WriterStops(s))
  /\ WF_vars(Tick)

FairSpec == Spec /\ Fairness

-----------------------------------------------------------------------------
(* Safety.                                                                 *)

ClientTyped ==
  /\ token \in Tokens \cup {NoToken} /\ desired \in Presences
  /\ cancelRun \in Slots \cup {NoSlot}
  /\ wakeCh \in BOOLEAN /\ updateCh \in BOOLEAN
  /\ status \in [configured : BOOLEAN, connected : BOOLEAN, failed : BOOLEAN]
  /\ step \in [Callers -> {"idle", "cleared", "set", "wake", "notify"}]

RunTyped ==
  /\ pc \in Phases \cup {"top", "idle", "install", "canceled", "failed",
                        "backoff", "exit"}
  /\ conn \in Slots \cup {NoSlot} /\ runToken \in Tokens \cup {NoToken}
  /\ errCh \in BOOLEAN /\ stopped \in BOOLEAN
  /\ shown \in Presences \cup {NoPresence}
  /\ missed \in BOOLEAN /\ stolen \in BOOLEAN

WritersTyped ==
  /\ cancelled \in [Slots -> BOOLEAN] /\ armed \in [Slots -> BOOLEAN]
  /\ wpc \in [Slots -> {"none", "select", "load", "send"}]
  /\ lastSent \in [Slots -> Presences \cup {NoPresence}]
  /\ sending \in [Slots -> Presences \cup {NoPresence}]

TimersTyped ==
  /\ backoff \in BackoffStart .. (2 * BackoffCap - 1)
  /\ age \in [Slots -> 0 .. Interval]

\* Every variable has its type; the backoff doubles only below BackoffCap, so
\* it stays under twice the cap (client.go:155).
TypeOK == ClientTyped /\ RunTyped /\ WritersTyped /\ TimersTyped

\* The status never shows a connection that is not there: connected implies
\* configured, no error, and a Run that has announced this connection and has
\* not yet reported its end, whatever Configure does meanwhile.
StatusCoherent ==
  status.connected => /\ status.configured /\ ~status.failed
                      /\ pc \in {"reading", "canceled", "failed"}

\* And while calls of Configure do not overlap it shows the one there is: a
\* connection that nobody has cancelled is announced and stays so.  Where they
\* do, the setStatus of a Configure("") may come after a newer call has
\* connected (client.go:75-98, 233-240).
StatusTold ==
  (pc = "reading" /\ ~cancelled[conn] /\ ~missed) => status.connected

\* No two callers are inside Configure.
Serial ==
  \A c, d \in Callers :
    {step[c], step[d]} \subseteq {"cleared", "set", "wake"} => c = d

\* A writer that outlives its connection has been told to stop, however the
\* connection ended: none is left behind (client.go:131-132, 310-316).
StraysToldToStop ==
  \A s \in Slots : (wpc[s] # "none" /\ s # conn) => cancelled[s]

\* A connection runs with the current token or has been told to stop, unless
\* the token changed before Run could install the cancel function (missed).
TokenFresh ==
  Active => /\ cancelRun = conn
            /\ runToken = token \/ cancelled[conn] \/ missed

\* Run never sleeps on wakeCh with a token to use and nobody about to wake it.
WakeNotLost ==
  (pc = "idle" /\ token # NoToken) =>
    wakeCh \/ \E c \in Callers : step[c] \in {"cleared", "set", "wake"}

\* A change of the desired presence is still on its way to the writer.
Dirty == updateCh \/ stolen \/ \E c \in Callers : step[c] = "notify"

\* A writer at rest with no timer and no notification coming has sent the
\* desired presence, and that is what Discord has; the only way to miss a
\* change is an older writer taking the notification (stolen).
UpdateNotLost ==
  (pc \in {"announce", "reading"} /\ wpc[conn] = "select") =>
    /\ shown = lastSent[conn]
    /\ shown = desired \/ armed[conn] \/ Dirty

-----------------------------------------------------------------------------
(* The abstract client.                                                    *)

\* The presence on its way: in the identify, or in the writer's send.
Taken ==
  IF pc = "identify" THEN lastSent[conn]
  ELSE IF pc \in {"announce", "reading"} /\ wpc[conn] = "send" THEN sending[conn]
  ELSE NoPresence

\* The writer of the open connection waits, and nothing is coming for it.
AtRest ==
  /\ pc \in {"announce", "reading"} /\ wpc[conn] = "select"
  /\ ~armed[conn] /\ ~Dirty

Feed == INSTANCE PresenceFeed WITH taken <- Taken, atRest <- AtRest

\* Discord never gets an older presence after a newer one, whichever writers of
\* earlier connections are about, and the client rests only when Discord has
\* the desired one: it implements the feed (client.go:100-105, 215-233, 306-352).
ImplementsFeed == Feed!Spec

-----------------------------------------------------------------------------
(* Liveness, under FairSpec.                                               *)

\* A presence that stays desired on a connection that stays open is shown in
\* the end, unless its notification was stolen.
UpdateDelivered ==
  \A p \in Presences :
    <>[](desired = p /\ pc = "reading" /\ ~stolen) => <>[](shown = p)

\* With a token Run keeps trying: it never parks for good.
KeepsTrying ==
  (token # NoToken /\ ~stopped) ~> (Active \/ token = NoToken \/ stopped)

\* After the shutdown Run returns and no writer is left behind.
ShutdownCompletes ==
  stopped ~> (pc = "exit" /\ \A s \in Slots : wpc[s] = "none")

-----------------------------------------------------------------------------
(* What the documents say and the code does not do.                        *)

\* "CurrentPresence returns the current presence that will be sent to Discord"
\* (client.go:373): what stays desired on a lasting connection gets there.
DesiredIsSent ==
  \A p \in Presences :
    <>[](desired = p /\ pc = "reading") => <>[](shown = p)
=============================================================================
