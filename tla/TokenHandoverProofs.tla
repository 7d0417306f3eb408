------------------------ MODULE TokenHandoverProofs ------------------------
(***************************************************************************)
(* What TLAPS proves of TokenHandover, for any callers, tokens and         *)
(* connections.  The types of the client's variables come from             *)
(* GatewayClientProofs: the composition takes no step the client could not *)
(* take with callers of its own.                                           *)
(***************************************************************************)
EXTENDS TokenHandover, GatewayClientProofs

\* The variables of this module, typed, and what an operation may be doing
\* while its caller is inside Configure.
StagesTyped ==
  /\ stored \in Tokens \cup {NoToken}
  /\ stage \in [Callers -> UnderWay \cup {"handing", "booted", "idle"}]
  /\ carried \in [Callers -> Tokens \cup {NoToken}]
  /\ stale \in BOOLEAN
  /\ step \in [Callers -> {"idle", "cleared", "set", "wake", "notify"}]
  /\ \A c \in Callers :
       step[c] # "idle" => stage[c] \in {"clearing", "handing"}

-----------------------------------------------------------------------------

\* The client's own steps leave its callers alone.
LEMMA ClientKeepsCallers == ClientNext => UNCHANGED <<token, step, handover>>
<1> SUFFICES ASSUME ClientNext PROVE UNCHANGED <<token, step, handover>>
  OBVIOUS
<1>1. UNCHANGED handover
  BY DEF ClientNext
<1>2. CASE RunNext
  BY <1>1, <1>2 DEF RunNext, RunRead, RunIdle, RunInstall, DialOk, HelloOk, Handshake,
     Snapshot, IdentifyOk, Announce, ConnFails, ConnCancelled,
     ReadWriterError, ConnReturns, RunClosed, BackoffWake, BackoffElapsed,
     RunStops, callVars
<1>3. ASSUME NEW s \in Slots, WriterNext(s) PROVE UNCHANGED <<token, step>>
  BY <1>3 DEF WriterNext, WriterStops, WriterNotified, WriterTimer, WriterLoad,
     WriterSent, WriterSendFails, callVars
<1>4. CASE Tick
  BY <1>1, <1>4 DEF Tick, callVars
<1>5. CASE Shutdown
  BY <1>1, <1>5 DEF Shutdown, callVars
<1> QED
  BY <1>1, <1>2, <1>3, <1>4, <1>5 DEF ClientNext

\* The stages stay typed, and no step is under way outside Configure.
LEMMA StagesStep == StagesTyped /\ [HandoverNext]_allVars => StagesTyped'
<1> SUFFICES ASSUME StagesTyped, [HandoverNext]_allVars PROVE StagesTyped'
  OBVIOUS
<1> USE DEF StagesTyped, UnderWay, MovesTo, Carries
<1>1. CASE BootReads
  BY <1>1, HandoverAssumption DEF BootReads, vars, callVars
<1>2. ASSUME NEW c \in Callers, ReconnectClears(c) PROVE StagesTyped'
  BY <1>2 DEF ReconnectClears, ConfigureSet, Goto
<1>3. ASSUME NEW c \in Callers, PauseEnds(c) PROVE StagesTyped'
  BY <1>3 DEF PauseEnds, vars, callVars
<1>4. ASSUME NEW c \in Callers, HandsOver(c) PROVE StagesTyped'
  BY <1>4 DEF HandsOver, ConfigureSet, Goto
<1>5. ASSUME NEW c \in Callers, Reports(c) PROVE StagesTyped'
  BY <1>5 DEF Reports, ConfigureStatus, Goto, handover
<1>6. ASSUME NEW c \in Callers, Returns(c) PROVE StagesTyped'
  BY <1>6 DEF Returns, ConfigureWake, Goto
<1>7. ASSUME NEW h \in Handlers, NEW t \in Tokens \cup {NoToken}, UpdateStores(h, t)
      PROVE  StagesTyped'
  BY <1>7 DEF UpdateStores, Handlers, vars, callVars
<1>8. ASSUME NEW h \in Handlers, ReconnectReads(h) PROVE StagesTyped'
  BY <1>8 DEF ReconnectReads, Handlers, vars, callVars
<1>9. CASE ClientNext
  BY <1>9, ClientKeepsCallers DEF handover
<1>10. CASE UNCHANGED allVars
  BY <1>10 DEF allVars, vars, callVars, handover
<1> QED
  BY <1>1, <1>2, <1>3, <1>4, <1>5, <1>6, <1>7, <1>8, <1>9, <1>10
  DEF HandoverNext, GoesOn, Starts

-----------------------------------------------------------------------------

\* Every step of the composition is one the client can take, or none of its.
LEMMA HandoverStep == StagesTyped /\ [HandoverNext]_allVars => [Next]_vars
<1> SUFFICES ASSUME StagesTyped, [HandoverNext]_allVars PROVE [Next]_vars
  OBVIOUS
<1>1. CASE BootReads
  BY <1>1 DEF BootReads
<1>2. ASSUME NEW c \in Callers, ReconnectClears(c) PROVE Next
  BY <1>2 DEF ReconnectClears, Next, CallerNext
<1>3. ASSUME NEW c \in Callers, PauseEnds(c) PROVE UNCHANGED vars
  BY <1>3 DEF PauseEnds
<1>4. ASSUME NEW c \in Callers, HandsOver(c) PROVE Next
  <2>1. carried[c] \in Tokens \cup {NoToken}
    BY DEF StagesTyped
  <2> QED
    BY <1>4, <2>1 DEF HandsOver, Next, CallerNext
<1>5. ASSUME NEW c \in Callers, Reports(c) PROVE Next
  BY <1>5 DEF Reports, Next, CallerNext
<1>6. ASSUME NEW c \in Callers, Returns(c) PROVE Next
  BY <1>6 DEF Returns, Next, CallerNext
<1>7. ASSUME NEW h \in Handlers, Starts(h) PROVE UNCHANGED vars
  BY <1>7 DEF Starts, UpdateStores, ReconnectReads
<1>8. CASE ClientNext
  BY <1>8 DEF ClientNext, Next
<1>9. CASE UNCHANGED allVars
  BY <1>9 DEF allVars
<1> QED
  BY <1>1, <1>2, <1>3, <1>4, <1>5, <1>6, <1>7, <1>8, <1>9
  DEF HandoverNext, GoesOn

\* All that is proved of the client holds of it under these callers.
LEMMA HandoverIsClient == HandoverSpec => []StagesTyped /\ Spec
<1>1. HandoverInit => Init
  BY DEF HandoverInit
<1>2. HandoverInit => StagesTyped
  <2> SUFFICES ASSUME HandoverInit PROVE StagesTyped
    OBVIOUS
  <2>1. step = [c \in Callers |-> "idle"]
    BY DEF HandoverInit, Init
  <2> QED
    BY <2>1 DEF HandoverInit, StagesTyped, UnderWay
<1> QED
  BY <1>1, <1>2, StagesStep, HandoverStep, PTL DEF HandoverSpec, Spec

\* Every variable of the client and of its callers keeps its type.
THEOREM HandoverTyped == HandoverSpec => []HandoverTypeOK
<1>1. StagesTyped /\ TypeOK => HandoverTypeOK
  BY DEF StagesTyped, HandoverTypeOK
<1> QED
  BY <1>1, HandoverIsClient, TypeCorrect, PTL

\* With no operation on its way to Configure, the client has the stored token
\* unless the copy that it was given last was out of date (app.go:66-69,
\* 117-123, 156-168, client.go:75-88).
THEOREM TokenIsSynced == HandoverSpec => []TokenSynced
<1>1. HandoverInit => TokenSynced
  BY HandoverAssumption DEF HandoverInit, TokenSynced, UnderWay
<1>2. StagesTyped /\ TokenSynced /\ [HandoverNext]_allVars => TokenSynced'
  <2> SUFFICES ASSUME StagesTyped, TokenSynced, [HandoverNext]_allVars
               PROVE  TokenSynced'
    OBVIOUS
  <2> USE DEF StagesTyped, TokenSynced, UnderWay, MovesTo, Carries
  <2>1. CASE BootReads
    BY <2>1, HandoverAssumption DEF BootReads
  <2>2. ASSUME NEW c \in Callers, ReconnectClears(c) PROVE TokenSynced'
    BY <2>2 DEF ReconnectClears
  <2>3. ASSUME NEW c \in Callers, PauseEnds(c) PROVE TokenSynced'
    BY <2>3 DEF PauseEnds
  <2>4. ASSUME NEW c \in Callers, HandsOver(c) PROVE TokenSynced'
    <3>1. token' = carried[c] /\ stored' = stored
      BY <2>4 DEF HandsOver, ConfigureSet
    <3>2. CASE carried[c] = stored
      BY <3>1, <3>2
    <3>3. CASE carried[c] # stored
      BY <2>4, <3>3 DEF HandsOver
    <3> QED
      BY <3>2, <3>3
  <2>5. ASSUME NEW c \in Callers, Reports(c) PROVE TokenSynced'
    BY <2>5 DEF Reports, ConfigureStatus, handover
  <2>6. ASSUME NEW c \in Callers, Returns(c) PROVE TokenSynced'
    <3>1. stage[c] \in {"clearing", "handing"}
      BY <2>6 DEF Returns, ConfigureWake
    <3>2. UNCHANGED <<token, stored, stale>>
      BY <2>6 DEF Returns, ConfigureWake
    <3>3. CASE stage[c] = "clearing"
      <4>1. stage'[c] = "pause"
        BY <2>6, <3>3 DEF Returns
      <4> QED
        BY <4>1
    <3>4. CASE stage[c] = "handing"
      <4>1. \A d \in Callers : stage[d] \in UnderWay => stage'[d] = stage[d]
        BY <2>6, <3>4 DEF Returns
      <4> QED
        BY <3>2, <4>1
    <3> QED
      BY <3>1, <3>3, <3>4
  <2>7. ASSUME NEW h \in Handlers, NEW t \in Tokens \cup {NoToken},
               UpdateStores(h, t)
        PROVE  TokenSynced'
    BY <2>7 DEF UpdateStores, Handlers
  <2>8. ASSUME NEW h \in Handlers, ReconnectReads(h) PROVE TokenSynced'
    BY <2>8 DEF ReconnectReads, Handlers
  <2>9. CASE ClientNext
    BY <2>9, ClientKeepsCallers DEF handover
  <2>10. CASE UNCHANGED allVars
    BY <2>10 DEF allVars, vars, callVars, handover
  <2> QED
    BY <2>1, <2>2, <2>3, <2>4, <2>5, <2>6, <2>7, <2>8, <2>9, <2>10
    DEF HandoverNext, GoesOn, Starts
<1> QED
  BY <1>1, <1>2, HandoverIsClient, StagesStep, PTL DEF HandoverSpec

\* The stored token rules the client: what is known of the client alone and
\* that the two tokens are synced, taken together (app.go:117-126,
\* client.go:75-98, 113-123).
THEOREM StoredTokenIsUsed == HandoverSpec => []StoredTokenRules
<1>1. StagesTyped /\ TokenFresh /\ WakeNotLost /\ TokenSynced => StoredTokenRules
  <2> SUFFICES ASSUME StagesTyped, TokenFresh, WakeNotLost, TokenSynced,
                      ~stale, \A c \in Callers : stage[c] \notin UnderWay
               PROVE  /\ Active => runToken = stored \/ cancelled[conn] \/ missed
                      /\ (pc = "idle" /\ stored # NoToken) =>
                           wakeCh \/ \E c \in Callers : stage[c] = "handing"
    BY DEF StoredTokenRules
  <2>1. token = stored
    BY DEF TokenSynced
  <2>2. Active => runToken = stored \/ cancelled[conn] \/ missed
    BY <2>1 DEF TokenFresh
  <2>3. ASSUME NEW c \in Callers, step[c] \in {"cleared", "set", "wake"}
        PROVE  stage[c] = "handing"
    BY <2>3 DEF StagesTyped, UnderWay
  <2> QED
    BY <2>1, <2>2, <2>3 DEF WakeNotLost
<1> QED
  BY <1>1, HandoverIsClient, TokenStaysFresh, WakeIsNotLost, TokenIsSynced, PTL
=============================================================================
