--------------------------- MODULE TokenHandover ---------------------------
(***************************************************************************)
(* How the Discord token gets from the store to the gateway client: every  *)
(* operation of the application (internal/app/app.go) takes a copy of the  *)
(* configuration and calls Configure with it, in a goroutine of its own    *)
(* and in no order.  A caller of GatewayClient is the start of the         *)
(* application (Booter) or an HTTP handler; the store is its token.        *)
(*                                                                         *)
(* The calls of SetPresence that go with them are PresenceManager's.       *)
(***************************************************************************)
EXTENDS GatewayClient

CONSTANT Booter  \* the caller that is App.Run

ASSUME HandoverAssumption == Booter \in Callers

VARIABLES
  stored,   \* the token in the store
  stage,    \* per caller: how far its operation is
  carried,  \* per caller: the token it has copied
  stale     \* history: the last token handed over was not the stored one

handover == <<stored, stage, carried, stale>>
allVars  == <<vars, handover>>

Handlers == Callers \ {Booter}

\* The stages from the copy to the call of Configure with it.
UnderWay == {"read", "clear", "clearing", "pause", "hand"}

MovesTo(c, where) == stage' = [stage EXCEPT ![c] = where]
Carries(c, t)     == carried' = [carried EXCEPT ![c] = t]

HandoverInit ==
  /\ Init
  /\ stored \in Tokens \cup {NoToken}
  /\ stage = [c \in Callers |-> IF c = Booter THEN "read" ELSE "idle"]
  /\ carried = [c \in Callers |-> NoToken]
  /\ stale = FALSE

-----------------------------------------------------------------------------
(* Operations.                                                             *)

\* App.Run: store.Get, then applyDiscordConfig.
BootReads ==
  /\ stage[Booter] = "read"
  /\ Carries(Booter, stored) /\ MovesTo(Booter, "hand")
  /\ UNCHANGED <<vars, stored, stale>>

\* UpdateConfig: store.Update returns what it has stored, then the same.
UpdateStores(h, t) ==
  /\ stage[h] = "idle"
  /\ stored' = t
  /\ Carries(h, t) /\ MovesTo(h, "hand")
  /\ UNCHANGED <<vars, stale>>

\* ReconnectDiscord, in a goroutine that its handler starts: store.Get.
ReconnectReads(h) ==
  /\ stage[h] = "idle"
  /\ Carries(h, stored) /\ MovesTo(h, "clear")
  /\ UNCHANGED <<vars, stored, stale>>

\* Its Configure(""), up to the end of Configure's own lock.
ReconnectClears(h) ==
  /\ stage[h] = "clear"
  /\ ConfigureSet(h, NoToken)
  /\ MovesTo(h, "clearing")
  /\ UNCHANGED <<stored, carried, stale>>

\* Mutant of PauseEnds: ReconnectDiscord does not configure again.
PauseEndsAll(h) ==
  /\ stage[h] = "pause"
  /\ Carries(h, NoToken) /\ MovesTo(h, "idle")
  /\ UNCHANGED <<vars, stored, stale>>

\* Its 200ms are over.
PauseEnds(h) ==
  /\ stage[h] = "pause"
  /\ MovesTo(h, "hand")
  /\ UNCHANGED <<vars, stored, carried, stale>>

\* Configure with the copy, up to the end of its lock.
HandsOver(c) ==
  /\ stage[c] = "hand"
  /\ ConfigureSet(c, carried[c])
  /\ stale' = (carried[c] # stored)
  /\ Carries(c, NoToken) /\ MovesTo(c, "handing")
  /\ UNCHANGED stored

\* The rest of either Configure.
Reports(c) == ConfigureStatus(c) /\ UNCHANGED handover

\* Configure returns: ReconnectDiscord's first one to its pause.  App.Run
\* starts discord.Run after its own.
Returns(c) ==
  /\ ConfigureWake(c)
  /\ MovesTo(c, IF stage[c] = "clearing" THEN "pause"
                ELSE IF c = Booter THEN "booted" ELSE "idle")
  /\ UNCHANGED <<stored, carried, stale>>

-----------------------------------------------------------------------------

Booted == stage[Booter] = "booted"

GoesOn(c) ==
  \/ c = Booter /\ BootReads
  \/ ReconnectClears(c) \/ PauseEnds(c) \/ HandsOver(c) \/ Reports(c) \/ Returns(c)

Starts(h) ==
  \/ \E t \in Tokens \cup {NoToken} : UpdateStores(h, t)
  \/ ReconnectReads(h)

\* The client's own goroutines, and the shutdown.
ClientNext ==
  /\ \/ Booted /\ (RunNext \/ \E s \in Slots : WriterNext(s))
     \/ Tick \/ Shutdown
  /\ UNCHANGED handover

HandoverNext ==
  \/ \E c \in Callers : GoesOn(c)
  \/ \E h \in Handlers : Starts(h)
  \/ ClientNext

HandoverSpec == HandoverInit /\ [][HandoverNext]_allVars

\* Operations end, Run moves on as in GatewayClient, and a writer whose context
\* is done returns in the end.  No presence changes, so a writer does not more.
HandoverFairSpec ==
  /\ HandoverSpec
  /\ \A c \in Callers : WF_allVars(GoesOn(c))
  /\ WF_allVars(Booted /\ RunMoves /\ UNCHANGED handover)
  /\ \A s \in Slots : SF_allVars(Booted /\ WriterStops(s) /\ UNCHANGED handover)

-----------------------------------------------------------------------------

\* Every variable has its type, and the client's keep theirs.
HandoverTypeOK ==
  /\ TypeOK
  /\ stored \in Tokens \cup {NoToken}
  /\ stage \in [Callers -> UnderWay \cup {"handing", "booted", "idle"}]
  /\ carried \in [Callers -> Tokens \cup {NoToken}]
  /\ stale \in BOOLEAN

\* When no operation is on its way to Configure, the client has the stored
\* token, or the last token it was given was out of date by then: the copy
\* taken before another operation's change, or before ReconnectDiscord's pause
\* (app.go:66-69, 117-123, 156-168).
TokenSynced ==
  \/ token = stored
  \/ stale
  \/ \E c \in Callers : stage[c] \in UnderWay

\* From then on the client acts on the stored token alone: a connection has it
\* or has been told to stop, unless the client missed the change, and Run does
\* not sleep on a token it was given, however the calls overlapped with its
\* reads and its installs (app.go:117-126, client.go:75-98, 113-129).
StoredTokenRules ==
  /\ TokenSynced
  /\ (~stale /\ \A c \in Callers : stage[c] \notin UnderWay) =>
       /\ Active => runToken = stored \/ cancelled[conn] \/ missed
       /\ (pc = "idle" /\ stored # NoToken) =>
            wakeCh \/ \E c \in Callers : stage[c] = "handing"

\* What is saved is used: when the stored token stays, and was not handed over
\* out of order, it is the one of every connection in the end, through all the
\* overlapping calls before (app.go:117-126, client.go:75-98, 113-160).
SavedTokenUsed ==
  (<>[][stored' = stored]_allVars /\ <>[](~stale /\ ~missed))
    => <>[](Active => runToken = stored)
=============================================================================
