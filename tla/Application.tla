---------------------------- MODULE Application ----------------------------
(***************************************************************************)
(* The application as a whole, from the stored configuration to what       *)
(* Discord has: the presence manager (internal/app/app.go) on top of the   *)
(* gateway client, of which only the promise is used here, the feed that   *)
(* module GatewayClient implements.  They share Client.desired; what the   *)
(* manager does and what the client does interleave freely, and sessions   *)
(* come and go.                                                            *)
(***************************************************************************)
EXTENDS PresenceManager

CONSTANT Offline  \* what Discord has outside a session

ASSUME ApplicationAssumption == Offline \notin Presences \cup {Nothing}

VARIABLES
  taken,     \* the presence on its way to Discord
  shown,     \* the presence Discord has
  atRest,    \* the client sends nothing more until it is asked to
  overtaken  \* history: the last SetPresence came from a copy of the
             \* configuration that was no longer the stored one

\* Client.desired is the zero presence, here Nothing, before the first call.
Client == INSTANCE PresenceFeed
            WITH Presences <- Presences \cup {Nothing}, NoPresence <- Offline

appVars == <<vars, taken, shown, atRest, overtaken>>

AppInit ==
  /\ Init
  /\ taken = Offline /\ shown = Offline /\ atRest = FALSE
  /\ overtaken = FALSE

-----------------------------------------------------------------------------

\* The end of applyModePresence: SetPresence asks the client.
SetsPresence(w) ==
  /\ Set(w)
  /\ Client!Ask
  /\ overtaken' = (copy[w] # cfg)

\* Whatever else the manager does leaves the client alone.
ManagerAlone ==
  /\ Next
  /\ \A w \in Workers : pc[w] = "set" => pc'[w] = "set"
  /\ UNCHANGED <<taken, shown, atRest, overtaken>>

\* App.Run has set the first presence and started discord.Run.
Started == pc[Poller] # "boot" /\ job[Poller] # "boot"

\* The client connects, identifies, sends, loses its session, rests.
ClientAlone ==
  /\ Started
  /\ Client!Take \/ Client!Deliver \/ Client!Lose \/ Client!Turn
  /\ UNCHANGED <<vars, overtaken>>

AppNext ==
  \/ \E w \in Workers : SetsPresence(w)
  \/ ManagerAlone
  \/ ClientAlone

AppSpec == AppInit /\ [][AppNext]_appVars

-----------------------------------------------------------------------------

\* Every variable has its type, and the manager's keep theirs.
AppTypeOK ==
  /\ TypeOK
  /\ {taken, shown} \subseteq Presences \cup {Nothing, Offline}
  /\ atRest \in BOOLEAN /\ overtaken \in BOOLEAN

\* Worker w is inside applyModePresence, or about to call it.
Applying(w) == pc[w] \in {"boot", "invalidate", "apply", "overlay", "set"}

\* The presence p belongs to the configuration k: it is k's custom presence, or
\* one of Jellyfin's while k shows Jellyfin.
Suits(p, k) ==
  \/ p = Custom(k)
  \/ p \in Presences /\ p.kind = "jellyfin" /\ k.jellyfin

\* When the client is at rest and nobody is applying anything, what Discord has
\* belongs to the stored configuration, however updates, polls, webhooks and
\* sessions have overlapped, unless the copy behind the last SetPresence was
\* overtaken by an update between its read and that call (app.go:117-126,
\* 184-246, 254-337, client.go:100-105, 306-352).
SavedIsShown ==
  (atRest /\ ~overtaken /\ \A w \in Workers : ~Applying(w)) => Suits(shown, cfg)
=============================================================================
