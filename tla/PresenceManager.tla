-------------------------- MODULE PresenceManager --------------------------
(***************************************************************************)
(* How the application decides what to show (internal/app/app.go): every   *)
(* operation copies the stored configuration, asks Jellyfin what is        *)
(* playing, consults the cache of the last Jellyfin presence and sets the  *)
(* presence of the gateway client.  The poll loop, the configuration       *)
(* handlers and the webhook handlers do so in goroutines of their own, so  *)
(* each lock, request and hand-over is a step.                             *)
(*                                                                         *)
(* Data is abstracted to what tells presences apart: the custom part of    *)
(* the configuration, and what Jellyfin plays.  The client's SetPresence   *)
(* is the variable desired; how it reaches Discord is GatewayClient.       *)
(* Jellyfin and the passing of time are the environment.                   *)
(***************************************************************************)
EXTENDS Naturals

CONSTANTS
  Handlers,   \* HTTP handlers
  Poller,     \* the goroutine of App.Run and pollLoop
  Customs,    \* custom presences (config.CustomPresence)
  Configs,    \* configurations the store may hold
  Nothing     \* no configuration, request or presence

\* jellyfin: the mode has ModeJellyfin, and URL and API key are set;
\* clearOnPause: Jellyfin.ClearOnPause.
ConfigType == [jellyfin : BOOLEAN, clearOnPause : BOOLEAN, custom : Customs]

\* What may be shown: the custom presence, or what Jellyfin plays.
Presences == [kind : {"custom", "jellyfin"}, custom : Customs, paused : BOOLEAN]

ASSUME ManagerAssumption ==
  /\ Poller \notin Handlers
  /\ Configs \subseteq ConfigType
  /\ Nothing \notin Configs \cup Presences

VARIABLES
  cfg,       \* the configuration in the store
  server,    \* what Jellyfin would answer: an error or the state of playback
  cached,    \* jellyfinCache's presence while it is valid, Nothing otherwise
  fresh,     \* the cache is valid and younger than its TTL
  desired,   \* Client.desired
  wakePoll,  \* App.wakePoll holds its one element
  pc,        \* per worker: where it is
  job,       \* per worker: the operation it runs
  copy,      \* per worker: its copy of the configuration
  seen,      \* per worker: what Jellyfin answered
  result,    \* per worker: the presence it is about to set
  cleared,   \* history, per worker: it invalidated the cache and Jellyfin has
             \* not told it since that something plays
  raced      \* history, per worker: another one filled the cache since it did

Workers == Handlers \cup {Poller}

cache    == <<cached, fresh>>
locals   == <<job, copy, seen, result>>
history  == <<cleared, raced>>
vars == <<cfg, server, cache, desired, wakePoll, pc, locals, history>>

Playback == {"playing", "paused", "none"}
Answers  == Playback \cup {"error"}

\* What a worker may show.
Custom(k)      == [kind |-> "custom", custom |-> k.custom, paused |-> FALSE]
Jellyfin(k, a) == [kind |-> "jellyfin", custom |-> k.custom, paused |-> a = "paused"]

\* PresenceFromSessions, PresenceFromWebhook: there is an activity to show.
Shows(k, a) == a = "playing" \/ (a = "paused" /\ ~k.clearOnPause)

At(w, where) == pc' = [pc EXCEPT ![w] = where]

Init ==
  /\ cfg \in Configs /\ server \in Answers
  /\ cached = Nothing /\ fresh = FALSE
  /\ desired = Nothing /\ wakePoll = FALSE
  /\ pc = [w \in Workers |-> IF w = Poller THEN "boot" ELSE "idle"]
  /\ job = [w \in Workers |-> "none"]
  /\ copy = [w \in Workers |-> Nothing]
  /\ seen = [w \in Workers |-> Nothing]
  /\ result = [w \in Workers |-> Nothing]
  /\ cleared = [w \in Workers |-> FALSE]
  /\ raced = [w \in Workers |-> FALSE]

-----------------------------------------------------------------------------
(* applyModePresence, run by every worker on its copy.                     *)

\* Custom is the base; with Jellyfin on, its sessions are asked for first.
Fetch(w) ==
  /\ pc[w] = "apply"
  /\ IF copy[w].jellyfin
     THEN /\ seen' = [seen EXCEPT ![w] = server]
          /\ At(w, "overlay")
          /\ UNCHANGED result
     ELSE /\ result' = [result EXCEPT ![w] = Custom(copy[w])]
          /\ At(w, "set")
          /\ UNCHANGED seen
  /\ UNCHANGED <<cfg, server, cache, desired, wakePoll, job, copy, history>>

\* There is activity: show it and cache it.
OverlayActive(w) ==
  /\ pc[w] = "overlay" /\ Shows(copy[w], seen[w])
  /\ result' = [result EXCEPT ![w] = Jellyfin(copy[w], seen[w])]
  /\ cached' = Jellyfin(copy[w], seen[w]) /\ fresh' = TRUE
  /\ seen' = [seen EXCEPT ![w] = Nothing]
  /\ cleared' = [cleared EXCEPT ![w] = FALSE]
  /\ raced' = [v \in Workers |-> v # w /\ cleared[v]]
  /\ At(w, "set")
  /\ UNCHANGED <<cfg, server, desired, wakePoll, job, copy>>

\* Mutant of Cached: the cache is served whether it is valid or not.
CachedAnyway(k) == cached

\* The cache serves while it is valid and younger than its TTL.
Cached(k) == IF fresh THEN cached ELSE Custom(k)

\* There is none, or no answer: what the cache gives, or the custom presence.
\* Past its TTL, an answer invalidates it.
OverlayCached(w) ==
  /\ pc[w] = "overlay" /\ ~Shows(copy[w], seen[w])
  /\ result' = [result EXCEPT ![w] = Cached(copy[w])]
  /\ cached' = IF fresh \/ seen[w] = "error" THEN cached ELSE Nothing
  /\ seen' = [seen EXCEPT ![w] = Nothing]
  /\ At(w, "set")
  /\ UNCHANGED <<cfg, server, fresh, desired, wakePoll, job, copy, history>>

\* Where a worker goes after applyModePresence.
Onward(w) ==
  CASE job[w] = "boot"   -> "top"
    [] job[w] = "poll"   -> "wait"
    [] job[w] = "update" -> "notify"
    [] OTHER             -> "idle"

\* discord.SetPresence, and applyModePresence returns.
Set(w) ==
  /\ pc[w] = "set"
  /\ desired' = result[w]
  /\ At(w, Onward(w))
  /\ job' = IF job[w] = "update" THEN job ELSE [job EXCEPT ![w] = "none"]
  /\ copy' = IF w = Poller THEN copy ELSE [copy EXCEPT ![w] = Nothing]
  /\ result' = [result EXCEPT ![w] = Nothing]
  /\ cleared' = [cleared EXCEPT ![w] = FALSE]
  /\ raced' = [raced EXCEPT ![w] = FALSE]
  /\ UNCHANGED <<cfg, server, cache, wakePoll, seen>>

\* Mutant of Invalidate: the cache is left alone.
InvalidateNothing(w) ==
  /\ pc[w] = "invalidate"
  /\ cleared' = [cleared EXCEPT ![w] = TRUE]
  /\ raced' = [raced EXCEPT ![w] = FALSE]
  /\ At(w, "apply")
  /\ UNCHANGED <<cfg, server, cache, desired, wakePoll, locals>>

\* jellyfinCache.valid = false, before applyModePresence.
Invalidate(w) ==
  /\ pc[w] = "invalidate"
  /\ cached' = Nothing /\ fresh' = FALSE
  /\ cleared' = [cleared EXCEPT ![w] = TRUE]
  /\ raced' = [raced EXCEPT ![w] = FALSE]
  /\ At(w, "apply")
  /\ UNCHANGED <<cfg, server, desired, wakePoll, locals>>

-----------------------------------------------------------------------------
(* App.Run and pollLoop.                                                   *)

\* App.Run reads the configuration and applies it before it starts pollLoop.
Boot ==
  /\ pc[Poller] = "boot"
  /\ copy' = [copy EXCEPT ![Poller] = cfg]
  /\ job' = [job EXCEPT ![Poller] = "boot"]
  /\ At(Poller, "apply")
  /\ UNCHANGED <<cfg, server, cache, desired, wakePoll, seen, result, history>>

\* The top of the loop: read the configuration, poll if Jellyfin is on.
PollReads ==
  /\ pc[Poller] = "top"
  /\ copy' = [copy EXCEPT ![Poller] = cfg]
  /\ At(Poller, IF cfg.jellyfin THEN "ask" ELSE "wait")
  /\ UNCHANGED <<cfg, server, cache, desired, wakePoll, job, seen, result,
                 history>>

\* pollOnce's own request.
PollAsks ==
  /\ pc[Poller] = "ask"
  /\ seen' = [seen EXCEPT ![Poller] = server]
  /\ At(Poller, "answered")
  /\ UNCHANGED <<cfg, server, cache, desired, wakePoll, job, copy, result,
                 history>>

\* Mutant of AfterAnswer: nothing to show ends the poll early, as an error does.
AfterAnswerEarly ==
  IF seen[Poller] \in Playback /\ Shows(copy[Poller], seen[Poller])
  THEN "apply" ELSE "wait"

\* Where pollOnce goes from its answer.
AfterAnswer ==
  IF seen[Poller] = "error" THEN "wait"
  ELSE IF Shows(copy[Poller], seen[Poller]) THEN "apply" ELSE "invalidate"

\* An error ends the poll; no activity invalidates the cache; then apply.
PollAnswered ==
  /\ pc[Poller] = "answered"
  /\ At(Poller, AfterAnswer)
  /\ job' = IF seen[Poller] = "error" THEN job ELSE [job EXCEPT ![Poller] = "poll"]
  /\ seen' = [seen EXCEPT ![Poller] = Nothing]
  /\ UNCHANGED <<cfg, server, cache, desired, wakePoll, copy, result, history>>

\* The select at the bottom of the loop: wakePoll, or the interval is over.
PollWakes ==
  /\ pc[Poller] = "wait" /\ wakePoll
  /\ wakePoll' = FALSE
  /\ At(Poller, "top")
  /\ UNCHANGED <<cfg, server, cache, desired, locals, history>>

PollTimer ==
  /\ pc[Poller] = "wait"
  /\ At(Poller, "top")
  /\ UNCHANGED <<cfg, server, cache, desired, wakePoll, locals, history>>

-----------------------------------------------------------------------------
(* HTTP handlers.                                                          *)

\* Mutant of UpdateStores: the new configuration is left to the poll loop.
UpdateLeavesToPoll(h, k) ==
  /\ pc[h] = "idle"
  /\ cfg' = k
  /\ copy' = [copy EXCEPT ![h] = k]
  /\ job' = [job EXCEPT ![h] = "update"]
  /\ At(h, "notify")
  /\ UNCHANGED <<server, cache, desired, wakePoll, seen, result, history>>

\* UpdateConfig: store.Update returns the configuration it stored.
UpdateStores(h, k) ==
  /\ pc[h] = "idle"
  /\ cfg' = k
  /\ copy' = [copy EXCEPT ![h] = k]
  /\ job' = [job EXCEPT ![h] = "update"]
  /\ At(h, "apply")
  /\ UNCHANGED <<server, cache, desired, wakePoll, seen, result, history>>

\* Mutant of UpdateNotifies: notifyPoll is forgotten.
UpdateSilent(h) ==
  /\ pc[h] = "notify"
  /\ job' = [job EXCEPT ![h] = "none"]
  /\ At(h, "idle")
  /\ UNCHANGED <<cfg, server, cache, desired, wakePoll, copy, seen, result,
                 history>>

\* UpdateConfig's notifyPoll.
UpdateNotifies(h) ==
  /\ pc[h] = "notify"
  /\ wakePoll' = TRUE
  /\ job' = [job EXCEPT ![h] = "none"]
  /\ At(h, "idle")
  /\ UNCHANGED <<cfg, server, cache, desired, copy, seen, result, history>>

\* ApplyWebhook: an event that shows nothing invalidates the cache first.
\* Events come when Jellyfin likes, late or out of order.
WebhookReads(h, event) ==
  /\ pc[h] = "idle"
  /\ copy' = [copy EXCEPT ![h] = cfg]
  /\ job' = [job EXCEPT ![h] = "webhook"]
  /\ At(h, IF Shows(cfg, event) THEN "apply" ELSE "invalidate")
  /\ UNCHANGED <<cfg, server, cache, desired, wakePoll, seen, result, history>>

-----------------------------------------------------------------------------
(* The environment.                                                        *)

ServerChanges ==
  /\ server' \in Answers \ {server}
  /\ UNCHANGED <<cfg, cache, desired, wakePoll, pc, locals, history>>

\* jellyfinCacheTTL has passed since the cache was filled.
Expire ==
  /\ fresh /\ fresh' = FALSE
  /\ UNCHANGED <<cfg, server, cached, desired, wakePoll, pc, locals, history>>

-----------------------------------------------------------------------------

Apply(w) == Fetch(w) \/ OverlayActive(w) \/ OverlayCached(w) \/ Set(w) \/ Invalidate(w)

PollerNext ==
  \/ Boot \/ PollReads \/ PollAsks \/ PollAnswered \/ PollWakes \/ PollTimer
  \/ Apply(Poller)

HandlerStarts(h) ==
  \/ \E k \in Configs : UpdateStores(h, k)
  \/ \E event \in Playback : WebhookReads(h, event)

HandlerGoesOn(h) == UpdateNotifies(h) \/ Apply(h)

Next ==
  \/ PollerNext
  \/ \E h \in Handlers : HandlerStarts(h) \/ HandlerGoesOn(h)
  \/ ServerChanges \/ Expire

Spec == Init /\ [][Next]_vars

\* Goroutines run, requests end (5s and 12s timeouts), the poll interval
\* passes and the cache ages; nobody has to change or to send anything.
FairSpec ==
  /\ Spec
  /\ WF_vars(PollerNext)
  /\ \A h \in Handlers : WF_vars(HandlerGoesOn(h))
  /\ WF_vars(Expire)

-----------------------------------------------------------------------------

\* Every variable has its type; a cache that may be served holds a presence,
\* and no worker calls SetPresence with nothing (app.go:301-337).
TypeOK ==
  /\ cfg \in Configs /\ server \in Answers
  /\ fresh \in BOOLEAN /\ wakePoll \in BOOLEAN
  /\ cached \in Presences \cup {Nothing} /\ desired \in Presences \cup {Nothing}
  /\ pc \in [Workers -> {"boot", "top", "ask", "answered", "wait", "idle",
                         "invalidate", "apply", "overlay", "set", "notify"}]
  /\ job \in [Workers -> {"none", "boot", "poll", "update", "webhook"}]
  /\ copy \in [Workers -> Configs \cup {Nothing}]
  /\ seen \in [Workers -> Answers \cup {Nothing}]
  /\ result \in [Workers -> Presences \cup {Nothing}]
  /\ cleared \in [Workers -> BOOLEAN] /\ raced \in [Workers -> BOOLEAN]
  /\ fresh => cached # Nothing
  /\ \A w \in Workers : pc[w] = "set" => result[w] # Nothing

\* A worker that invalidated the cache, because a poll or a webhook found
\* nothing playing, sets the custom presence, unless Jellyfin itself answered
\* that something plays or another worker filled the cache meanwhile.
StopReverts ==
  \A w \in Workers :
    (pc[w] = "set" /\ cleared[w] /\ ~raced[w]) => result[w].kind = "custom"

\* A poll loop that waits with an old configuration is about to be woken: the
\* handler that stored the new one has not come to notifyPoll yet, or the
\* element is in wakePoll (app.go:117-126, 184-203, 382-387).
PollNotLost ==
  (pc[Poller] = "wait" /\ copy[Poller] # cfg) =>
    wakePoll \/ \E h \in Handlers : job[h] = "update"

\* What should be shown when the configuration is k and Jellyfin answers a.
Target(k, a) == IF k.jellyfin /\ Shows(k, a) THEN Jellyfin(k, a) ELSE Custom(k)

\* With Jellyfin on and answering, the presence becomes the right one and
\* stays it, whatever stale operations were under way when the configuration
\* and the playback last changed.
Settles ==
  \A k \in Configs : \A a \in Playback :
    <>[](cfg = k /\ k.jellyfin /\ server = a) => <>[](desired = Target(k, a))

-----------------------------------------------------------------------------
(* What the documents say and the code does not do.                        *)

\* "Overlay jellyfin activity only if jellyfin mode is enabled AND configured"
\* (app.go:260): once Jellyfin stays off, the custom presence is shown.
CustomModeShowsCustom ==
  \A k \in Configs :
    <>[](cfg = k /\ ~k.jellyfin) => <>[](desired = Custom(k))
=============================================================================
