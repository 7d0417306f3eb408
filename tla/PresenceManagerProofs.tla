----------------------- MODULE PresenceManagerProofs -----------------------
(***************************************************************************)
(* PresenceManager for every set of handlers, configurations and custom    *)
(* presences: its types, that a worker which invalidated the cache reverts *)
(* to the custom presence (StopReverts), and that the poll loop does not   *)
(* sleep through a new configuration (PollNotLost).  The three share       *)
(* LocalsInv, which says what a worker's locals hold where it is.  Then    *)
(* the manager on top of the client's promise, module Application: its     *)
(* types, and that what Discord has belongs to the stored configuration    *)
(* (SavedIsShown), from SuitsInv, LastInv and ClientInv.                   *)
(***************************************************************************)
EXTENDS Application, TLAPS

\* The plain types, without what TypeOK says about the contents.
Typed ==
  /\ cfg \in Configs /\ server \in Answers
  /\ fresh \in BOOLEAN /\ wakePoll \in BOOLEAN
  /\ cached \in Presences \cup {Nothing} /\ desired \in Presences \cup {Nothing}
  /\ pc \in [Workers -> {"boot", "top", "ask", "answered", "wait", "idle",
                         "invalidate", "apply", "overlay", "set", "notify"}]
  /\ job \in [Workers -> {"none", "boot", "poll", "update", "webhook"}]
  /\ copy \in [Workers -> Configs \cup {Nothing}]
  /\ seen \in [Workers -> Answers \cup {Nothing}]
  /\ result \in [Workers -> Presences \cup {Nothing}]
  /\ cleared \in [Workers -> BOOLEAN] /\ raced \in [Workers -> BOOLEAN]

\* A worker that works on a presence has its copy, the answer it asked for and
\* the presence it computed.
LocalsInv ==
  /\ fresh => cached # Nothing
  /\ \A w \in Workers :
       /\ pc[w] \in {"ask", "answered", "invalidate", "apply", "overlay"} =>
            copy[w] \in Configs
       /\ pc[w] \in {"answered", "overlay"} => seen[w] \in Answers
       /\ pc[w] = "set" => result[w] # Nothing

\* A worker that invalidated the cache finds it invalid when it comes to it,
\* and has the custom presence once past it, unless another one filled it.
ClearedInv ==
  \A w \in Workers :
    /\ cleared[w] => pc[w] \in {"apply", "overlay", "set"}
    /\ (cleared[w] /\ ~raced[w] /\ pc[w] # "set") => ~fresh
    /\ (cleared[w] /\ ~raced[w] /\ pc[w] = "set") => result[w].kind = "custom"

\* Somebody is about to wake the poll loop.
WakeComing == wakePoll \/ \E h \in Handlers : job[h] = "update"

\* From the moment it has read the configuration, the poll loop's copy is the
\* stored one or a wake-up is coming; an update is under way until it notifies.
WakeInv ==
  /\ (pc[Poller] \notin {"boot", "top"} /\ job[Poller] # "boot"
      /\ copy[Poller] # cfg) => WakeComing
  /\ job[Poller] # "update"
  /\ \A h \in Handlers : job[h] = "update" => pc[h] # "idle"
  /\ job[Poller] = "boot" => pc[Poller] \in {"apply", "overlay", "set"}
  /\ pc[Poller] \in {"top", "ask", "answered", "wait"} => job[Poller] = "none"

-----------------------------------------------------------------------------

\* The two ways to build a presence.
LEMMA PresenceTyped ==
  ASSUME NEW k \in Configs, NEW a
  PROVE  /\ Custom(k) \in Presences /\ Custom(k) # Nothing
         /\ Custom(k).kind = "custom"
         /\ Jellyfin(k, a) \in Presences /\ Jellyfin(k, a) # Nothing
<1>1. k.custom \in Customs
  BY ManagerAssumption DEF ConfigType
<1>2. Custom(k) \in Presences /\ Custom(k).kind = "custom"
  BY <1>1 DEF Custom, Presences
<1>3. (a = "paused") \in BOOLEAN
  OBVIOUS
<1>4. Jellyfin(k, a) \in Presences
  BY <1>1, <1>3 DEF Jellyfin, Presences
<1> QED
  BY <1>2, <1>4, ManagerAssumption

LEMMA OnwardTyped ==
  ASSUME NEW w
  PROVE  Onward(w) \in {"top", "wait", "notify", "idle"}
BY DEF Onward

LEMMA TypedInit == Init => Typed /\ LocalsInv
<1> SUFFICES ASSUME Init PROVE Typed /\ LocalsInv
  OBVIOUS
<1>1. pc \in [Workers -> {"boot", "idle"}]
  BY DEF Init
<1>2. Typed
  BY <1>1 DEF Init, Typed
<1>3. LocalsInv
  BY <1>1 DEF Init, LocalsInv
<1> QED
  BY <1>2, <1>3

\* applyModePresence keeps the types and the locals.
LEMMA ApplyTyped ==
  ASSUME Typed, LocalsInv, NEW w \in Workers, Apply(w)
  PROVE  Typed' /\ LocalsInv'
<1> USE ManagerAssumption DEF cache, locals, history, At
<1>1. CASE Fetch(w)
  <2>1. copy[w] \in Configs /\ pc[w] = "apply"
    BY <1>1 DEF Fetch, LocalsInv
  <2>2. CASE copy[w].jellyfin
    BY <1>1, <2>1, <2>2 DEF Fetch, Typed, LocalsInv
  <2>3. CASE ~copy[w].jellyfin
    BY <1>1, <2>1, <2>3, PresenceTyped DEF Fetch, Typed, LocalsInv
  <2> QED
    BY <2>2, <2>3
<1>2. CASE OverlayActive(w)
  <2>1. copy[w] \in Configs
    BY <1>2 DEF OverlayActive, LocalsInv
  <2> DEFINE j == Jellyfin(copy[w], seen[w])
  <2>2. j \in Presences /\ j # Nothing
    BY <2>1, PresenceTyped
  <2>3. result' = [result EXCEPT ![w] = j] /\ cached' = j
    BY <1>2 DEF OverlayActive
  <2> HIDE DEF j
  <2> QED
    BY <1>2, <2>2, <2>3 DEF OverlayActive, Typed, LocalsInv
<1>3. CASE OverlayCached(w)
  <2>1. copy[w] \in Configs
    BY <1>3 DEF OverlayCached, LocalsInv
  <2>2. Cached(copy[w]) \in Presences /\ Cached(copy[w]) # Nothing
    BY <2>1, PresenceTyped DEF Cached, Typed, LocalsInv
  <2>3. cached' \in {cached, Nothing} /\ (fresh => cached' = cached)
    BY <1>3 DEF OverlayCached
  <2> QED
    BY <1>3, <2>2, <2>3 DEF OverlayCached, Typed, LocalsInv
<1>4. CASE Set(w)
  <2>1. pc[w] = "set" /\ result[w] \in Presences
    BY <1>4 DEF Set, Typed, LocalsInv
  <2>2. pc' = [pc EXCEPT ![w] = Onward(w)]
    BY <1>4 DEF Set
  <2>3. copy' = copy \/ copy' = [copy EXCEPT ![w] = Nothing]
    BY <1>4 DEF Set
  <2> QED
    BY <1>4, <2>1, <2>2, <2>3, OnwardTyped DEF Set, Typed, LocalsInv
<1>5. CASE Invalidate(w)
  BY <1>5 DEF Invalidate, Typed, LocalsInv
<1> QED
  BY <1>1, <1>2, <1>3, <1>4, <1>5 DEF Apply

\* So do the poll loop and the handlers.
LEMMA PollerTyped ==
  ASSUME Typed, LocalsInv, PollerNext
  PROVE  Typed' /\ LocalsInv'
<1> USE ManagerAssumption DEF cache, locals, history, At
<1>0. Poller \in Workers
  BY DEF Workers
<1>1. CASE Boot
  BY <1>0, <1>1 DEF Boot, Typed, LocalsInv
<1>2. CASE PollReads
  BY <1>0, <1>2 DEF PollReads, Typed, LocalsInv
<1>3. CASE PollAsks
  BY <1>0, <1>3 DEF PollAsks, Typed, LocalsInv
<1>4. CASE PollAnswered
  <2>1. AfterAnswer \in {"wait", "apply", "invalidate"}
    BY DEF AfterAnswer
  <2>2. job' \in {job, [job EXCEPT ![Poller] = "poll"]}
    BY <1>4 DEF PollAnswered
  <2>3. job' \in [Workers -> {"none", "boot", "poll", "update", "webhook"}]
    BY <1>0, <2>2 DEF Typed
  <2>4. Typed'
    BY <1>0, <1>4, <2>1, <2>3 DEF PollAnswered, Typed
  <2>5. copy[Poller] \in Configs
    BY <1>0, <1>4 DEF PollAnswered, LocalsInv
  <2>6. LocalsInv'
    BY <1>0, <1>4, <2>1, <2>5 DEF PollAnswered, Typed, LocalsInv
  <2> QED
    BY <2>4, <2>6
<1>5. CASE PollWakes \/ PollTimer
  <2>1. pc' = [pc EXCEPT ![Poller] = "top"] /\ wakePoll' \in {wakePoll, FALSE}
    BY <1>5 DEF PollWakes, PollTimer
  <2>2. UNCHANGED <<cfg, server, cache, desired, locals, history>>
    BY <1>5 DEF PollWakes, PollTimer
  <2>3. Typed'
    BY <1>0, <2>1, <2>2 DEF Typed
  <2>4. LocalsInv'
    BY <1>0, <2>1, <2>2 DEF Typed, LocalsInv
  <2> QED
    BY <2>3, <2>4
<1>6. CASE Apply(Poller)
  BY <1>0, <1>6, ApplyTyped
<1> QED
  BY <1>1, <1>2, <1>3, <1>4, <1>5, <1>6 DEF PollerNext

LEMMA HandlerTyped ==
  ASSUME Typed, LocalsInv, NEW h \in Handlers, HandlerStarts(h) \/ HandlerGoesOn(h)
  PROVE  Typed' /\ LocalsInv'
<1> USE ManagerAssumption DEF cache, locals, history, At
<1>0. h \in Workers
  BY DEF Workers
<1>1. ASSUME NEW k \in Configs, UpdateStores(h, k) PROVE Typed' /\ LocalsInv'
  BY <1>0, <1>1 DEF UpdateStores, Typed, LocalsInv
<1>2. ASSUME NEW e \in Playback, WebhookReads(h, e) PROVE Typed' /\ LocalsInv'
  BY <1>0, <1>2 DEF WebhookReads, Typed, LocalsInv
<1>3. CASE UpdateNotifies(h)
  BY <1>0, <1>3 DEF UpdateNotifies, Typed, LocalsInv
<1>4. CASE Apply(h)
  BY <1>0, <1>4, ApplyTyped
<1> QED
  BY <1>1, <1>2, <1>3, <1>4 DEF HandlerStarts, HandlerGoesOn

LEMMA TypedStep == Typed /\ LocalsInv /\ [Next]_vars => Typed' /\ LocalsInv'
<1> SUFFICES ASSUME Typed, LocalsInv, [Next]_vars PROVE Typed' /\ LocalsInv'
  OBVIOUS
<1> USE DEF cache, locals, history
<1>1. CASE ServerChanges
  BY <1>1 DEF ServerChanges, Typed, LocalsInv
<1>2. CASE Expire
  BY <1>2 DEF Expire, Typed, LocalsInv
<1>3. CASE UNCHANGED vars
  BY <1>3 DEF vars, Typed, LocalsInv
<1> QED
  BY <1>1, <1>2, <1>3, PollerTyped, HandlerTyped DEF Next

LEMMA LocalsInvariant == Spec => [](Typed /\ LocalsInv)
BY TypedInit, TypedStep, PTL DEF Spec

\* Every variable has its type, and no worker calls SetPresence with nothing.
THEOREM ManagerTyped == Spec => []TypeOK
<1>1. Typed /\ LocalsInv => TypeOK
  BY DEF Typed, LocalsInv, TypeOK
<1> QED
  BY <1>1, LocalsInvariant, PTL

-----------------------------------------------------------------------------

LEMMA ClearedInit == Init => ClearedInv
BY DEF Init, ClearedInv

\* applyModePresence keeps it: only OverlayActive makes the cache valid, and it
\* marks the others as raced.
LEMMA ApplyCleared ==
  ASSUME Typed, LocalsInv, ClearedInv, NEW w \in Workers, Apply(w)
  PROVE  ClearedInv'
<1> USE DEF cache, locals, history, At
<1>1. CASE Fetch(w)
  <2>1. copy[w] \in Configs /\ pc[w] = "apply"
    BY <1>1 DEF Fetch, LocalsInv
  <2>2. CASE copy[w].jellyfin
    BY <1>1, <2>1, <2>2 DEF Fetch, Typed, ClearedInv
  <2>3. CASE ~copy[w].jellyfin
    BY <1>1, <2>1, <2>3, PresenceTyped DEF Fetch, Typed, ClearedInv
  <2> QED
    BY <2>2, <2>3
<1>2. CASE OverlayActive(w)
  <2>1. /\ pc[w] = "overlay" /\ pc' = [pc EXCEPT ![w] = "set"]
        /\ cleared' = [cleared EXCEPT ![w] = FALSE]
        /\ raced' = [v \in Workers |-> v # w /\ cleared[v]]
        /\ \A v \in Workers : v # w => result'[v] = result[v]
    BY <1>2 DEF OverlayActive, Typed
  <2> SUFFICES ASSUME NEW v \in Workers, cleared'[v]
               PROVE  raced'[v] /\ pc'[v] \in {"apply", "overlay", "set"}
    BY DEF ClearedInv
  <2>2. v # w /\ cleared[v]
    BY <2>1 DEF Typed
  <2> QED
    BY <2>1, <2>2 DEF Typed, ClearedInv
<1>3. CASE OverlayCached(w)
  <2>1. copy[w] \in Configs
    BY <1>3 DEF OverlayCached, LocalsInv
  <2>2. ~fresh => Cached(copy[w]).kind = "custom"
    BY <2>1, PresenceTyped DEF Cached
  <2> DEFINE p == Cached(copy[w])
  <2>3. result' = [result EXCEPT ![w] = p] /\ pc[w] = "overlay"
    BY <1>3 DEF OverlayCached
  <2> HIDE DEF p
  <2>4. ~fresh => p.kind = "custom"
    BY <2>2 DEF p
  <2> QED
    BY <1>3, <2>3, <2>4 DEF OverlayCached, Typed, ClearedInv
<1>4. CASE Set(w)
  <2>1. /\ cleared' = [cleared EXCEPT ![w] = FALSE]
        /\ raced' = [raced EXCEPT ![w] = FALSE]
        /\ UNCHANGED fresh
        /\ \A v \in Workers : v # w => (pc'[v] = pc[v] /\ result'[v] = result[v])
    BY <1>4 DEF Set, Typed
  <2> QED
    BY <2>1 DEF Typed, ClearedInv
<1>5. CASE Invalidate(w)
  BY <1>5 DEF Invalidate, Typed, ClearedInv
<1> QED
  BY <1>1, <1>2, <1>3, <1>4, <1>5 DEF Apply

\* Whatever is not in applyModePresence moves a worker that has cleared nothing
\* or leaves the cache alone.
LEMMA ClearedStep == Typed /\ LocalsInv /\ ClearedInv /\ [Next]_vars => ClearedInv'
<1> SUFFICES ASSUME Typed, LocalsInv, ClearedInv, [Next]_vars PROVE ClearedInv'
  OBVIOUS
<1>1. ASSUME NEW w \in Workers, Apply(w) PROVE ClearedInv'
  BY <1>1, ApplyCleared
<1>2. ASSUME NEW w \in Workers, NEW where,
             pc[w] \notin {"apply", "overlay", "set"},
             pc' = [pc EXCEPT ![w] = where],
             where \notin {"overlay", "set"},
             UNCHANGED <<fresh, result, cleared, raced>>
      PROVE  ClearedInv'
  BY <1>2 DEF Typed, ClearedInv
<1>p. Poller \in Workers /\ Handlers \subseteq Workers
  BY DEF Workers
<1>3. CASE Boot \/ PollReads \/ PollAsks \/ PollWakes \/ PollTimer
  BY <1>2, <1>3, <1>p DEF Boot, PollReads, PollAsks, PollWakes, PollTimer,
     At, cache, locals, history
<1>4. CASE PollAnswered
  <2>1. AfterAnswer \in {"wait", "apply", "invalidate"}
    BY DEF AfterAnswer
  <2> QED
    BY <1>2, <1>4, <1>p, <2>1 DEF PollAnswered, At, cache, locals, history
<1>5. ASSUME NEW h \in Handlers,
             \/ \E k \in Configs : UpdateStores(h, k)
             \/ \E e \in Playback : WebhookReads(h, e)
             \/ UpdateNotifies(h)
      PROVE  ClearedInv'
  BY <1>2, <1>5, <1>p DEF UpdateStores, WebhookReads, UpdateNotifies, At, cache,
     locals, history
<1>6. CASE ServerChanges \/ Expire \/ UNCHANGED vars
  BY <1>6 DEF ServerChanges, Expire, vars, cache, locals, history, ClearedInv
<1> QED
  BY <1>1, <1>3, <1>4, <1>5, <1>6, <1>p
  DEF Next, PollerNext, HandlerStarts, HandlerGoesOn

\* Who invalidated the cache shows the custom presence, unless raced.
THEOREM StopsRevert == Spec => []StopReverts
<1>1. ClearedInv => StopReverts
  BY DEF ClearedInv, StopReverts
<1>2. Spec => []ClearedInv
  BY LocalsInvariant, ClearedInit, ClearedStep, PTL DEF Spec
<1> QED
  BY <1>1, <1>2, PTL

-----------------------------------------------------------------------------

LEMMA WakeInit == Init => WakeInv
BY ManagerAssumption DEF Init, WakeInv, Workers

\* applyModePresence keeps it: it touches no configuration and takes no
\* wake-up, and its Set leaves a job "update" to be notified.
LEMMA ApplyWake ==
  ASSUME Typed, LocalsInv, WakeInv, NEW w \in Workers, Apply(w)
  PROVE  WakeInv'
<1> USE ManagerAssumption DEF cache, locals, history, At
<1>p. Poller \in Workers /\ Handlers \subseteq Workers
  BY DEF Workers
<1>1. CASE Fetch(w) \/ OverlayActive(w) \/ OverlayCached(w) \/ Invalidate(w)
  <2>1. /\ pc[w] \in {"apply", "overlay", "invalidate"}
        /\ \E where \in {"apply", "overlay", "set"} :
             pc' = [pc EXCEPT ![w] = where]
        /\ UNCHANGED <<cfg, wakePoll, job, copy>>
    BY <1>1 DEF Fetch, OverlayActive, OverlayCached, Invalidate
  <2> QED
    BY <1>p, <2>1 DEF Typed, WakeInv, WakeComing
<1>2. CASE Set(w)
  <2>1. /\ pc[w] = "set" /\ pc' = [pc EXCEPT ![w] = Onward(w)]
        /\ job' = IF job[w] = "update" THEN job ELSE [job EXCEPT ![w] = "none"]
        /\ copy'[Poller] = copy[Poller]
        /\ UNCHANGED <<cfg, wakePoll>>
    BY <1>2, <1>p DEF Set, Typed
  <2>2. WakeComing => WakeComing'
    BY <1>p, <2>1 DEF Typed, WakeComing
  <2>3. CASE w = Poller
    <3>1. job'[Poller] = "none" /\ \A h \in Handlers : job'[h] = job[h] /\ pc'[h] = pc[h]
      BY <1>p, <2>1, <2>3 DEF Typed, WakeInv
    <3>2. job[Poller] = "boot" => pc'[Poller] = "top"
      BY <1>p, <2>1, <2>3 DEF Typed, Onward
    <3> QED
      BY <1>p, <2>1, <2>2, <2>3, <3>1, <3>2 DEF Typed, WakeInv
  <2>4. CASE w # Poller
    <3>1. job'[Poller] = job[Poller] /\ pc'[Poller] = pc[Poller]
      BY <1>p, <2>1, <2>4 DEF Typed
    <3>2. \A h \in Handlers : job'[h] = "update" => pc'[h] # "idle"
      BY <1>p, <2>1 DEF Typed, WakeInv, Onward
    <3> QED
      BY <2>1, <2>2, <3>1, <3>2 DEF WakeInv
  <2> QED
    BY <2>3, <2>4
<1> QED
  BY <1>1, <1>2 DEF Apply

\* The poll loop reads the configuration anew after it took a wake-up; handlers
\* change it only as a job that ends in a wake-up.
LEMMA WakeStep == Typed /\ LocalsInv /\ WakeInv /\ [Next]_vars => WakeInv'
<1> SUFFICES ASSUME Typed, LocalsInv, WakeInv, [Next]_vars PROVE WakeInv'
  OBVIOUS
<1> USE ManagerAssumption DEF cache, locals, history, At
<1>p. Poller \in Workers /\ Handlers \subseteq Workers
  BY DEF Workers
<1>1. ASSUME NEW w \in Workers, Apply(w) PROVE WakeInv'
  BY <1>1, ApplyWake
<1>2. CASE Boot
  BY <1>2, <1>p DEF Boot, Typed, WakeInv, WakeComing
<1>3. CASE PollReads
  <2>1. job[Poller] = "none"
    BY <1>3, <1>p DEF PollReads, Typed, WakeInv
  <2> QED
    BY <1>3, <1>p, <2>1 DEF PollReads, Typed, WakeInv, WakeComing
<1>4. CASE PollAsks
  BY <1>4, <1>p DEF PollAsks, Typed, WakeInv, WakeComing
<1>5. CASE PollAnswered
  <2>1. /\ seen[Poller] = "error" => AfterAnswer = "wait"
        /\ AfterAnswer \in {"wait", "apply", "invalidate"}
        /\ AfterAnswer = "wait" => seen[Poller] = "error"
    BY DEF AfterAnswer
  <2>2. /\ pc' = [pc EXCEPT ![Poller] = AfterAnswer] /\ pc[Poller] = "answered"
        /\ job' = IF seen[Poller] = "error" THEN job
                  ELSE [job EXCEPT ![Poller] = "poll"]
        /\ UNCHANGED <<cfg, wakePoll, copy>>
    BY <1>5 DEF PollAnswered
  <2>3. job[Poller] = "none"
    BY <2>2 DEF WakeInv
  <2> HIDE DEF AfterAnswer
  <2> QED
    BY <1>p, <2>1, <2>2, <2>3 DEF Typed, WakeInv, WakeComing
<1>6. CASE PollWakes \/ PollTimer
  <2>1. pc[Poller] = "wait" /\ pc' = [pc EXCEPT ![Poller] = "top"]
        /\ UNCHANGED <<cfg, job, copy>>
    BY <1>6 DEF PollWakes, PollTimer
  <2> QED
    BY <1>p, <2>1 DEF Typed, WakeInv
<1>7. ASSUME NEW h \in Handlers, NEW k \in Configs, UpdateStores(h, k)
      PROVE  WakeInv'
  <2>1. job'[h] = "update"
    BY <1>7, <1>p DEF UpdateStores, Typed
  <2> QED
    BY <1>7, <1>p, <2>1 DEF UpdateStores, Typed, WakeInv, WakeComing
<1>8. ASSUME NEW h \in Handlers, NEW e \in Playback, WebhookReads(h, e)
      PROVE  WakeInv'
  <2>1. job[h] # "update" /\ pc[h] = "idle"
    BY <1>8 DEF WebhookReads, WakeInv
  <2> QED
    BY <1>8, <1>p, <2>1 DEF WebhookReads, Typed, WakeInv, WakeComing
<1>9. ASSUME NEW h \in Handlers, UpdateNotifies(h) PROVE WakeInv'
  BY <1>9, <1>p DEF UpdateNotifies, Typed, WakeInv, WakeComing
<1>10. CASE ServerChanges \/ Expire \/ UNCHANGED vars
  BY <1>10 DEF ServerChanges, Expire, vars, WakeInv, WakeComing
<1> QED
  BY <1>1, <1>2, <1>3, <1>4, <1>5, <1>6, <1>7, <1>8, <1>9, <1>10, <1>p
  DEF Next, PollerNext, HandlerStarts, HandlerGoesOn

\* The poll loop does not wait with an old configuration unwoken.
THEOREM PollIsNotLost == Spec => []PollNotLost
<1>1. WakeInv => PollNotLost
  BY DEF WakeInv, WakeComing, PollNotLost
<1>2. Spec => []WakeInv
  BY LocalsInvariant, WakeInit, WakeStep, PTL DEF Spec
<1> QED
  BY <1>1, <1>2, PTL

-----------------------------------------------------------------------------
(* The application as a whole.                                             *)

\* The cache only ever holds a presence of Jellyfin's, it is consulted only
\* under a configuration that shows Jellyfin, and so what a worker is about to
\* set belongs to its copy of the configuration.
SuitsInv ==
  /\ cached # Nothing => cached.kind = "jellyfin"
  /\ \A w \in Workers :
       /\ pc[w] = "overlay" => copy[w].jellyfin
       /\ pc[w] = "set" => Suits(result[w], copy[w])

\* Whoever works with the stored configuration will set a presence of it.
LastInv ==
  \/ overtaken
  \/ Suits(desired, cfg)
  \/ \E w \in Workers : pc[w] = "boot" \/ (Applying(w) /\ copy[w] = cfg)

\* The client, as far as it is known here.
ClientInv ==
  /\ {taken, shown} \subseteq Presences \cup {Nothing, Offline}
  /\ atRest \in BOOLEAN /\ overtaken \in BOOLEAN
  /\ atRest => shown = desired

LEMMA PresenceSuits ==
  ASSUME NEW k \in Configs, NEW a
  PROVE  /\ Suits(Custom(k), k)
         /\ k.jellyfin => Suits(Jellyfin(k, a), k)
         /\ Jellyfin(k, a).kind = "jellyfin"
<1>1. Jellyfin(k, a) \in Presences
  BY PresenceTyped
<1>2. Jellyfin(k, a).kind = "jellyfin"
  BY DEF Jellyfin
<1> QED
  BY <1>1, <1>2 DEF Suits

LEMMA SuitsInit == Init => SuitsInv
<1> SUFFICES ASSUME Init PROVE SuitsInv
  OBVIOUS
<1>1. pc \in [Workers -> {"boot", "idle"}]
  BY DEF Init
<1> QED
  BY <1>1 DEF Init, SuitsInv

\* applyModePresence keeps it.
LEMMA ApplySuits ==
  ASSUME Typed, LocalsInv, SuitsInv, NEW w \in Workers, Apply(w)
  PROVE  SuitsInv'
<1> USE DEF cache, locals, history, At
<1> DEFINE Holds(v) == /\ pc'[v] = "overlay" => copy'[v].jellyfin
                       /\ pc'[v] = "set" => Suits(result'[v], copy'[v])
<1>0. ASSUME cached' # Nothing => cached'.kind = "jellyfin", Holds(w),
             \A v \in Workers : v # w => /\ pc'[v] = pc[v]
                                         /\ copy'[v] = copy[v]
                                         /\ result'[v] = result[v]
      PROVE  SuitsInv'
  <2>1. ASSUME NEW v \in Workers PROVE Holds(v)
    BY <1>0 DEF SuitsInv
  <2> HIDE DEF Holds
  <2>2. \A v \in Workers : Holds(v)
    BY <2>1
  <2> QED
    BY <1>0, <2>2 DEF Holds, SuitsInv, Suits
<1>1. CASE Fetch(w)
  <2>1. copy[w] \in Configs /\ copy' = copy /\ cached' = cached
    BY <1>1 DEF Fetch, LocalsInv
  <2>2. CASE copy[w].jellyfin
    <3>1. pc'[w] = "overlay" /\ result' = result
          /\ \A v \in Workers : v # w => pc'[v] = pc[v]
      BY <1>1, <2>2 DEF Fetch, Typed
    <3> QED
      BY <1>0, <2>1, <2>2, <3>1 DEF SuitsInv
  <2>3. CASE ~copy[w].jellyfin
    <3>1. /\ pc'[w] = "set" /\ result'[w] = Custom(copy[w])
          /\ \A v \in Workers : v # w => pc'[v] = pc[v] /\ result'[v] = result[v]
      BY <1>1, <2>3 DEF Fetch, Typed
    <3>2. Suits(result'[w], copy'[w])
      BY <2>1, <3>1, PresenceSuits
    <3> QED
      BY <1>0, <2>1, <3>1, <3>2 DEF SuitsInv
  <2> QED
    BY <2>2, <2>3
<1>2. CASE OverlayActive(w)
  <2>1. copy[w] \in Configs /\ copy' = copy /\ copy[w].jellyfin
    BY <1>2 DEF OverlayActive, LocalsInv, SuitsInv
  <2> DEFINE j == Jellyfin(copy[w], seen[w])
  <2>2. Suits(j, copy[w]) /\ j.kind = "jellyfin"
    BY <2>1, PresenceSuits
  <2>3. result' = [result EXCEPT ![w] = j] /\ cached' = j
        /\ pc' = [pc EXCEPT ![w] = "set"]
    BY <1>2 DEF OverlayActive
  <2> HIDE DEF j
  <2>4. /\ pc'[w] = "set" /\ result'[w] = j
        /\ \A v \in Workers : v # w => pc'[v] = pc[v] /\ result'[v] = result[v]
    BY <2>3 DEF Typed
  <2>5. Suits(result'[w], copy'[w])
    BY <2>1, <2>2, <2>4
  <2> QED
    BY <1>0, <2>1, <2>2, <2>3, <2>4, <2>5
<1>3. CASE OverlayCached(w)
  <2>1. copy[w] \in Configs /\ copy' = copy /\ copy[w].jellyfin
        /\ cached' \in {cached, Nothing}
    BY <1>3 DEF OverlayCached, LocalsInv, SuitsInv
  <2> DEFINE p == Cached(copy[w])
  <2>2. Suits(p, copy[w])
    <3>1. CASE fresh
      <4>1. p = cached /\ cached \in Presences /\ cached.kind = "jellyfin"
        BY <3>1 DEF Cached, Typed, LocalsInv, SuitsInv
      <4> QED
        BY <2>1, <4>1 DEF Suits
    <3>2. CASE ~fresh
      BY <2>1, <3>2, PresenceSuits DEF Cached
    <3> QED
      BY <3>1, <3>2
  <2>3. result' = [result EXCEPT ![w] = p] /\ pc' = [pc EXCEPT ![w] = "set"]
    BY <1>3 DEF OverlayCached
  <2> HIDE DEF p
  <2>4. /\ pc'[w] = "set" /\ result'[w] = p
        /\ \A v \in Workers : v # w => pc'[v] = pc[v] /\ result'[v] = result[v]
    BY <2>3 DEF Typed
  <2>5. Suits(result'[w], copy'[w])
    BY <2>1, <2>2, <2>4
  <2> QED
    BY <1>0, <2>1, <2>4, <2>5 DEF SuitsInv
<1>4. CASE Set(w)
  <2>1. /\ pc'[w] = Onward(w) /\ cached' = cached
        /\ \A v \in Workers : v # w => /\ pc'[v] = pc[v] /\ copy'[v] = copy[v]
                                       /\ result'[v] = result[v]
    BY <1>4 DEF Set, Typed
  <2> QED
    BY <1>0, <2>1, OnwardTyped DEF SuitsInv
<1>5. CASE Invalidate(w)
  <2>1. /\ pc'[w] = "apply" /\ cached' = Nothing
        /\ UNCHANGED <<copy, result>>
        /\ \A v \in Workers : v # w => pc'[v] = pc[v]
    BY <1>5 DEF Invalidate, Typed
  <2> QED
    BY <1>0, <2>1
<1> QED
  BY <1>1, <1>2, <1>3, <1>4, <1>5 DEF Apply

\* Everything else computes no presence.
LEMMA SuitsStep == Typed /\ LocalsInv /\ SuitsInv /\ [Next]_vars => SuitsInv'
<1> SUFFICES ASSUME Typed, LocalsInv, SuitsInv, [Next]_vars PROVE SuitsInv'
  OBVIOUS
<1>1. ASSUME NEW w \in Workers, Apply(w) PROVE SuitsInv'
  BY <1>1, ApplySuits
<1>2. ASSUME NEW w \in Workers, NEW where, pc[w] \notin {"overlay", "set"},
             pc' = [pc EXCEPT ![w] = where], where \notin {"overlay", "set"},
             \A v \in Workers : v # w => copy'[v] = copy[v],
             UNCHANGED <<cached, result>>
      PROVE  SuitsInv'
  BY <1>2 DEF Typed, SuitsInv, Suits
<1>p. Poller \in Workers /\ Handlers \subseteq Workers
  BY DEF Workers
<1> USE DEF At, cache, locals, history
<1>3. CASE Boot \/ PollReads
  <2>1. \E where \in {"apply", "ask", "wait"} : pc' = [pc EXCEPT ![Poller] = where]
    BY <1>3 DEF Boot, PollReads
  <2>2. /\ pc[Poller] \notin {"overlay", "set"} /\ UNCHANGED <<cached, result>>
        /\ \A v \in Workers : v # Poller => copy'[v] = copy[v]
    BY <1>3, <1>p DEF Boot, PollReads, Typed
  <2> QED
    BY <1>2, <1>p, <2>1, <2>2
<1>4. CASE PollAsks \/ PollAnswered \/ PollWakes \/ PollTimer
  <2>1. AfterAnswer \in {"wait", "apply", "invalidate"}
    BY DEF AfterAnswer
  <2>2. \E where \in {"answered", "wait", "apply", "invalidate", "top"} :
          pc' = [pc EXCEPT ![Poller] = where]
    BY <1>4, <2>1 DEF PollAsks, PollAnswered, PollWakes, PollTimer
  <2>3. pc[Poller] \notin {"overlay", "set"} /\ UNCHANGED <<cached, copy, result>>
    BY <1>4 DEF PollAsks, PollAnswered, PollWakes, PollTimer
  <2> QED
    BY <1>2, <1>p, <2>2, <2>3
<1>5. ASSUME NEW h \in Handlers,
             \/ \E k \in Configs : UpdateStores(h, k)
             \/ \E e \in Playback : WebhookReads(h, e)
             \/ UpdateNotifies(h)
      PROVE  SuitsInv'
  <2>1. \E where \in {"apply", "invalidate", "idle"} : pc' = [pc EXCEPT ![h] = where]
    BY <1>5 DEF UpdateStores, WebhookReads, UpdateNotifies
  <2>2. /\ pc[h] \notin {"overlay", "set"} /\ UNCHANGED <<cached, result>>
        /\ \A v \in Workers : v # h => copy'[v] = copy[v]
    BY <1>5, <1>p DEF UpdateStores, WebhookReads, UpdateNotifies, Typed
  <2> QED
    BY <1>2, <1>p, <2>1, <2>2
<1>6. CASE ServerChanges \/ Expire \/ UNCHANGED vars
  BY <1>6 DEF ServerChanges, Expire, vars, SuitsInv, Suits
<1> QED
  BY <1>1, <1>3, <1>4, <1>5, <1>6, <1>p
  DEF Next, PollerNext, HandlerStarts, HandlerGoesOn

LEMMA AppInitHolds == AppInit => SuitsInv /\ LastInv /\ ClientInv
<1> SUFFICES ASSUME AppInit PROVE SuitsInv /\ LastInv /\ ClientInv
  OBVIOUS
<1>1. Poller \in Workers /\ pc[Poller] = "boot"
  BY DEF AppInit, Init, Workers
<1> QED
  BY <1>1, SuitsInit DEF AppInit, LastInv, ClientInv

\* A step of the application is one of the manager, or none of its.
LEMMA AppIsManager == [AppNext]_appVars => [Next]_vars
BY DEF AppNext, appVars, SetsPresence, ManagerAlone, ClientAlone, Next, Apply,
   PollerNext, HandlerGoesOn, Workers

\* The client keeps its promise and its types.
LEMMA ClientStep ==
  ASSUME Typed, LocalsInv, ClientInv, [AppNext]_appVars
  PROVE  ClientInv'
<1> USE DEF ClientInv, Typed
<1>1. ASSUME NEW w \in Workers, SetsPresence(w) PROVE ClientInv'
  <2>1. overtaken' \in BOOLEAN
    BY <1>1 DEF SetsPresence
  <2> QED
    BY <1>1, <2>1 DEF SetsPresence, Client!Ask
<1>2. CASE ManagerAlone
  <2>1. desired' = desired
    <3>1. ASSUME NEW w \in Workers, Set(w) PROVE FALSE
      <4>1. pc[w] = "set" /\ pc'[w] = Onward(w)
        BY <3>1 DEF Set, At
      <4> QED
        BY <1>2, <4>1, OnwardTyped DEF ManagerAlone
    <3> QED
      BY <1>2, <3>1
      DEF ManagerAlone, Next, PollerNext, HandlerStarts, HandlerGoesOn, Apply,
          Fetch, OverlayActive, OverlayCached, Invalidate, Boot, PollReads,
          PollAsks, PollAnswered, PollWakes, PollTimer, UpdateStores,
          UpdateNotifies, WebhookReads, ServerChanges, Expire, Workers
  <2> QED
    BY <1>2, <2>1 DEF ManagerAlone
<1>3. CASE ClientAlone
  <2>1. desired' = desired /\ overtaken' = overtaken
    BY <1>3 DEF ClientAlone, vars
  <2>2. CASE Client!Take \/ Client!Lose
    BY <2>1, <2>2 DEF Client!Take, Client!Lose
  <2>3. CASE Client!Deliver \/ Client!Turn
    BY <2>1, <2>3 DEF Client!Deliver, Client!Turn, Client!MayRest
  <2> QED
    BY <1>3, <2>2, <2>3 DEF ClientAlone
<1>4. CASE UNCHANGED appVars
  BY <1>4 DEF appVars, vars
<1> QED
  BY <1>1, <1>2, <1>3, <1>4 DEF AppNext

\* What a worker that has the stored configuration will set is of it, and a
\* change of the configuration comes with a worker that has the new one.
LEMMA LastStep ==
  ASSUME Typed, LocalsInv, SuitsInv, LastInv, [AppNext]_appVars
  PROVE  LastInv'
<1> USE DEF At, cache, locals, history, Applying
<1>p. Poller \in Workers /\ Handlers \subseteq Workers
  BY DEF Workers
<1>1. ASSUME NEW w \in Workers, SetsPresence(w) PROVE LastInv'
  <2>1. /\ desired' = result[w] /\ cfg' = cfg /\ pc[w] = "set"
        /\ overtaken' = (copy[w] # cfg)
    BY <1>1 DEF SetsPresence, Set
  <2>2. CASE copy[w] = cfg
    <3>1. Suits(desired', cfg')
      BY <2>1, <2>2 DEF SuitsInv
    <3> QED
      BY <3>1 DEF LastInv, Suits
  <2> QED
    BY <2>1, <2>2 DEF LastInv
<1>2. ASSUME UNCHANGED <<overtaken, desired, cfg>>,
             \A v \in Workers :
               /\ pc[v] = "boot" =>
                    pc'[v] = "boot" \/ (Applying(v)' /\ copy'[v] = cfg)
               /\ (Applying(v) /\ pc[v] # "boot") =>
                    (Applying(v) /\ pc[v] # "boot")' /\ copy'[v] = copy[v]
      PROVE  LastInv'
  BY <1>2 DEF LastInv, Suits
<1>3. CASE ManagerAlone
  <2>0. overtaken' = overtaken
    BY <1>3 DEF ManagerAlone
  <2>1. ASSUME NEW w \in Workers, Set(w) PROVE FALSE
    <3>1. pc[w] = "set" /\ pc'[w] = Onward(w)
      BY <2>1 DEF Set, Typed
    <3> QED
      BY <1>3, <3>1, OnwardTyped DEF ManagerAlone
  <2>2. ASSUME NEW w \in Workers,
               Fetch(w) \/ OverlayActive(w) \/ OverlayCached(w) \/ Invalidate(w)
        PROVE  LastInv'
    <3>1. \E where \in {"apply", "overlay", "set"} : pc' = [pc EXCEPT ![w] = where]
      BY <2>2 DEF Fetch, OverlayActive, OverlayCached, Invalidate
    <3>2. pc[w] # "boot" /\ UNCHANGED <<copy, desired, cfg>>
      BY <2>2 DEF Fetch, OverlayActive, OverlayCached, Invalidate
    <3> QED
      BY <1>2, <2>0, <3>1, <3>2 DEF Typed
  <2>3. CASE Boot
    BY <1>2, <1>p, <2>0, <2>3 DEF Boot, Typed
  <2>4. CASE PollReads \/ PollAsks \/ PollAnswered \/ PollWakes \/ PollTimer
    <3>1. /\ pc[Poller] \in {"top", "ask", "answered", "wait"}
          /\ UNCHANGED <<desired, cfg>>
          /\ \A v \in Workers : v # Poller => pc'[v] = pc[v] /\ copy'[v] = copy[v]
      BY <2>4, <1>p
      DEF PollReads, PollAsks, PollAnswered, PollWakes, PollTimer, Typed
    <3> QED
      BY <1>2, <2>0, <3>1
  <2>5. ASSUME NEW h \in Handlers, NEW k \in Configs, UpdateStores(h, k)
        PROVE  LastInv'
    <3>1. pc'[h] = "apply" /\ copy'[h] = cfg'
      BY <2>5, <1>p DEF UpdateStores, Typed
    <3> QED
      BY <1>p, <3>1 DEF LastInv
  <2>6. ASSUME NEW h \in Handlers,
               UpdateNotifies(h) \/ \E e \in Playback : WebhookReads(h, e)
        PROVE  LastInv'
    <3>1. /\ pc[h] \in {"notify", "idle"}
          /\ UNCHANGED <<desired, cfg>>
          /\ \A v \in Workers : v # h => pc'[v] = pc[v] /\ copy'[v] = copy[v]
      BY <2>6, <1>p DEF UpdateNotifies, WebhookReads, Typed
    <3> QED
      BY <1>2, <2>0, <3>1
  <2>7. CASE ServerChanges \/ Expire
    BY <1>2, <2>0, <2>7 DEF ServerChanges, Expire
  <2> QED
    BY <1>3, <1>p, <2>1, <2>2, <2>3, <2>4, <2>5, <2>6, <2>7
    DEF ManagerAlone, Next, PollerNext, HandlerStarts, HandlerGoesOn, Apply
<1>4. CASE ClientAlone \/ UNCHANGED appVars
  <2>1. UNCHANGED <<vars, overtaken>>
    BY <1>4 DEF ClientAlone, appVars
  <2> QED
    BY <1>2, <2>1 DEF vars
<1> QED
  BY <1>1, <1>3, <1>4 DEF AppNext

LEMMA AppInvariant ==
  AppSpec => [](Typed /\ LocalsInv /\ SuitsInv /\ LastInv /\ ClientInv)
<1>1. AppInit => Init
  BY DEF AppInit
<1> QED
  BY <1>1, AppInitHolds, AppIsManager, TypedInit, TypedStep, SuitsStep, LastStep,
     ClientStep, PTL DEF AppSpec

\* Every variable of the manager and of the client above it keeps its type.
THEOREM ApplicationTyped == AppSpec => []AppTypeOK
<1>1. Typed /\ LocalsInv /\ ClientInv => AppTypeOK
  BY DEF Typed, LocalsInv, TypeOK, ClientInv, AppTypeOK
<1> QED
  BY <1>1, AppInvariant, PTL

\* End to end: at rest, Discord has what belongs to the stored configuration,
\* unless the last SetPresence came from a copy that an update had overtaken
\* (app.go:117-126, 184-246, 254-337, client.go:100-105, 306-352).
THEOREM SavedConfigIsShown == AppSpec => []SavedIsShown
<1>1. LastInv /\ ClientInv => SavedIsShown
  BY DEF LastInv, ClientInv, SavedIsShown, Applying
<1> QED
  BY <1>1, AppInvariant, PTL
=============================================================================
