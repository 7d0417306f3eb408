# Diswatch, verified

Diswatch keeps a Discord presence up to date: it shows a custom presence that is
set in a web dashboard and, over it, what Jellyfin plays. This directory holds
TLA+ models of its concurrent and of its persistent parts, of its dashboard, and
of what a configuration and a presence hold; the TLC configurations that check
them on small instances; and TLAPS proofs of what the runs check for every value
of the constants. Paths are relative to the repository; `client.go` is
`src/internal/discord/client.go`, `app.go` `src/internal/app/app.go`, `store.go`
and `config.go` are in `src/internal/config/`, `session.go` in
`src/internal/security/`, `server.go` and `static/app.js` in `src/internal/web/`,
`mapper.go` in `src/internal/jellyfin/`.

## 1. The system

| Component | State | Operations | Talks to |
|---|---|---|---|
| Gateway client (`client.go`) | token, desired presence, `cancelRun`, the channels `wakeCh` and `updateCh` (one element each), status | `Configure`, `SetPresence` (any goroutine); `Run` with one `runConnection` at a time; a `presenceWriter` per connection | the Discord gateway, over a websocket |
| Heartbeat (`client.go`) | the atomics `seq`, `hasSeq`, `acked` of a connection; `missedHeartbeats` | `heartbeatLoop`, the read loop of `runConnection` | each other by the socket and the context |
| Presence manager (`app.go`) | the cache of the last Jellyfin presence, `wakePoll`, the start of the elapsed timer, Jellyfin's status | `Run`, `pollLoop`/`pollOnce`, `UpdateConfig`, `ApplyWebhook`, `ReconnectDiscord`, all through `applyModePresence` | store (a copy of the configuration), Jellyfin (requests with timeouts), gateway client (`Configure`, `SetPresence`) |
| Configuration store (`store.go`) | the configuration, the master key; `config.enc.json`, its `.tmp`, `master.key` | `Open`, `Get`, `Update` (compute, normalise, save, publish) | the file system |
| Web server (`server.go`, `view.go`) | none but the sessions | bootstrap, setup, login, logout, configuration, mode, status, webhook, reconnect; `auth` in front of most | presence manager, sessions |
| Sessions (`session.go`) | session identifiers with their expiry | `Create`, `Valid` (renews), `Destroy` | cookies |
| Dashboard script (`app.js`) | the view, the form, `state.statusTimer`, what the forms hold, requests under way | bootstrap, setup, login, loadConfig, saveConfig, switchMode, logout, refreshStatus | the web server |
| Configuration schema (`config.go`) | none | `Default`, `Normalize`, `cleanButtons`; `applyConfigRequest` in front of it | store, web server |
| Jellyfin mapper (`mapper.go`, `jellyfin/client.go`) | none | `filterSessions`, `PresenceFromSessions`, `PresenceFromWebhook` | presence manager |
| Other pure parts | none | `discord.FromCustomAt`, password hashing | |

What is hard here:

* one handler goroutine per HTTP request, the poll loop, `Run`, a writer and a
  heartbeat loop per connection, all of them working on copies: a configuration
  is read, a request of seconds follows, and the result is applied to a state
  that has moved on;
* notifications through channels of one element, dropped when it is full, and a
  `updateCh` that all writers share;
* cancellation: the connection's cancel function is stored after the token has
  been read, under another lock;
* files that are written while the process may be killed, and a key that must be
  on the disk before anything is sealed with it;
* a clock that is read before a lock is taken: sessions are judged, cleaned up
  and renewed with times of different ages;
* a page whose functions wait for replies that come late, in another order or not
  at all, while the user goes on;
* a text that is cut at a number of bytes, written as characters, read again and
  cut again;
* failures of every kind that end in a retry.

What makes each part correct is stated in the sections below; the lines where
each hazard bites are in `PROJECT.json`.

## 2. The modules

| Module | Models | Properties |
|---|---|---|
| `GatewayClient` | `Configure`, `SetPresence`, `Run`, `runConnection`, `presenceWriter` | safety: `TypeOK`, `StatusCoherent`, `StatusTold`, `StraysToldToStop`, `TokenFresh`, `WakeNotLost`, `UpdateNotLost`, `ImplementsFeed`; liveness: `KeepsTrying`, `UpdateDelivered`, `ShutdownCompletes` |
| `PresenceFeed` | the abstract promise of the client: a feed of presences that skips but never goes back, and rests only when Discord has what is desired | implemented by `GatewayClient`, used by `Application` |
| `Heartbeat` | `heartbeatLoop`, the read loop, the writer's error in `errCh`, the gateway's side | `TypeOK`, `CloseJustified`, `DetectedInTime`, `SeqReal`; `DeadPeerDetected`, `EndTogether` |
| `PresenceManager` | `Run`, `pollLoop`, `pollOnce`, `applyModePresence`, `UpdateConfig`, `ApplyWebhook` | `TypeOK`, `StopReverts`, `PollNotLost`; `Settles` |
| `Application` | `PresenceManager`, which it extends, on top of an instance of `PresenceFeed` | `SavedIsShown` |
| `TokenHandover` | `App.Run`'s start, `UpdateConfig`, `ReconnectDiscord` as callers of `GatewayClient`, which it extends | `StoredTokenRules`, of which `TokenSynced` is a part; `SavedTokenUsed` |
| `ConfigStore` | `Open`, `loadMasterKey`, `load`, `saveLocked`, `Update`, and setup, edit and show in front of them, with answers that come late; crash and restart | `TypeOK`, `ShownSecretWorks`, `SetupOnce`, `OpensItsFile`; `ImplementsDurable`, `ComesBack` |
| `DurableConfig` | the abstract promise of the store: a register, and a view of it that may be lost and recovered | implemented by `ConfigStore` |
| `Sessions` | `Create`, `Valid`, `Destroy` and their cleanup, with the clock, the lock and restarts; what `Dashboard` refines | `LoggedOutStaysOut`, `UsedStays`; `HonouredInTime` |
| `Dashboard` | the page's tasks with the routes that serve them, over `Sessions`, which it extends | `DashTypeOK`, `FormCurrent`, `LogoutHolds`, `PollsWhileShown` |
| `ConfigSchema` | modes, labels, buttons, `Normalize`, `applyConfigRequest`, `load`, as operators | |
| `Display` | saves, polls, webhooks and restarts over `ConfigSchema`, with lists of Jellyfin's sessions | `TypeOK`, `PollShowsWanted`; `ButtonsKept` |
| `MC...` | constants and symmetry for TLC | |
| `...Proofs` | the theorems of the module they are named after | |

How state and actions correspond to the code:

* **`GatewayClient`**. A mutex section, a channel operation, a network call is
  one action each; what happens between two of them in one goroutine belongs to
  the one before. `pc` is where `Run` and `runConnection` are, `wpc[s]` where the
  writer of connection `s` is, `step[c]` where a caller is inside `Configure` or
  `SetPresence`. A connection is a *slot*: a slot is used again only when its
  writer has returned, so several old writers may be about while a new connection
  is made. The history variables `missed` and `stolen` mark the two windows the
  code leaves open: a `Configure` between `Run`'s read of the token and its
  `cancelRun = cancel` (client.go:116-129), and an old writer that takes the
  element of `updateCh` meant for the new one (client.go:311-317). The properties
  say that nothing else goes wrong.
* **`PresenceFeed`**. What a caller may rely on, without channels, locks and
  writers: `Ask`, then `Take`, which reads what is desired at that moment, then
  `Deliver` or `Lose`; only one presence is on its way. `GatewayClient` implements
  it with `Taken` (the presence in the identify or in the writer's send) and
  `AtRest` (the writer of the open connection waits, and no timer and no
  notification is coming for it; after a stolen notification the client is never
  said to rest). A connection that ends is `Lose`, since the next one identifies
  with what is desired then.
* **`Heartbeat`**. Every load and store of an atomic is a step. `silent` counts
  the heartbeats the loop wrote since an acknowledgement was last handled, up to
  `MaxSilent`, and `late` the intervals in a row without one (`heard` says whether
  the interval had one), which is what the loop tries to find out through `acked`.
  A message carries a sequence number or 0 for none. `Cancelled` is the end of the
  connection's context, by `Configure` or the shutdown, which may come at any step.
* **`PresenceManager`**. A worker (a handler, or the goroutine of the poll loop,
  which also boots) holds a copy of the configuration, the answer it got from
  Jellyfin and the presence it will set. Presences are told apart by what they
  show (custom or Jellyfin, under which custom settings, paused or not).
  `jellyfinCache.valid` is `cached # Nothing`, its age is `fresh`.
* **`Application`**. The manager's `Set` is the `Ask` of the feed, every other step
  of the manager leaves the feed alone, and the feed's steps begin when `App.Run`
  has set its first presence. The two share `desired`. `overtaken` is history: the
  last `SetPresence` came from a copy of the configuration that an update had
  replaced by then.
* **`TokenHandover`**. The callers of `GatewayClient` become the operations of the
  application: each copies the stored token (`carried`), and `stage` is how far it
  is towards the `Configure` that takes the copy. `Run` starts when the boot's own
  `Configure` has returned. `stale` records that the last copy handed over was not
  the stored token any more, which two overlapping operations, or a save during the
  200 ms of `ReconnectDiscord`, can bring about; nothing in the code corrects it.
* **`ConfigStore`**. The files hold nothing, a part, or the whole of a key or a
  sealed configuration. `os.WriteFile` is two steps (created or emptied, then
  filled), `os.Rename` one. `Update` holds the lock from `Begin` to `Publish` or
  `SaveFails`; readers wait, as in the code. A handler answers with a copy it took
  under the lock (`ShowConfig`, `Publish`) long after it has given the lock up, since
  `UpdateConfig` may wait for Jellyfin first (app.go:117-126): `replies` holds the
  copies under way and `Answers` delivers them in any order. `changed` of a copy is
  history: another secret has been saved since it was taken. `ShownSecretWorks` is
  about the answer that came last (`shown`), unless it is `changed`: of two saves that
  overlap, the older one's answer may come last and show a secret that works no more;
  nothing in the code corrects that. `Ends` drops what was in memory. A
  request that computes its change and fails before the save leaves the state as
  it was and is not a step.
* **`Sessions`**. `Create` and `Valid` are two steps each: the clock is read
  (`CreateStarts`, `ValidStarts`), then the lock is taken and the work done, with
  a time that is `age[r]` ticks old by then. Times are kept relative to now, so
  that no clock grows: `left[i]` is what the map says of identifier `i`, which
  `Tick` lowers. `Create`'s cleanup uses a time of its own (session.go:33), its
  expiry the older one (session.go:31). A restart empties the map and cuts off the
  requests. `unused` and `ended` are history: what a user would say of the session.
* **`Dashboard`**. An async function of `app.js` is a task in a slot; `kind[r]` is
  the request it waits for, `stage[r]` (of `Sessions`) how far that is at the
  server, `got[r]` what the reply will hold. The code between two awaits is one
  action (`After...`). A task that goes on to a next request keeps its slot, and a
  `refreshStatus()` that is not awaited is the rest of the task that called it.
  Since every save stores something new, a configuration is "stored" (the one in
  the store) or "older"; `current` says the same of the forms. Three facts of the
  script decide what may overlap and are in the guards: `setFormLoading` disables
  only the form that is saved, so that saves of the page's three forms overlap; the
  mode toggles are never disabled; `setup-submit` and `login-submit`, which `setButtonLoading` is given
  (app.js:292, 310), are no ids of the page, so that a login may be submitted twice.
  What the three forms hold is taken together (`current`). The cookie of
  a reply is stored when the task goes on; in a browser it is a moment earlier,
  when the reply arrives.
* **`ConfigSchema`**, **`Display`**. A text is a sequence of characters told apart
  by their number of bytes, a blank, and U+FFFD; a label also has the bytes of a
  character that was cut (`torn`). `Shown` is what Go's JSON encoder makes of it: a
  U+FFFD for each of those bytes, three bytes long, which the next start reads as
  characters. An operation of `Display` is a whole one of the code, since their
  interleaving is `PresenceManager`'s; whether Jellyfin answers is chosen at each.
  An entry of Jellyfin's list has one name for its user's identifier and his name.

## 3. The runs

| Run | Instance | States | Shows |
|---|---|---|---|
| `Gateway_safety` | 1 caller, 2 tokens, 2 presences, 2 slots, symmetric | 2.6 million | the safety properties and the refinement of the feed, with writers of an old and a new connection side by side |
| `Gateway_live` | 1 caller, 1 token, 2 presences, 1 slot | 121 thousand | the three liveness properties |
| `Gateway_stolen` | 1 caller, 1 token, 2 presences, 2 slots | | **violated**: an update may be taken by an old writer and not reach Discord |
| `Heartbeat` | numbers up to 2, 2 messages under way, 2 heartbeats to acknowledge, 2 misses allowed | 900 thousand | safety and liveness of the heartbeat: closed neither too early nor too late; a writer that failed, or a cancellation, ends the connection |
| `Presence` | 1 handler and the poll loop, 3 configurations | 459 thousand | the safety of the cache and the wake-ups, and that the presence settles |
| `Application` | 1 handler and the poll loop, 2 configurations (Jellyfin off and on, each with its custom presence) | 2.9 million | what Discord is left with belongs to the stored configuration, through overlapping updates, polls, webhooks and sessions |
| `Handover` | the boot and 1 handler, 2 tokens, 2 slots | 164 thousand | the client ends up with the stored token unless it was given an old copy, and then acts on no other |
| `Presence_custom` | 1 handler, 2 configurations | | **violated**: after Jellyfin has been turned off its presence may come back and stay |
| `Store` | 2 setup handlers, 2 keys, 2 secrets, 2 bodies | 75 thousand | the store implements the register through crashes, setup happens once, the secret the dashboard was answered with works, the process comes back |
| `Dashboard` | 2 tasks, 2 session identifiers, TTL 1, a delay of 1, symmetric | 3.1 million | sessions live and end as they should, a logout is final, the forms and the view are true |
| `Display` | labels of 4 bytes, 3 lists of buttons, 6 settings, 2 users, lists of 2 sessions | 65 thousand | the configuration is in normal form, buttons survive, a poll shows what is wanted |
| `Store_key` | 1 setup handler, 2 keys | | **violated**: a start that is cut short while it writes its generated key leaves a file that every later start refuses |

The three violated properties quote what a comment or the documentation says; the
counterexamples are listed under `findings` in `PROJECT.json`.

Bounds:

* **Callers, handlers.** A handler that has finished starts again, so one of them
  makes any sequence of calls, and overlaps with `Run`, the writers and the poll
  loop; two setup handlers are needed for their race and are there. The safety
  properties are proved for any number.
* **Slots** bound how many writers exist at once, not how many connections are
  made. Two are needed for an old and a new one. In `Gateway_live` one slot is
  enough, as no liveness property depends on an old writer: the one that does,
  delivery with a stolen notification, is excluded by its premise.
* **Interval** is the ticks of `minPresenceInterval`: what counts is whether it
  has passed. **BackoffStart**, **BackoffCap** are 2 and 3 for the code's 5 s and
  60 s: the doubling below the cap exceeds it, as 40 s does with 80 s, and is the last.
* **MaxMissed** is the code's 2. **MaxSeq** (numbers the gateway uses),
  **MaxInbox** (messages under way) and **MaxUnacked** (heartbeats it remembers)
  bound the environment: 2 each let an acknowledgement be late by one heartbeat
  and a message come between two halves of a store. **MaxSilent**, one more than
  `DetectedInTime` allows, is where the count of silent heartbeats stops.
* **One caller** in `Gateway_safety` also means that calls of `Configure` do not
  overlap, which `StatusTold` needs: `Configure` reports after it has released the
  lock (client.go:89-96), so that a `Configure("")` overtaken by a newer call and a
  quick connection would leave a lasting connection reported as closed. The theorem
  says it as a hypothesis (`Serial`); nothing in `app.go` serializes the calls.
* **Configs** of `Application` are two, one that shows Jellyfin and one that does
  not, with different custom presences: enough for an update to overtake a poll, a
  webhook or another update in either direction.
* **Keys, Secrets, Bodies**: two each, so that a wrong, an old and a new one can
  be told apart.
* **Tasks (Requests)** of `Dashboard`: two overlap in every order (two saves, a save and a
  switch, two logins, a refresh and a logout) and a finished one starts again.
  **Ids**: two let an old and a new session be about; with all of them issued no
  login succeeds any more. **TTL** and **Delay** are 1: a session may be used,
  unused for its time, or expired, and a request may be late at the lock or not.
  With these `UsedStays` is checked at its boundary only, for a session used in this
  very tick; a TTL of 2 passes too, with 5.0 million states, and the theorem
  (`SessionsUsed`) is for any TTL and delay.
* **LabelMax** is 4 for the code's 32, just enough for a cut inside a character of
  two, three and four bytes and for a torn character that is read again and cut
  again. The lists of buttons are empty, of two, and of five of which three are
  complete; the settings ask for everybody, for a user by identifier, by name, or
  both. **ListMax** 2 has a paused session before a playing one and two users side
  by side. Poll intervals are below and above their range.

Left out of `Dashboard`'s inputs: the page belongs to one user, who alone changes
the configuration; with two pages the forms of one say nothing of what the other
saved, and the code does not try.

`CHECK_DEADLOCK FALSE` is said of the heartbeat, which ends, and of the store,
where a half-written key file stops every start. All other runs are checked
for deadlock.

Fairness:

* `GatewayClient`: goroutines move where they do not wait for the network; a
  dial ends within 30 s and an identify within 10 s one way or the other
  (client.go:163, 216-229). Nothing is assumed of the gateway: the hello and every
  later message may stay away for ever. A goroutine whose `select` keeps finding
  `ctx.Done()` ready takes it in the end, since `select` picks at random (strong
  fairness of `RunStops` and `WriterStops`).
* `Heartbeat`: the loop runs, and the reader whenever it has a message or its
  socket is closed. The gateway may stop at any time. That the connection
  ends after a writer's error (`EndTogether`) needs no more: either a message comes
  and the reader finds the error, or none comes and the missing acknowledgements end
  the connection.
* `PresenceManager`: workers run, since their requests have timeouts of 5 and 12
  seconds (app.go:206, 263), the poll interval passes, the cache ages. Nobody has
  to change or send anything.
* `TokenHandover`: operations end, `Run` moves as in `GatewayClient`, and writers
  whose context is done return.
* `Sessions`, `Dashboard`, `Display`: none. Their properties are about what must
  not happen, and nothing promises that a user acts or a reply comes.
* `ConfigStore`: an ended process is started again (`restart: unless-stopped`,
  README.md:57), and the steps of a start succeed when they are tried again and
  again. `ComesBack` says nothing of a process that is killed for ever.

## 4. The proofs

All theorems are `Spec => []Property` (or an action property, or a refinement)
for the `Spec` of the module, without
fairness (`StatusIsTold` alone has a further hypothesis, `[]Serial`), from the named assumption on the constants (`GatewayAssumption`,
`HandoverAssumption`, `HeartbeatAssumption`, `ManagerAssumption`,
`StoreAssumption`, `SessionsAssumption`, `SchemaAssumption`,
`DisplayAssumption`, `ApplicationAssumption`), which the runs
evaluate on their instances. Each has the shape: an invariant that is
inductive, one step per action, and a last step that combines them.

* **`GatewayClientProofs`**: `TypeCorrect`, `StatusIsCoherent`, `TokenStaysFresh`,
  `WakeIsNotLost`, `UpdateIsNotLost`. `TokenFresh` is inductive once it is known
  that a fresh slot has no writer and that the current connection's cancel is the
  one stored. `UpdateNotLost` needs more: what a writer is about to send, that an
  armed timer belongs to a writer that is not due, and that the snapshot taken
  before the identify is still the writer's `lastSent` (`UpdateInv`).
  `ClientImplementsFeed` maps each step to one of the feed or none: what makes it
  hold is `UpdateInv` again (the client rests only with the desired presence
  shown) and `HeldReal` (what is on its way is a presence).
  `StraysAreToldToStop` needs `StrayInv`: a connection that has returned is
  cancelled before its slot is given up, whichever way it ended. `StatusIsTold` is
  `Spec /\ []Serial => []StatusTold`: `ToldInv` says that a caller about to clear
  the status has cleared the token, and that Run only connects with one, so that
  the connection it finds open has been cancelled or missed the call.
* **`HeartbeatProofs`**: `HeartbeatTyped`, `CloseIsJustified`, `SilenceIsDetected`,
  `NumbersAreReal`. `CountInv` relates `missedHeartbeats` to the intervals that ended
  without an acknowledgement at every point of the loop: the two differ while the loop is
  between the timer and its check. `SilentInv` is its other side: at every point of
  the loop there are at most so many unanswered heartbeats more than it has counted;
  the one that `acked` may hide is the reason for the `+ 1` of `DetectedInTime`.
  `NumberInv` says that `hasSeq` implies a number
  in `seq`, and that every number in the socket has been used by the gateway.
* **`PresenceManagerProofs`**: `ManagerTyped`, `StopsRevert`, `PollIsNotLost`.
  `ClearedInv` says of a worker that has invalidated the cache, and that nobody
  has raced, that the cache is still empty or its own; `WakeInv` follows a new
  configuration from the store to `wakePoll`. Of `Application`, `ApplicationTyped`
  and `SavedConfigIsShown`: every step of the composition is one of the manager's
  or none (`AppIsManager`), what a worker is about to set suits its copy of the
  configuration (`SuitsInv`, which needs that the cache only holds presences of
  Jellyfin's and is asked only under a configuration that shows them), somebody
  still works with the stored configuration or the last to set did, or was
  overtaken (`LastInv`), and a client at rest shows what is desired (`ClientInv`).
  Since the feed is what `ClientImplementsFeed` proves of the client, the two
  theorems together lead from the stored configuration to what Discord has.
* **`TokenHandoverProofs`**: `HandoverTyped`, `TokenIsSynced`, `StoredTokenIsUsed`.
  Every step of the composition is a step of `GatewayClient` or none of its (`HandoverIsClient`), so
  what is proved of the client holds of it here. `TokenSynced` is inductive given
  that a caller is inside `Configure` only in the two stages that say so;
  `StoredTokenIsUsed` joins it with what is proved of the client alone.
* **`ConfigStoreProofs`**: `StoreTyped`, `SecretKept`, `SetupSucceedsOnce`,
  `EveryStartOpens`, `StoreImplementsDurable`. `StoreInv` joins what the key in
  memory, the key file and the file it sealed have to do with each other (`Keyed`),
  what the holder of the lock may have written (`Locked`), that memory shows what
  the disk has (`Matching`), and what the users have been or will be told (`Told`):
  every copy under way, and the one answered last, has the secret that is on the disk
  or is `changed`, and all are while a new secret is on the disk and not yet in
  memory. The
  refinement maps the rename to the register's write and `Publish` to its
  publication; every other step changes neither.

* **`SessionsProofs`**: `SessionsLoggedOut`, `SessionsUsed`, `SessionsHonoured`.
  `AgeInv` bounds the time an identifier has left by the time it was not used:
  from above exactly, from below but for `Delay`, which is what a late lock costs.
* **`DashboardProofs`**: `DashboardImplementsSessions` maps each step of the page
  and of the routes to a step of `Sessions` or none, so that the theorems about
  sessions hold under it (`DashboardSessions`). `DashboardLogoutHolds` rests on
  `QuietInv` (no login is under way after a logout), `DashboardFormCurrent` on
  `OneFills` (a save whose reply is on its way to the forms is alone there, and
  every such reply is the last one stored), both on `RouteInv`.
* **`DisplayProofs`**: `DisplayTyped`, `DisplayButtons`, `DisplayPolls`. Cleaning
  leaves labels that cleaning again changes at their end only (`CleanAgain`), also
  after the bytes of half a character came back as characters (`RereadKept`). What
  looks like induction, that a longest prefix that fits and a first session exist,
  is `NatMin`: a set of numbers has a least element, from the library's theorem
  that proper inclusion of finite sets is well-founded.

Only model-checked: everything under fairness, which is beyond the prover, that is
`KeepsTrying`, `UpdateDelivered`, `ShutdownCompletes`, `DeadPeerDetected`,
`EndTogether`, `Settles`, `SavedTokenUsed` and `ComesBack`. `DetectedInTime` is the
safety part of
`DeadPeerDetected`, and `StoredTokenRules` that of `SavedTokenUsed`. Every
invariant of a passing run is stated by a theorem; `HandoverTyped` and
`ApplicationTyped` add the types of the two compositions.

## 5. What is not modelled

* `jellyfinStatus` and the start of the elapsed timer in `app.go`: the first is
  reported and never read by the code, the second changes only a time shown.
* The page's buttons that reconnect and that test Jellyfin, its toasts and its
  wording. A logout whose request fails leaves the app view without its timer,
  since nothing catches the error (app.js:325-333): `PollsWhileShown` says so with
  `quit`.
* The texts of an activity, its time stamps and images, and the conversion of a
  webhook's values: pure, and no property depends on them. Of `Normalize`, the
  texts that get a default.
* The URLs of buttons, but for whether there is one: they are cut as the labels
  are, at 512 bytes.
* A mode that a request to `PUT /api/config` names itself; the page sends none.
* Request decoding, headers, static files, password hashing, the version.
* What becomes of a Jellyfin presence while Jellyfin stays out of reach: an error
  ends `pollOnce` before anything looks at the cache again (app.go:218-224), so the
  presence stays; the cache's two minutes (app.go:250) are promised of the cache.
* A loss of power: the models keep what was written, and the code syncs nothing.
* The close handshake, compression and framing of the websocket library.

## 6. The plan

1. `GatewayClient`, `Heartbeat`, `PresenceManager`, `ConfigStore` with
   `DurableConfig`, `TokenHandover`, and their proofs: done.
2. Sessions with their expiry, restart and logout, and the dashboard over them,
   with the refinement: done.
3. The configuration's contents through saves and restarts, and the choice of a
   session: done. It showed that `Normalize` does not keep all it has normalized: a
   label that was cut at a blank loses the blank, and one that was cut three
   bytes into a character of four is stored with three U+FFFD and cut again at the
   next start; `ButtonsKept` is what remains true.
4. The client's promise as an abstract feed, its refinement by `GatewayClient`, and
   the manager composed with it, from the stored configuration to what Discord
   has: done.
5. Left: the same composition with the detailed client in place of its promise,
   and an operation of the application that touches the token and the presence at
   once, `TokenHandover` and `PresenceManager` in one.
