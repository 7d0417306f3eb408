------------------------------ MODULE Display ------------------------------
(***************************************************************************)
(* What is shown, with its contents: the configuration through saves and   *)
(* restarts (ConfigSchema), Jellyfin's sessions and how one of them is     *)
(* chosen (internal/jellyfin/client.go, mapper.go), and the presence made  *)
(* of both (applyModePresence of internal/app/app.go,                      *)
(* discord/presence.go).                                                   *)
(*                                                                         *)
(* Operations are whole here: PresenceManager is about their interleaving, *)
(* this module about what they make of lists and texts.  Media are told    *)
(* apart by whose they are; times and the other texts are left out, and so *)
(* is jellyfinStatus.  A request of Jellyfin's list is answered or not, as *)
(* it likes.                                                               *)
(***************************************************************************)
EXTENDS ConfigSchema

CONSTANTS
  ButtonLists,  \* lists of buttons a request may bring
  Forms,        \* what the form for Jellyfin's settings may hold
  ListMax,      \* bound: entries of Jellyfin's list
  Nothing       \* no media, or no presence

Settings ==
  [user : Users \cup {Nobody}, name : Users \cup {Nobody}, clear : BOOLEAN,
   poll : Int, key : BOOLEAN]

ASSUME DisplayAssumption ==
  /\ \A bs \in ButtonLists :
       bs \in Seq(Buttons) /\ \A i \in DOMAIN bs : bs[i].label.torn = 0
  /\ Absent \notin ButtonLists
  /\ Forms \subseteq Settings /\ Absent \notin Forms
  /\ ListMax \in Nat /\ Nothing \notin Users

VARIABLES
  cfg,       \* the configuration
  sessions,  \* Jellyfin's list: per entry whose it is, and what it plays
  cached,    \* jellyfinCache's activity while it may be served, else Nothing
  presence,  \* the activity given to SetPresence
  polled     \* history: the last step was a poll that Jellyfin has answered

vars == <<cfg, sessions, cached, presence, polled>>

Entries == [user : Users, item : {"none", "playing", "paused"}]

\* An activity: whose media it shows, Nothing for the custom presence.
Activity(media, paused, c) ==
  [media |-> media, paused |-> paused,
   buttons |-> [i \in DOMAIN c.buttons |-> Shown(c.buttons[i].label)]]

Custom(c) == Activity(Nothing, FALSE, c)

-----------------------------------------------------------------------------
(* Which session is shown.                                                 *)

\* filterSessions lets entry s pass, for its user's identifier or the name.
Passes(s, c) == {c.user, c.name} = {Nobody} \/ s.user \in {c.user, c.name}

\* Entries with media that pass.
Media(c) ==
  {i \in DOMAIN sessions : Passes(sessions[i], c) /\ sessions[i].item # "none"}

\* PresenceFromSessions: the first of them; none when it is paused and that
\* clears.
Chosen(c) ==
  {i \in Media(c) : /\ \A j \in Media(c) : i <= j
                    /\ ~(c.clear /\ sessions[i].item = "paused")}

\* PresenceFromWebhook: whether the event shows anything.  A "pause" is also
\* any other event of a paused player.
EventActive(e, c) == e # "stop" /\ ~(c.clear /\ e = "pause")

\* Jellyfin mode is enabled and configured.
On(c) == Has(c.mode, ModeJellyfin) /\ c.key

\* applyModePresence with the configuration c and what the cache has kept.
Applies(c, kept, answered) ==
  IF On(c) /\ answered /\ Chosen(c) # {}
  THEN \E i \in Chosen(c) :
         /\ presence' = Activity(sessions[i].user, sessions[i].item = "paused", c)
         /\ cached' = presence'
  ELSE /\ presence' = IF On(c) /\ kept # Nothing THEN kept ELSE Custom(c)
       /\ cached' = kept

\* Mutant of Kept: what was shown is kept for its time.
KeptAlways(active) == cached

\* What the cache keeps of a poll or an event.
Kept(active) == IF active THEN cached ELSE Nothing

-----------------------------------------------------------------------------
(* Operations.                                                             *)

\* A request that saves one section, as each form of the page does; the route
\* takes any list of buttons.
Requests ==
  [buttons : ButtonLists, jellyfin : {Absent}]
    \cup [buttons : {Absent}, jellyfin : Forms]

\* UpdateConfig with what a handler has made of the configuration.
Updates(c, answered) ==
  /\ cfg' = Normalize(c)
  /\ Applies(cfg', cached, answered)
  /\ polled' = FALSE
  /\ UNCHANGED sessions

Saves(r, answered) == Updates(ApplyRequest(cfg, r), answered)

SwitchesMode(s, answered) == Updates([cfg EXCEPT !.mode = NamedMode(s)], answered)

\* pollOnce has its list; applyModePresence asks again.
Polls(answered) ==
  /\ On(cfg)
  /\ Applies(cfg, Kept(Chosen(cfg) # {}), answered)
  /\ polled' = answered
  /\ UNCHANGED <<cfg, sessions>>

\* ApplyWebhook: an event of any user's session.
Webhook(e, answered) ==
  /\ Applies(cfg, Kept(EventActive(e, cfg)), answered)
  /\ polled' = FALSE
  /\ UNCHANGED <<cfg, sessions>>

\* The process ends; Open and App.Run.
Restart(answered) ==
  /\ cfg' = Loaded(cfg)
  /\ Applies(cfg', Nothing, answered)
  /\ polled' = FALSE
  /\ UNCHANGED sessions

\* jellyfinCacheTTL has passed: the cache is not served any more.
Expires ==
  /\ cached' = Nothing /\ polled' = FALSE
  /\ UNCHANGED <<cfg, sessions, presence>>

\* In Jellyfin a session begins, goes on or ends; a user may have several.
JellyfinChanges ==
  /\ \/ /\ Len(sessions) < ListMax
        /\ \E s \in Entries : sessions' \in {Append(sessions, s), <<s>> \o sessions}
     \/ \E i \in DOMAIN sessions, s \in Entries : sessions' = [sessions EXCEPT ![i] = s]
     \/ \E i \in DOMAIN sessions : sessions' = RemoveAt(sessions, i)
  /\ polled' = FALSE
  /\ UNCHANGED <<cfg, cached, presence>>

Init ==
  /\ cfg = Default /\ sessions = <<>>
  /\ cached = Nothing /\ presence = Custom(cfg) /\ polled = FALSE

Next ==
  \/ \E answered \in BOOLEAN :
       \/ \E r \in Requests : Saves(r, answered)
       \/ \E s \in {"custom", "jellyfin", "dual"} : SwitchesMode(s, answered)
       \/ \E e \in {"start", "pause", "stop"} : Webhook(e, answered)
       \/ Polls(answered) \/ Restart(answered)
  \/ Expires \/ JellyfinChanges

Spec == Init /\ [][Next]_vars

-----------------------------------------------------------------------------

\* The configuration in use is in normal form after every save and start: a
\* mode, a poll interval in its range, at most two buttons, complete, whose
\* labels fit; what the cache serves is media (config.go:128-155).
TypeOK ==
  /\ cfg.mode \in {ModeCustom, ModeDual} /\ cfg.poll \in 15 .. 3600
  /\ cfg.key \in BOOLEAN /\ cfg.clear \in BOOLEAN
  /\ {cfg.user, cfg.name} \subseteq Users \cup {Nobody}
  /\ cfg.buttons \in Seq(Buttons) /\ Len(cfg.buttons) <= 2
  /\ \A i \in DOMAIN cfg.buttons :
       Complete(cfg.buttons[i]) /\ Bytes(cfg.buttons[i].label) <= LabelMax
  /\ sessions \in Seq(Entries)
  /\ cached # Nothing => cached.media \in Users
  /\ presence.media \in Users \cup {Nothing} /\ polled \in BOOLEAN

\* The text without the blanks and the replaced bytes at its end.
Legible(t) ==
  LET marks == {i \in DOMAIN t : t[i] \notin {"blank", "bad"}}
  IN  IF marks = {} THEN <<>> ELSE SubSeq(t, 1, Max(marks))

SameButtons(bs, cs) ==
  /\ Len(bs) = Len(cs)
  /\ \A i \in DOMAIN bs : Legible(bs[i].label.text) = Legible(cs[i].label.text)

\* Whatever is saved of the other sections, and however often the process is
\* started again, the buttons stay what they were saved as.  Cleaning them again
\* costs no more than a blank at the end, also after the bytes of half a
\* character went through the encoder, one character each, and were cut again:
\* none of the label's own characters (config.go:154, 178-180,
\* store.go:70, 114-118).
ButtonsKept ==
  [][\/ SameButtons(cfg.buttons, cfg'.buttons)
     \/ \E bs \in ButtonLists, answered \in BOOLEAN :
          Saves([buttons |-> bs, jellyfin |-> Absent], answered)]_cfg

\* After a poll that Jellyfin answered the presence shows what a session plays
\* that somebody wants to see, and the custom one only if there is none: or if
\* pausing clears, and one that is paused comes first.  What the cache has kept
\* of other settings or lists is not shown, and the buttons are the
\* configuration's (mapper.go:27-39, client.go:120-137, app.go:236-243, 281-318).
PollShowsWanted ==
  polled =>
    LET wanted == {i \in DOMAIN sessions : Passes(sessions[i], cfg)}
    IN  /\ presence.media # Nothing =>
             \E i \in wanted :
               /\ sessions[i].user = presence.media
               /\ sessions[i].item = IF presence.paused THEN "paused" ELSE "playing"
               /\ ~(cfg.clear /\ presence.paused)
        /\ presence.media = Nothing =>
             \A i \in wanted : sessions[i].item = "playing" =>
               cfg.clear /\ \E j \in wanted : j < i /\ sessions[j].item = "paused"
        /\ presence.buttons = Custom(cfg).buttons
=============================================================================
