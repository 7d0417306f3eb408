---------------------------- MODULE PresenceFeed ----------------------------
(***************************************************************************)
(* What the gateway client promises of presences: Discord gets what is     *)
(* desired at some moment after it has got the one before, never an older  *)
(* one again, and nothing of an earlier session; and the feed comes to     *)
(* rest only when Discord has what is desired.  Presences in between may   *)
(* be skipped, and a session may end at any time.                          *)
(***************************************************************************)
CONSTANTS
  Presences,  \* presences that may be asked for
  NoPresence  \* nothing

VARIABLES
  desired,  \* the presence asked for last
  taken,    \* the presence on its way to Discord
  shown,    \* the presence Discord has, NoPresence outside a session
  atRest    \* nothing is sent any more until something is asked for

vars == <<desired, taken, shown, atRest>>

Init ==
  /\ desired \in Presences
  /\ taken = NoPresence /\ shown = NoPresence /\ atRest = FALSE

\* It rests after this step only if Discord has then what is desired.
MayRest == atRest' \in BOOLEAN /\ (atRest' => shown' = desired')

\* A caller asks for a presence.
Ask ==
  /\ desired' \in Presences
  /\ atRest' = FALSE
  /\ UNCHANGED <<taken, shown>>

\* The presence that is desired now starts on its way; only one is on it.
Take ==
  /\ taken = NoPresence
  /\ taken' = desired
  /\ atRest' = FALSE
  /\ UNCHANGED <<desired, shown>>

\* It arrives.
Deliver ==
  /\ taken # NoPresence
  /\ shown' = taken /\ taken' = NoPresence
  /\ UNCHANGED desired
  /\ MayRest

\* It is lost, with the session or before its end is noticed.
Lose ==
  /\ taken' = NoPresence
  /\ shown' \in {shown, NoPresence}
  /\ atRest' = FALSE
  /\ UNCHANGED desired

\* The feed comes to rest, or is woken.
Turn ==
  /\ UNCHANGED <<desired, taken, shown>>
  /\ MayRest

Next == Ask \/ Take \/ Deliver \/ Lose \/ Turn

Spec == Init /\ [][Next]_vars
=============================================================================
