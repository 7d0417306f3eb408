--------------------------- MODULE DurableConfig ---------------------------
(***************************************************************************)
(* What the config store promises: a configuration that is written in one  *)
(* step, is visible only once it is written, and comes back unchanged      *)
(* whenever the process starts again.                                      *)
(***************************************************************************)
CONSTANTS
  Config,   \* configurations: records with a field init, the password is set
  NoConfig  \* no configuration

VARIABLES
  stored,  \* the configuration that survives a restart
  view     \* what the running process answers, NoConfig when it is down

vars == <<stored, view>>

Init == stored = NoConfig /\ view = NoConfig

\* A write replaces what is visible; the password is never unset.
Write ==
  /\ view # NoConfig
  /\ stored # NoConfig => view = stored
  /\ \E c \in Config : (view.init => c.init) /\ stored' = c
  /\ view' = view

\* The writer makes its write visible.
Publish ==
  /\ view # NoConfig /\ stored # NoConfig
  /\ view' = stored
  /\ stored' = stored

\* The process ends, whenever it likes.
Lose == view' = NoConfig /\ stored' = stored

\* It starts again: with what is stored, or else with a default that has no
\* password.
Recover ==
  /\ view = NoConfig
  /\ view' \in IF stored = NoConfig THEN {c \in Config : ~c.init} ELSE {stored}
  /\ stored' = stored

Next == Write \/ Publish \/ Lose \/ Recover

Spec == Init /\ [][Next]_vars
=============================================================================
