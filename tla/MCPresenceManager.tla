------------------------- MODULE MCPresenceManager -------------------------
(* Small instances of PresenceManager for TLC.                             *)
EXTENDS PresenceManager

CONSTANTS c1, c2

Config(j, p, c) == [jellyfin |-> j, clearOnPause |-> p, custom |-> c]

\* Jellyfin off and on.
TwoConfigs == {Config(FALSE, FALSE, c1), Config(TRUE, FALSE, c1)}

\* Jellyfin off; on; on with another custom presence and clearing on pause.
ThreeConfigs == TwoConfigs \cup {Config(TRUE, TRUE, c2)}

BothCustoms == {c1, c2}
=============================================================================
