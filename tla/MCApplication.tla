--------------------------- MODULE MCApplication ---------------------------
(* A small instance of Application for TLC.                                *)
EXTENDS Application, MCPresenceManager

\* Jellyfin off, and on with another custom presence.
OffAndOn == {Config(FALSE, FALSE, c1), Config(TRUE, FALSE, c2)}
=============================================================================
