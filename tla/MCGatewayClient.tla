-------------------------- MODULE MCGatewayClient --------------------------
(* Small instances of GatewayClient for TLC.                               *)
EXTENDS GatewayClient, TLC

\* The actors, tokens, presences and connections are interchangeable.
Symmetry == Permutations(Callers) \cup Permutations(Tokens)
              \cup Permutations(Presences) \cup Permutations(Slots)
=============================================================================
