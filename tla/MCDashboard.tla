---------------------------- MODULE MCDashboard ----------------------------
(***************************************************************************)
(* Dashboard for TLC.  The slots of the page's tasks are alike.            *)
(***************************************************************************)
EXTENDS Dashboard, TLC

Symmetry == Permutations(Requests)
=============================================================================
