----------------------------- MODULE MCSaveSync -----------------------------
(***************************************************************************)
(* Instances of SaveSync for TLC.  The state is finite by itself: a save   *)
(* is on the server or newer, and a timer is due or not.                   *)
(***************************************************************************)
EXTENDS SaveSync

\* The game that is played and one that has a save waiting meanwhile.
TwoGames == {"g1", "g2"}
=============================================================================
