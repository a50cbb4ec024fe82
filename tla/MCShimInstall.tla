--------------------------- MODULE MCShimInstall ---------------------------
(***************************************************************************)
(* Instances of ShimInstall for TLC.  The state is finite by itself: every *)
(* hook is added once, and the Wifi pak's line is switched on and off.     *)
(***************************************************************************)
EXTENDS ShimInstall

\* Every way a card can come.
AllKinds == {"stock", "built", "partial", "lost"}
=============================================================================
