------------------------------ MODULE MCRadio ------------------------------
(***************************************************************************)
(* The instance of Radio for TLC: one session of the launcher, the daemon, *)
(* both kinds of radio, a cooldown of two ticks.                           *)
(***************************************************************************)
EXTENDS Radio
=============================================================================
