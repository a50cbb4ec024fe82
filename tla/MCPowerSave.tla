---------------------------- MODULE MCPowerSave -----------------------------
(***************************************************************************)
(* The instance of PowerSave that TLC checks is PowerSave.cfg itself.      *)
(***************************************************************************)
EXTENDS PowerSave
=============================================================================
