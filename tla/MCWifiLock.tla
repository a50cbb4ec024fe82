----------------------------- MODULE MCWifiLock -----------------------------
(***************************************************************************)
(* Instances of WifiLock for TLC: a foreground download or pull ("run"), a *)
(* post-game push, the daemon and a second background worker ("covers").   *)
(***************************************************************************)
EXTENDS WifiLock

Modes == [p \in Actor |->
    CASE p = "run" -> "fg" [] p = "push" -> "push" [] OTHER -> "bg"]

\* push-save, push-states and push-pending-states; sync and states; one.
FewCalls == [p \in Actor |-> IF p \in {"push", "syncd"} THEN 2 ELSE 1]
=============================================================================
