---------------------------- MODULE MCSelfUpdate ----------------------------
(***************************************************************************)
(* Instances of SelfUpdate for TLC: the birth release and two updates.     *)
(* Release 1 adds "list" and drops "pak"; release 2 ships neither of them  *)
(* but carries launcher bytes by mistake.                                  *)
(***************************************************************************)
EXTENDS SelfUpdate

MCVersion == 0..2
MCFile == {"engine", "applier", "list", "pak", "minui"}
MCBorn == {"engine", "applier", "pak", "minui"}
MCShips == [v \in MCVersion |->
    CASE v = 0 -> {"engine", "applier"}
      [] v = 1 -> {"engine", "applier", "list"}
      [] v = 2 -> {"engine", "applier", "minui"}]
MCDrops == [v \in MCVersion |-> IF v = 1 THEN {"pak"} ELSE {}]

\* For the liveness run: one update of the fewest files.
OneVersion == 0..1
FewFiles == {"engine", "applier", "minui"}
FewShips == [v \in OneVersion |->
    IF v = 0 THEN {"engine", "applier"} ELSE FewFiles]
NoDrops == [v \in OneVersion |-> {}]
=============================================================================
