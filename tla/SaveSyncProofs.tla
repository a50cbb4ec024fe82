--------------------------- MODULE SaveSyncProofs ---------------------------
(***************************************************************************)
(* Proofs about SaveSync, for any number of games, with and without a      *)
(* server that reconciles, and with both faults.                           *)
(***************************************************************************)
EXTENDS SaveSync, TLAPS

\* What the program has taken care of, or is known to have missed.
Kept == queue \cup missed

\* Only the game being played may have a save that is not taken care of, and
\* only until the quit has queued it or the helper has dealt with it.
Covered ==
    IF ui \in {"play", "quit"} \/ (ui \in {"push", "save"} /\ online)
    THEN Dirty \subseteq Kept \cup {game}
    ELSE Dirty \subseteq Kept

Inv == TypeOK /\ LockFollowsHolder /\ Covered

\* A call that lands the saves of <S> leaves the other dirty ones dirty.
LEMMA LandDirty ==
    ASSUME TypeOK, NEW S, Land(S)
    PROVE  /\ save' \in [Game -> {"none", "dirty", "clean"}]
           /\ Dirty' = Dirty \ S
BY DEF TypeOK, Land, Dirty

LEMMA InitInv == Init => Inv
<1> SUFFICES ASSUME Init PROVE Inv
  OBVIOUS
<1> USE DEF Init
<1>1. Dirty = {}
  BY DEF Dirty
<1>2. TypeOK
  BY DEF TypeOK, UiPC, Shim, SyncdPC
<1>3. LockFollowsHolder
  BY DEF LockFollowsHolder, UiHolds
<1> QED
  BY <1>1, <1>2, <1>3 DEF Inv, Covered

\* The types, action by action.
LEMMA NextTypeOK ==
    ASSUME TypeOK, [Next]_vars
    PROVE  TypeOK'
<1> USE SaveAssumption DEF Take, Busy, NoLink, Release, ToMenu, daemon, timers, TypeOK, UiPC, Shim, SyncdPC
<1>1. ASSUME NEW g \in Game, Launch(g) PROVE TypeOK'
  BY <1>1 DEF Launch
<1>2. CASE GateRefuses
  BY <1>2 DEF GateRefuses
<1>3. CASE GatePasses
  BY <1>3 DEF GatePasses
<1>4. CASE Fetch
  BY <1>4 DEF Fetch
<1>5. CASE FetchDone
  BY <1>5 DEF FetchDone
<1>6. CASE Card
  BY <1>6 DEF Card
<1>7. CASE PullDone
  BY <1>7, LandDirty DEF PullDone
<1>8. CASE PlaySaves
  BY <1>8 DEF PlaySaves
<1>9. CASE QuitGame
  BY <1>9 DEF QuitGame
<1>10. CASE QueueSave
  BY <1>10 DEF QueueSave
<1>11. CASE PushSkipped
  BY <1>11 DEF PushSkipped, Unsaved
<1>12. CASE PushTake
  BY <1>12 DEF PushTake
<1>13. CASE PushSave
  BY <1>13, LandDirty DEF PushSave
<1>14. CASE PushTimesOut
  BY <1>14 DEF PushTimesOut, Unsaved
<1>15. CASE PushDone
  BY <1>15 DEF PushDone
<1>16. CASE Report
  BY <1>16 DEF Report
<1>17. CASE ReportDone
  BY <1>17 DEF ReportDone
<1>18. CASE SyncNow
  BY <1>18 DEF SyncNow
<1>19. CASE SyncNowDone
  BY <1>19, LandDirty DEF SyncNowDone
<1>20. CASE Dismiss
  BY <1>20 DEF Dismiss
<1>21. CASE ToggleWifi
  BY <1>21 DEF ToggleWifi
<1>22. CASE Poll
  BY <1>22 DEF Poll
<1>23. CASE SyncdBusy
  BY <1>23 DEF SyncdBusy
<1>24. CASE SyncdNoLink
  BY <1>24 DEF SyncdNoLink, Attempted
<1>25. CASE SyncdTake
  BY <1>25 DEF SyncdTake, Attempted
<1>26. CASE SyncdReconcile
  BY <1>26, LandDirty DEF SyncdReconcile, ReconcileLands
<1>27. CASE SyncdDrain
  BY <1>27, LandDirty DEF SyncdDrain, DrainLands
<1>28. CASE SyncdDone
  BY <1>28 DEF SyncdDone
<1>29. CASE TimePasses
  BY <1>29 DEF TimePasses
<1>30. CASE LinkDrops
  BY <1>30 DEF LinkDrops
<1>31. CASE Plug
  BY <1>31 DEF Plug
<1>32. CASE PowerCut
  BY <1>32 DEF PowerCut, Dirty
<1>33. CASE UNCHANGED vars
  BY <1>33 DEF vars
<1> QED
    BY <1>1, <1>2, <1>3, <1>4, <1>5, <1>6, <1>7, <1>8, <1>9, <1>10, <1>11,
     <1>12, <1>13, <1>14, <1>15, <1>16, <1>17, <1>18, <1>19, <1>20, <1>21,
     <1>22, <1>23, <1>24, <1>25, <1>26, <1>27, <1>28, <1>29, <1>30, <1>31,
     <1>32, <1>33 DEF Next, UiNext, SyncdNext

\* The mutex: who takes it was not holding it, and who leaves gives it up.
LEMMA NextLockFollowsHolder ==
    ASSUME LockFollowsHolder, [Next]_vars
    PROVE  LockFollowsHolder'
<1> USE SaveAssumption DEF Take, Busy, NoLink, Release, ToMenu, daemon, timers, LockFollowsHolder, UiHolds
<1>1. ASSUME NEW g \in Game, Launch(g) PROVE LockFollowsHolder'
  BY <1>1 DEF Launch
<1>2. CASE GateRefuses
  BY <1>2 DEF GateRefuses
<1>3. CASE GatePasses
  BY <1>3 DEF GatePasses
<1>4. CASE Fetch
  BY <1>4 DEF Fetch
<1>5. CASE FetchDone
  BY <1>5 DEF FetchDone
<1>6. CASE Card
  BY <1>6 DEF Card
<1>7. CASE PullDone
  BY <1>7 DEF PullDone
<1>8. CASE PlaySaves
  BY <1>8 DEF PlaySaves
<1>9. CASE QuitGame
  BY <1>9 DEF QuitGame
<1>10. CASE QueueSave
  BY <1>10 DEF QueueSave
<1>11. CASE PushSkipped
  BY <1>11 DEF PushSkipped
<1>12. CASE PushTake
  BY <1>12 DEF PushTake
<1>13. CASE PushSave
  BY <1>13 DEF PushSave
<1>14. CASE PushTimesOut
  BY <1>14 DEF PushTimesOut
<1>15. CASE PushDone
  BY <1>15 DEF PushDone
<1>16. CASE Report
  BY <1>16 DEF Report
<1>17. CASE ReportDone
  BY <1>17 DEF ReportDone
<1>18. CASE SyncNow
  BY <1>18 DEF SyncNow
<1>19. CASE SyncNowDone
  BY <1>19 DEF SyncNowDone
<1>20. CASE Dismiss
  BY <1>20 DEF Dismiss
<1>21. CASE ToggleWifi
  BY <1>21 DEF ToggleWifi
<1>22. CASE Poll
  BY <1>22 DEF Poll
<1>23. CASE SyncdBusy
  BY <1>23 DEF SyncdBusy
<1>24. CASE SyncdNoLink
  BY <1>24 DEF SyncdNoLink
<1>25. CASE SyncdTake
  BY <1>25 DEF SyncdTake
<1>26. CASE SyncdReconcile
  BY <1>26 DEF SyncdReconcile
<1>27. CASE SyncdDrain
  BY <1>27 DEF SyncdDrain
<1>28. CASE SyncdDone
  BY <1>28 DEF SyncdDone
<1>29. CASE TimePasses
  BY <1>29 DEF TimePasses
<1>30. CASE LinkDrops
  BY <1>30 DEF LinkDrops
<1>31. CASE Plug
  BY <1>31 DEF Plug
<1>32. CASE PowerCut
  BY <1>32 DEF PowerCut
<1>33. CASE UNCHANGED vars
  BY <1>33 DEF vars
<1> QED
    BY <1>1, <1>2, <1>3, <1>4, <1>5, <1>6, <1>7, <1>8, <1>9, <1>10, <1>11,
     <1>12, <1>13, <1>14, <1>15, <1>16, <1>17, <1>18, <1>19, <1>20, <1>21,
     <1>22, <1>23, <1>24, <1>25, <1>26, <1>27, <1>28, <1>29, <1>30, <1>31,
     <1>32, <1>33 DEF Next, UiNext, SyncdNext

\* The saves: what lands leaves Dirty, and only what landed, or what the owner
\* dismissed, leaves the queue.
LEMMA NextCovered ==
    ASSUME TypeOK, Covered, [Next]_vars
    PROVE  Covered'
<1> USE SaveAssumption DEF Take, Busy, NoLink, Release, ToMenu, daemon, timers, TypeOK, Covered, Kept, Dirty, UiPC, Shim
<1>1. ASSUME NEW g \in Game, Launch(g) PROVE Covered'
  BY <1>1 DEF Launch
<1>2. CASE GateRefuses
  BY <1>2 DEF GateRefuses
<1>3. CASE GatePasses
  BY <1>3 DEF GatePasses
<1>4. CASE Fetch
  BY <1>4 DEF Fetch
<1>5. CASE FetchDone
  BY <1>5 DEF FetchDone
<1>6. CASE Card
  BY <1>6 DEF Card
<1>7. CASE PullDone
  BY <1>7, LandDirty DEF PullDone
<1>8. CASE PlaySaves
  BY <1>8 DEF PlaySaves
<1>9. CASE QuitGame
  BY <1>9 DEF QuitGame
<1>10. CASE QueueSave
  BY <1>10 DEF QueueSave
<1>11. CASE PushSkipped
  BY <1>11 DEF PushSkipped, Unsaved
<1>12. CASE PushTake
  BY <1>12 DEF PushTake
<1>13. CASE PushSave
  BY <1>13, LandDirty DEF PushSave
<1>14. CASE PushTimesOut
  BY <1>14 DEF PushTimesOut, Unsaved
<1>15. CASE PushDone
  BY <1>15 DEF PushDone
<1>16. CASE Report
  BY <1>16 DEF Report
<1>17. CASE ReportDone
  BY <1>17 DEF ReportDone
<1>18. CASE SyncNow
  BY <1>18 DEF SyncNow
<1>19. CASE SyncNowDone
  BY <1>19, LandDirty DEF SyncNowDone
<1>20. CASE Dismiss
  BY <1>20 DEF Dismiss
<1>21. CASE ToggleWifi
  BY <1>21 DEF ToggleWifi
<1>22. CASE Poll
  BY <1>22 DEF Poll
<1>23. CASE SyncdBusy
  BY <1>23 DEF SyncdBusy
<1>24. CASE SyncdNoLink
  BY <1>24 DEF SyncdNoLink, Attempted
<1>25. CASE SyncdTake
  BY <1>25 DEF SyncdTake, Attempted
<1>26. CASE SyncdReconcile
  BY <1>26, LandDirty DEF SyncdReconcile, ReconcileLands
<1>27. CASE SyncdDrain
  BY <1>27, LandDirty DEF SyncdDrain, DrainLands
<1>28. CASE SyncdDone
  BY <1>28 DEF SyncdDone
<1>29. CASE TimePasses
  BY <1>29 DEF TimePasses
<1>30. CASE LinkDrops
  BY <1>30 DEF LinkDrops
<1>31. CASE Plug
  BY <1>31 DEF Plug
<1>32. CASE PowerCut
  BY <1>32 DEF PowerCut, Dirty
<1>33. CASE UNCHANGED vars
  BY <1>33 DEF vars
<1> QED
    BY <1>1, <1>2, <1>3, <1>4, <1>5, <1>6, <1>7, <1>8, <1>9, <1>10, <1>11,
     <1>12, <1>13, <1>14, <1>15, <1>16, <1>17, <1>18, <1>19, <1>20, <1>21,
     <1>22, <1>23, <1>24, <1>25, <1>26, <1>27, <1>28, <1>29, <1>30, <1>31,
     <1>32, <1>33 DEF Next, UiNext, SyncdNext

LEMMA InvHolds == Spec => []Inv
<1>1. Inv /\ [Next]_vars => Inv'
  BY NextTypeOK, NextLockFollowsHolder, NextCovered DEF Inv
<1> QED
  BY <1>1, InitInv, PTL DEF Spec

\* Every variable keeps its type, and a game is named exactly while the
\* foreground is not in the menu (minarch-shim.sh:19-27).
THEOREM TypeCorrect == Spec => []TypeOK
BY InvHolds, PTL DEF Inv

\* Whatever fails, a process that is done with the mutex has given it up
\* (romm-session-sync:28 and 152, romm-syncd:189 and 212).
THEOREM MutexIsGivenUp == Spec => []LockFollowsHolder
BY InvHolds, PTL DEF Inv

\* Back in the menu, every save the server does not have is queued, or is one
\* that a known gap missed, whatever the daemon and Sync Now did meanwhile
\* (minarch-shim.sh:230-303).
THEOREM NoOtherMiss == Spec => []OnlyKnownMisses
<1>1. Inv => OnlyKnownMisses
  BY DEF Inv, Covered, Kept, OnlyKnownMisses
<1> QED
  BY <1>1, InvHolds, PTL
=============================================================================
