-------------------------- MODULE PowerSaveProofs ---------------------------
(***************************************************************************)
(* Proofs about PowerSave, for every length of a game.                     *)
(***************************************************************************)
EXTENDS PowerSave, TLAPS

\* The steps of a save, and where each may lead.
Steps ==
    /\ pc \in {"state", "state_write", "state_sync", "auto", "auto_write"} => Suspends /\ at \in {"game", "menu"}
    /\ pc \in {"sram", "sram_write", "sram_sync"} => at \in {"game", "menu"} /\ goal \in {"menu", "boot", "asleep", "off", "hdmi"}
    /\ pc \in {"sync", "arrive"} => goal # "hdmi"
    /\ pc = "sync" => goal \in {"asleep", "off"}
    /\ pc = "unlink" => at = "asleep" /\ goal \in {"game", "menu"}
    /\ pc = "resume" => at = "boot" /\ goal \in {"launcher", "launch"}
    /\ pc = "arrive" /\ goal = "launch" => at = "boot"
    /\ pc \in {"sync", "arrive"} /\ goal \in {"game", "menu", "asleep"} => at \in {"game", "menu", "asleep"}
    /\ slot = "9" => \/ at = "launch" /\ pc = "idle"
                     \/ at = "boot" /\ pc \in {"resume", "arrive"} /\ goal = "launch"

LEMMA TypeInitially == Init => TypeOK /\ Steps
<1> SUFFICES ASSUME Init PROVE TypeOK /\ Steps
    OBVIOUS
<1>1. 0 \in Progress /\ Absent \in Content
      BY ConstantsAssumption DEF Progress, Content
<1> QED BY <1>1 DEF Init, TypeOK, Steps

LEMMA TypePreserved == TypeOK /\ Steps /\ [Next]_vars => TypeOK'
<1> SUFFICES ASSUME TypeOK, Steps, [Next]_vars PROVE TypeOK'
    OBVIOUS
<1> USE ConstantsAssumption DEF TypeOK, Steps, Content, Progress, Absent, Torn, File, Put, Sync, Go, Idle, InGame,
        file, past, SramOver, Suspends, Read
<1>1. CASE Play
      BY <1>1 DEF Play
<1>2. CASE OpenMenu
      BY <1>2 DEF OpenMenu
<1>3. CASE CloseMenu
      BY <1>3 DEF CloseMenu
<1>4. CASE QuitGame
      BY <1>4 DEF QuitGame
<1>5. CASE Sleep
      BY <1>5 DEF Sleep
<1>6. CASE PowerOff
      BY <1>6 DEF PowerOff
<1>7. CASE HDMIChange
      BY <1>7 DEF HDMIChange
<1>8. CASE Start
      BY <1>8 DEF Start
<1>9. CASE SramOpen
      BY <1>9 DEF SramOpen
<1>10. CASE SramWrite
      BY <1>10 DEF SramWrite
<1>11. CASE SramSync
      BY <1>11 DEF SramSync
<1>12. CASE StateOpen
      BY <1>12 DEF StateOpen
<1>13. CASE StateWrite
      BY <1>13 DEF StateWrite
<1>14. CASE StateSync
      BY <1>14 DEF StateSync
<1>15. CASE AutoOpen
      BY <1>15 DEF AutoOpen
<1>16. CASE AutoWrite
      BY <1>16 DEF AutoWrite
<1>17. CASE LastSync
      BY <1>17 DEF LastSync
<1>18. CASE Arrive
      BY <1>18 DEF Arrive
<1>19. CASE Wake
      BY <1>19 DEF Wake
<1>20. CASE Awake
      BY <1>20 DEF Awake
<1>21. CASE SleepTimeout
      BY <1>21 DEF SleepTimeout
<1>22. CASE TurnOn
      BY <1>22 DEF TurnOn
<1>23. CASE Browse
      BY <1>23 DEF Browse
<1>24. CASE AutoResume
      BY <1>24 DEF AutoResume
<1>25. CASE AutoResumeSync
      BY <1>25 DEF AutoResumeSync
<1>26. CASE OpenRom
      BY <1>26 DEF OpenRom
<1>27. CASE LauncherOff
      BY <1>27 DEF LauncherOff
<1>28. CASE WriteBack
      BY <1>28 DEF WriteBack
<1>29. CASE PowerCut
      BY <1>29 DEF PowerCut
<1>30. CASE UNCHANGED vars
      BY <1>30 DEF vars
<1> QED BY <1>1, <1>2, <1>3, <1>4, <1>5, <1>6, <1>7, <1>8, <1>9, <1>10, <1>11, <1>12,
           <1>13, <1>14, <1>15, <1>16, <1>17, <1>18, <1>19, <1>20, <1>21, <1>22, <1>23, <1>24,
           <1>25, <1>26, <1>27, <1>28, <1>29, <1>30
    DEF Next, Minarch, SaveSteps, Asleep, Minui

LEMMA StepsPreserved == TypeOK /\ Steps /\ [Next]_vars => Steps'
<1> SUFFICES ASSUME TypeOK, Steps, [Next]_vars PROVE Steps'
    OBVIOUS
<1> USE DEF TypeOK, Steps, Put, Sync, Go, Idle, InGame, file, past, SramOver, Suspends
<1>1. CASE Play
      BY <1>1 DEF Play
<1>2. CASE OpenMenu
      BY <1>2 DEF OpenMenu
<1>3. CASE CloseMenu
      BY <1>3 DEF CloseMenu
<1>4. CASE QuitGame
      BY <1>4 DEF QuitGame
<1>5. CASE Sleep
      BY <1>5 DEF Sleep
<1>6. CASE PowerOff
      BY <1>6 DEF PowerOff
<1>7. CASE HDMIChange
      BY <1>7 DEF HDMIChange
<1>8. CASE Start
      BY <1>8 DEF Start
<1>9. CASE SramOpen
      BY <1>9 DEF SramOpen
<1>10. CASE SramWrite
      BY <1>10 DEF SramWrite
<1>11. CASE SramSync
      BY <1>11 DEF SramSync
<1>12. CASE StateOpen
      BY <1>12 DEF StateOpen
<1>13. CASE StateWrite
      BY <1>13 DEF StateWrite
<1>14. CASE StateSync
      BY <1>14 DEF StateSync
<1>15. CASE AutoOpen
      BY <1>15 DEF AutoOpen
<1>16. CASE AutoWrite
      BY <1>16 DEF AutoWrite
<1>17. CASE LastSync
      BY <1>17 DEF LastSync
<1>18. CASE Arrive
      BY <1>18 DEF Arrive
<1>19. CASE Wake
      BY <1>19 DEF Wake
<1>20. CASE Awake
      BY <1>20 DEF Awake
<1>21. CASE SleepTimeout
      BY <1>21 DEF SleepTimeout
<1>22. CASE TurnOn
      BY <1>22 DEF TurnOn
<1>23. CASE Browse
      BY <1>23 DEF Browse
<1>24. CASE AutoResume
      BY <1>24 DEF AutoResume
<1>25. CASE AutoResumeSync
      BY <1>25 DEF AutoResumeSync
<1>26. CASE OpenRom
      BY <1>26 DEF OpenRom
<1>27. CASE LauncherOff
      BY <1>27 DEF LauncherOff
<1>28. CASE WriteBack
      BY <1>28 DEF WriteBack
<1>29. CASE PowerCut
      BY <1>29 DEF PowerCut
<1>30. CASE UNCHANGED vars
      BY <1>30 DEF vars
<1> QED BY <1>1, <1>2, <1>3, <1>4, <1>5, <1>6, <1>7, <1>8, <1>9, <1>10, <1>11, <1>12,
           <1>13, <1>14, <1>15, <1>16, <1>17, <1>18, <1>19, <1>20, <1>21, <1>22, <1>23, <1>24,
           <1>25, <1>26, <1>27, <1>28, <1>29, <1>30
    DEF Next, Minarch, SaveSteps, Asleep, Minui

LEMMA TypeAlways == Spec => [](TypeOK /\ Steps)
BY TypeInitially, TypePreserved, StepsPreserved, PTL DEF Spec

\* The program, the save steps, the files and the slot keep their types
\* (api.c 1596-1806, minarch.c 413-592 and 3468-3480, minui.c 1436-1489).
THEOREM TypeCorrect == Spec => []TypeOK
BY TypeAlways, PTL

-----------------------------------------------------------------------------
\* Where AUTO_RESUME_PATH cannot be.
Paths ==
    /\ pc \in {"state", "state_write", "state_sync"} => card["auto"] = Absent /\ disk["auto"] = Absent
    /\ pc = "auto" => card["auto"] = Absent
    /\ pc \in {"sram", "sram_write", "sram_sync"} /\ goal # "boot" => card["auto"] = Absent
    /\ pc = "idle" /\ at \in {"game", "menu", "launcher", "launch"} => card["auto"] = Absent
    /\ pc = "arrive" /\ goal \in {"game", "menu", "launcher", "launch"} => card["auto"] = Absent
    /\ pc = "resume" => card["auto"] = Absent

\* While AUTO_RESUME_PATH is anywhere, the state is the one it was written for.
States ==
    /\ pc = "state_sync" => card["state"] = prog
    /\ \/ card["auto"] # Absent \/ disk["auto"] # Absent
       \/ pc \in {"auto", "auto_write"} \/ slot = "9"
       => card["state"] = suspended /\ disk["state"] = suspended

\* Outside minarch an unlink is on the card.
Unlinked ==
    /\ pc = "idle" /\ at \in {"off", "boot", "launcher", "launch"} => card["auto"] = disk["auto"]
    /\ pc = "arrive" /\ goal \in {"off", "boot", "launcher", "launch"} => card["auto"] = disk["auto"]

ResumeInv == TypeOK /\ Steps /\ Paths /\ States /\ Unlinked

LEMMA ResumeInitially == Init => ResumeInv
BY TypeInitially DEF Init, ResumeInv, Steps, Paths, States, Unlinked, File

LEMMA PathsPreserved == HasSram /\ ResumeInv /\ [Next]_vars => Paths'
<1> SUFFICES ASSUME HasSram, ResumeInv, [Next]_vars PROVE Paths'
    OBVIOUS
<1> USE DEF ResumeInv, Steps, Paths, TypeOK, File, Put, Sync, Go, Idle, InGame, file, past, SramOver, Suspends
<1>1. CASE Play
      BY <1>1 DEF Play
<1>2. CASE OpenMenu
      BY <1>2 DEF OpenMenu
<1>3. CASE CloseMenu
      BY <1>3 DEF CloseMenu
<1>4. CASE QuitGame
      BY <1>4 DEF QuitGame
<1>5. CASE Sleep
      BY <1>5 DEF Sleep
<1>6. CASE PowerOff
      BY <1>6 DEF PowerOff
<1>7. CASE HDMIChange
      BY <1>7 DEF HDMIChange
<1>8. CASE Start
      BY <1>8 DEF Start
<1>9. CASE SramOpen
      BY <1>9 DEF SramOpen
<1>10. CASE SramWrite
      BY <1>10 DEF SramWrite
<1>11. CASE SramSync
      BY <1>11 DEF SramSync
<1>12. CASE StateOpen
      BY <1>12 DEF StateOpen
<1>13. CASE StateWrite
      BY <1>13 DEF StateWrite
<1>14. CASE StateSync
      BY <1>14 DEF StateSync
<1>15. CASE AutoOpen
      BY <1>15 DEF AutoOpen
<1>16. CASE AutoWrite
      BY <1>16 DEF AutoWrite
<1>17. CASE LastSync
      BY <1>17 DEF LastSync
<1>18. CASE Arrive
      BY <1>18 DEF Arrive
<1>19. CASE Wake
      BY <1>19 DEF Wake
<1>20. CASE Awake
      BY <1>20 DEF Awake
<1>21. CASE SleepTimeout
      BY <1>21 DEF SleepTimeout
<1>22. CASE TurnOn
      BY <1>22 DEF TurnOn
<1>23. CASE Browse
      BY <1>23 DEF Browse
<1>24. CASE AutoResume
      BY <1>24 DEF AutoResume
<1>25. CASE AutoResumeSync
      BY <1>25 DEF AutoResumeSync
<1>26. CASE OpenRom
      BY <1>26 DEF OpenRom
<1>27. CASE LauncherOff
      BY <1>27 DEF LauncherOff
<1>28. CASE WriteBack
      BY <1>28 DEF WriteBack
<1>29. CASE PowerCut
      BY <1>29 DEF PowerCut
<1>30. CASE UNCHANGED vars
      BY <1>30 DEF vars
<1> QED BY <1>1, <1>2, <1>3, <1>4, <1>5, <1>6, <1>7, <1>8, <1>9, <1>10, <1>11, <1>12,
           <1>13, <1>14, <1>15, <1>16, <1>17, <1>18, <1>19, <1>20, <1>21, <1>22, <1>23, <1>24,
           <1>25, <1>26, <1>27, <1>28, <1>29, <1>30
    DEF Next, Minarch, SaveSteps, Asleep, Minui

LEMMA StatesPreserved == HasSram /\ ResumeInv /\ [Next]_vars => States'
<1> SUFFICES ASSUME HasSram, ResumeInv, [Next]_vars PROVE States'
    OBVIOUS
<1> USE DEF ResumeInv, Steps, Paths, States, TypeOK, File, Put, Sync, Go, Idle, InGame, file, past, SramOver, Suspends
<1>1. CASE Play
      BY <1>1 DEF Play
<1>2. CASE OpenMenu
      BY <1>2 DEF OpenMenu
<1>3. CASE CloseMenu
      BY <1>3 DEF CloseMenu
<1>4. CASE QuitGame
      BY <1>4 DEF QuitGame
<1>5. CASE Sleep
      BY <1>5 DEF Sleep
<1>6. CASE PowerOff
      BY <1>6 DEF PowerOff
<1>7. CASE HDMIChange
      BY <1>7 DEF HDMIChange
<1>8. CASE Start
      BY <1>8 DEF Start
<1>9. CASE SramOpen
      BY <1>9 DEF SramOpen
<1>10. CASE SramWrite
      BY <1>10 DEF SramWrite
<1>11. CASE SramSync
      BY <1>11 DEF SramSync
<1>12. CASE StateOpen
      BY <1>12 DEF StateOpen
<1>13. CASE StateWrite
      BY <1>13 DEF StateWrite
<1>14. CASE StateSync
      BY <1>14 DEF StateSync
<1>15. CASE AutoOpen
      BY <1>15 DEF AutoOpen
<1>16. CASE AutoWrite
      BY <1>16 DEF AutoWrite
<1>17. CASE LastSync
      BY <1>17 DEF LastSync
<1>18. CASE Arrive
      BY <1>18 DEF Arrive
<1>19. CASE Wake
      BY <1>19 DEF Wake
<1>20. CASE Awake
      BY <1>20 DEF Awake
<1>21. CASE SleepTimeout
      BY <1>21 DEF SleepTimeout
<1>22. CASE TurnOn
      BY <1>22 DEF TurnOn
<1>23. CASE Browse
      BY <1>23 DEF Browse
<1>24. CASE AutoResume
      BY <1>24 DEF AutoResume
<1>25. CASE AutoResumeSync
      BY <1>25 DEF AutoResumeSync
<1>26. CASE OpenRom
      BY <1>26 DEF OpenRom
<1>27. CASE LauncherOff
      BY <1>27 DEF LauncherOff
<1>28. CASE WriteBack
      BY <1>28 DEF WriteBack
<1>29. CASE PowerCut
      BY <1>29 DEF PowerCut
<1>30. CASE UNCHANGED vars
      BY <1>30 DEF vars
<1> QED BY <1>1, <1>2, <1>3, <1>4, <1>5, <1>6, <1>7, <1>8, <1>9, <1>10, <1>11, <1>12,
           <1>13, <1>14, <1>15, <1>16, <1>17, <1>18, <1>19, <1>20, <1>21, <1>22, <1>23, <1>24,
           <1>25, <1>26, <1>27, <1>28, <1>29, <1>30
    DEF Next, Minarch, SaveSteps, Asleep, Minui

LEMMA UnlinkedPreserved == HasSram /\ ResumeInv /\ [Next]_vars => Unlinked'
<1> SUFFICES ASSUME HasSram, ResumeInv, [Next]_vars PROVE Unlinked'
    OBVIOUS
<1> USE DEF ResumeInv, Steps, Paths, Unlinked, TypeOK, File, Put, Sync, Go, Idle, InGame, file, past, SramOver, Suspends
<1>1. CASE Play
      BY <1>1 DEF Play
<1>2. CASE OpenMenu
      BY <1>2 DEF OpenMenu
<1>3. CASE CloseMenu
      BY <1>3 DEF CloseMenu
<1>4. CASE QuitGame
      BY <1>4 DEF QuitGame
<1>5. CASE Sleep
      BY <1>5 DEF Sleep
<1>6. CASE PowerOff
      BY <1>6 DEF PowerOff
<1>7. CASE HDMIChange
      BY <1>7 DEF HDMIChange
<1>8. CASE Start
      BY <1>8 DEF Start
<1>9. CASE SramOpen
      BY <1>9 DEF SramOpen
<1>10. CASE SramWrite
      BY <1>10 DEF SramWrite
<1>11. CASE SramSync
      BY <1>11 DEF SramSync
<1>12. CASE StateOpen
      BY <1>12 DEF StateOpen
<1>13. CASE StateWrite
      BY <1>13 DEF StateWrite
<1>14. CASE StateSync
      BY <1>14 DEF StateSync
<1>15. CASE AutoOpen
      BY <1>15 DEF AutoOpen
<1>16. CASE AutoWrite
      BY <1>16 DEF AutoWrite
<1>17. CASE LastSync
      BY <1>17 DEF LastSync
<1>18. CASE Arrive
      BY <1>18 DEF Arrive
<1>19. CASE Wake
      BY <1>19 DEF Wake
<1>20. CASE Awake
      BY <1>20 DEF Awake
<1>21. CASE SleepTimeout
      BY <1>21 DEF SleepTimeout
<1>22. CASE TurnOn
      BY <1>22 DEF TurnOn
<1>23. CASE Browse
      BY <1>23 DEF Browse
<1>24. CASE AutoResume
      BY <1>24 DEF AutoResume
<1>25. CASE AutoResumeSync
      BY <1>25 DEF AutoResumeSync
<1>26. CASE OpenRom
      BY <1>26 DEF OpenRom
<1>27. CASE LauncherOff
      BY <1>27 DEF LauncherOff
<1>28. CASE WriteBack
      BY <1>28 DEF WriteBack
<1>29. CASE PowerCut
      BY <1>29 DEF PowerCut
<1>30. CASE UNCHANGED vars
      BY <1>30 DEF vars
<1> QED BY <1>1, <1>2, <1>3, <1>4, <1>5, <1>6, <1>7, <1>8, <1>9, <1>10, <1>11, <1>12,
           <1>13, <1>14, <1>15, <1>16, <1>17, <1>18, <1>19, <1>20, <1>21, <1>22, <1>23, <1>24,
           <1>25, <1>26, <1>27, <1>28, <1>29, <1>30
    DEF Next, Minarch, SaveSteps, Asleep, Minui

LEMMA ResumeAlways ==
    ASSUME HasSram
    PROVE  Spec => []ResumeInv
<1>1. ResumeInv /\ [Next]_vars => ResumeInv'
      BY HasSram, TypePreserved, StepsPreserved, PathsPreserved, StatesPreserved, UnlinkedPreserved DEF ResumeInv
<1> QED BY ResumeInitially, <1>1, PTL DEF Spec

\* What the game resumes from is what it was put to sleep with (minarch.c
\* 3468-3480 and 585-592).
THEOREM ResumesWhereSlept == Spec => ResumesWhereItSlept
<1>1. CASE HasSram
  <2>1. ResumeInv /\ [Next]_vars => [Start /\ slot = "9" /\ HasSram => prog' = suspended]_vars
        BY DEF ResumeInv, States, TypeOK, Start, Read, Absent, Progress
  <2> QED BY <1>1, ResumeAlways, <2>1, PTL DEF Spec, ResumesWhereItSlept
<1>2. CASE ~HasSram
  <2>1. [Next]_vars => [Start /\ slot = "9" /\ HasSram => prog' = suspended]_vars
        BY <1>2
  <2> QED BY <2>1, PTL DEF Spec, ResumesWhereItSlept
<1> QED BY <1>1, <1>2

\* No power cut resumes a game a second time (minui.c 1436-1489).
THEOREM ResumedOnlyOnce == Spec => []ResumedOnce
<1>1. CASE HasSram
  <2>1. ResumeInv => ResumedOnce
        BY DEF ResumeInv, Paths, Unlinked, ResumedOnce, Idle
  <2> QED BY <1>1, ResumeAlways, <2>1, PTL
<1>2. CASE ~HasSram
  <2>1. ResumedOnce
        BY <1>2 DEF ResumedOnce
  <2> QED BY <2>1, PTL
<1> QED BY <1>1, <1>2

-----------------------------------------------------------------------------

\* What SRAM_write finished is in the core's memory, in the .sav, and in the
\* state wherever that may be resumed from.
Kept ==
    ~cut =>
    /\ at \in {"game", "menu", "asleep"} => prog >= saved
    /\ pc \notin {"sram_write", "sram_sync"} =>
         /\ card["sav"] = disk["sav"]
         /\ card["sav"] = saved \/ (card["sav"] = Absent /\ saved = 0)
    /\ pc = "sram_sync" => card["sav"] = prog
    /\ \/ card["auto"] # Absent \/ disk["auto"] # Absent
       \/ pc \in {"auto", "auto_write"} \/ slot = "9"
       => \/ suspended >= saved
          \/ card["auto"] = Absent /\ pc \in {"sram_write", "sram_sync"}
    /\ pc \in {"sram", "sram_write", "sram_sync"} /\ card["auto"] # Absent => prog = suspended
    /\ pc \in {"auto", "auto_write"} => prog = suspended

LEMMA KeptPreserved == HasSram /\ ResumeInv /\ Kept /\ [Next]_vars => Kept'
<1> SUFFICES ASSUME HasSram, ResumeInv, Kept, [Next]_vars PROVE Kept'
    OBVIOUS
<1> USE ConstantsAssumption
    DEF ResumeInv, Steps, Paths, States, Unlinked, Kept, TypeOK, Progress, Content, Absent, Torn, File,
        Put, Sync, Go, Idle, InGame, file, past, SramOver, Suspends, Read
<1>1. CASE Play
      BY <1>1 DEF Play
<1>2. CASE OpenMenu
      BY <1>2 DEF OpenMenu
<1>3. CASE CloseMenu
      BY <1>3 DEF CloseMenu
<1>4. CASE QuitGame
      BY <1>4 DEF QuitGame
<1>5. CASE Sleep
      BY <1>5 DEF Sleep
<1>6. CASE PowerOff
      BY <1>6 DEF PowerOff
<1>7. CASE HDMIChange
      BY <1>7 DEF HDMIChange
<1>8. CASE Start
      BY <1>8 DEF Start
<1>9. CASE SramOpen
      BY <1>9 DEF SramOpen
<1>10. CASE SramWrite
      BY <1>10 DEF SramWrite
<1>11. CASE SramSync
      BY <1>11 DEF SramSync
<1>12. CASE StateOpen
      BY <1>12 DEF StateOpen
<1>13. CASE StateWrite
      BY <1>13 DEF StateWrite
<1>14. CASE StateSync
      BY <1>14 DEF StateSync
<1>15. CASE AutoOpen
      BY <1>15 DEF AutoOpen
<1>16. CASE AutoWrite
      BY <1>16 DEF AutoWrite
<1>17. CASE LastSync
      BY <1>17 DEF LastSync
<1>18. CASE Arrive
      BY <1>18 DEF Arrive
<1>19. CASE Wake
      BY <1>19 DEF Wake
<1>20. CASE Awake
      BY <1>20 DEF Awake
<1>21. CASE SleepTimeout
      BY <1>21 DEF SleepTimeout
<1>22. CASE TurnOn
      BY <1>22 DEF TurnOn
<1>23. CASE Browse
      BY <1>23 DEF Browse
<1>24. CASE AutoResume
      BY <1>24 DEF AutoResume
<1>25. CASE AutoResumeSync
      BY <1>25 DEF AutoResumeSync
<1>26. CASE OpenRom
      BY <1>26 DEF OpenRom
<1>27. CASE LauncherOff
      BY <1>27 DEF LauncherOff
<1>28. CASE WriteBack
      BY <1>28 DEF WriteBack
<1>29. CASE PowerCut
      BY <1>29 DEF PowerCut
<1>30. CASE UNCHANGED vars
      BY <1>30 DEF vars
<1> QED BY <1>1, <1>2, <1>3, <1>4, <1>5, <1>6, <1>7, <1>8, <1>9, <1>10, <1>11, <1>12,
           <1>13, <1>14, <1>15, <1>16, <1>17, <1>18, <1>19, <1>20, <1>21, <1>22, <1>23, <1>24,
           <1>25, <1>26, <1>27, <1>28, <1>29, <1>30
    DEF Next, Minarch, SaveSteps, Asleep, Minui

\* What SRAM_write has finished is never lost but by a cut in the middle of
\* another (minarch.c 413-435, 465-487).
THEOREM SavedIsKept == Spec => SavedStaysSaved
<1>1. CASE HasSram
  <2>1. Init => Kept
        BY DEF Init, Kept, Absent, File
  <2>2. ResumeInv /\ Kept /\ [Next]_vars => Kept'
        BY <1>1, KeptPreserved
  <2>3. ResumeInv /\ Kept /\ [Next]_vars => [Start /\ HasSram /\ ~cut => prog' >= saved]_vars
        BY ConstantsAssumption DEF ResumeInv, Kept, States, TypeOK, Start, Read, Absent, Progress, Idle
  <2> QED BY <1>1, ResumeAlways, <2>1, <2>2, <2>3, PTL DEF Spec, SavedStaysSaved
<1>2. CASE ~HasSram
  <2>1. [Next]_vars => [Start /\ HasSram /\ ~cut => prog' >= saved]_vars
        BY <1>2
  <2> QED BY <2>1, PTL DEF Spec, SavedStaysSaved
<1> QED BY <1>1, <1>2
=============================================================================
