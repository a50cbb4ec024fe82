----------------------------- MODULE PowerSave ------------------------------
(***************************************************************************)
(* Sleep, power-off and auto-resume: PWR_update, PWR_fauxSleep and         *)
(* PWR_waitForWake of workspace/all/common/api.c, the save files and       *)
(* Menu_beforeSleep of workspace/all/minarch/minarch.c, autoResume of      *)
(* workspace/all/minui/minui.c.  A game's progress is a number, the same   *)
(* in its save memory as in its state.  The card keeps what was synced,    *)
(* and what the kernel happened to write back, when the power is cut.      *)
(***************************************************************************)
EXTENDS Integers

CONSTANTS
    HasSram,        \* the core has save memory
    MaxProgress     \* bound: how far the game goes

ASSUME ConstantsAssumption == HasSram \in BOOLEAN /\ MaxProgress \in Nat

VARIABLES
    at,             \* what is running
    pc, goal,       \* the step of a save, a sleep or a wake-up; where it leads
    prog,           \* progress in the core's memory
    card,           \* the files as programs see them
    disk,           \* the files as a power cut leaves them
    slot,           \* RESUME_SLOT_PATH, in /tmp; "none" when there is none
    saved,          \* history: the progress of the last finished SRAM_write
    suspended,      \* history: the progress of the last finished State_autosave
    cut             \* history: the power was cut in the middle of SRAM_write

file == <<card, disk>>
past == <<saved, suspended, cut>>
vars == <<at, pc, goal, prog, file, slot, past>>

\* The .sav (with it the .rtc), the state of AUTO_RESUME_SLOT, AUTO_RESUME_PATH.
File     == {"sav", "state", "auto"}
Progress == 0..MaxProgress
Absent   == -1
Torn     == -2     \* opened with "w" and not yet written

Init ==
    /\ at = "boot" /\ pc = "idle" /\ goal = "boot"
    /\ prog = 0 /\ slot = "none"
    /\ card = [f \in File |-> Absent] /\ disk = card
    /\ saved = 0 /\ suspended = 0 /\ cut = FALSE

Idle == pc = "idle"
InGame == at \in {"game", "menu"}

Put(f, v) == card' = [card EXCEPT ![f] = v] /\ UNCHANGED disk
Sync      == disk' = card /\ UNCHANGED card

\* Enters a sequence of steps.
Go(step, to) == pc' = step /\ goal' = to /\ UNCHANGED <<at, prog, file, slot, past>>

-----------------------------------------------------------------------------
(* minarch: playing, the menu, and the reasons to save                     *)

Play ==
    /\ Idle /\ at = "game" /\ prog < MaxProgress
    /\ prog' = prog + 1
    /\ UNCHANGED <<at, pc, goal, file, slot, past>>

\* Menu_loop begins with SRAM_write.
OpenMenu == Idle /\ at = "game" /\ Go("sram", "menu")

CloseMenu ==
    /\ Idle /\ at = "menu"
    /\ at' = "game"
    /\ UNCHANGED <<pc, goal, prog, file, slot, past>>

\* Core_quit; MinUI.pak's loop starts minui again.
QuitGame == Idle /\ InGame /\ Go("sram", "boot")

\* PWR_update: requested, automatic, or the button released.
Sleep == Idle /\ InGame /\ Go("sram", "asleep")

\* PWR_update: BTN_POWEROFF, or the power button held for a second.
PowerOff == Idle /\ InGame /\ Go("sram", "off")

\* hdmimon: Menu_beforeSleep, and quit.
HDMIChange == Idle /\ InGame /\ Go("sram", "hdmi")

-----------------------------------------------------------------------------
(* SRAM_write and RTC_write                                                *)

\* Menu_beforeSleep goes on to State_autosave.
Suspends == goal \in {"asleep", "off", "hdmi"}

SramOver == IF Suspends THEN "state" ELSE "arrive"

SramOpen ==
    /\ pc = "sram"
    /\ IF HasSram THEN Put("sav", Torn) /\ pc' = "sram_write"
                  ELSE UNCHANGED file /\ pc' = SramOver
    /\ UNCHANGED <<at, goal, prog, slot, past>>

SramWrite ==
    /\ pc = "sram_write"
    /\ Put("sav", prog)
    /\ pc' = "sram_sync"
    /\ UNCHANGED <<at, goal, prog, slot, past>>

SramSync ==
    /\ pc = "sram_sync"
    /\ Sync
    /\ saved' = prog
    /\ pc' = SramOver
    /\ UNCHANGED <<at, goal, prog, slot, suspended, cut>>

-----------------------------------------------------------------------------
(* State_autosave, and the rest of Menu_beforeSleep                        *)

StateOpen ==
    /\ pc = "state"
    /\ Put("state", Torn)
    /\ pc' = "state_write"
    /\ UNCHANGED <<at, goal, prog, slot, past>>

StateWrite ==
    /\ pc = "state_write"
    /\ Put("state", prog)
    /\ pc' = "state_sync"
    /\ UNCHANGED <<at, goal, prog, slot, past>>

\* Wrong: no sync() before the path is written.
StateUnsynced ==
    /\ pc = "state_sync"
    /\ suspended' = prog
    /\ pc' = "auto"
    /\ UNCHANGED <<at, goal, prog, file, slot, saved, cut>>

StateSync ==
    /\ pc = "state_sync"
    /\ Sync
    /\ suspended' = prog
    /\ pc' = "auto"
    /\ UNCHANGED <<at, goal, prog, slot, saved, cut>>

AutoOpen ==
    /\ pc = "auto"
    /\ Put("auto", Torn)
    /\ pc' = "auto_write"
    /\ UNCHANGED <<at, goal, prog, slot, past>>

\* The path is 0.  putFile is not synced: PWR_enterSleep and an orderly shutdown are.  hdmimon
\* goes on to Core_quit.
AutoWrite ==
    /\ pc = "auto_write"
    /\ Put("auto", 0)
    /\ pc' = IF goal = "hdmi" THEN "sram" ELSE "sync"
    /\ goal' = IF goal = "hdmi" THEN "boot" ELSE goal
    /\ UNCHANGED <<at, prog, slot, past>>

LastSync ==
    /\ pc = "sync"
    /\ Sync
    /\ pc' = "arrive"
    /\ UNCHANGED <<at, goal, prog, slot, past>>

Arrive ==
    /\ pc = "arrive"
    /\ at' = goal /\ pc' = "idle"
    /\ UNCHANGED <<goal, prog, file, slot, past>>

-----------------------------------------------------------------------------
(* PWR_fauxSleep.  The game sleeps in its input poll or in its menu.       *)

\* A button, a request, or deep sleep that returns: PWR_exitSleep syncs.
Wake ==
    /\ Idle /\ at = "asleep"
    /\ Sync
    /\ pc' = "unlink" /\ goal' \in {"game", "menu"}
    /\ UNCHANGED <<at, prog, slot, past>>

\* Wrong: forgets AUTO_RESUME_PATH.
AwakeKeeping ==
    /\ pc = "unlink"
    /\ pc' = "arrive"
    /\ UNCHANGED <<at, goal, prog, file, slot, past>>

\* Menu_afterSleep
Awake ==
    /\ pc = "unlink"
    /\ Put("auto", Absent)
    /\ pc' = "arrive"
    /\ UNCHANGED <<at, goal, prog, slot, past>>

\* Two minutes, no charger and no deep sleep: PWR_powerOff.
SleepTimeout == Idle /\ at = "asleep" /\ Go("sync", "off")

-----------------------------------------------------------------------------
(* minui                                                                   *)

TurnOn ==
    /\ Idle /\ at = "off"
    /\ at' = "boot"
    /\ UNCHANGED <<pc, goal, prog, file, slot, past>>

\* autoResume finds no AUTO_RESUME_PATH.
Browse ==
    /\ Idle /\ at = "boot" /\ card["auto"] = Absent
    /\ at' = "launcher"
    /\ UNCHANGED <<pc, goal, prog, file, slot, past>>

\* autoResume takes AUTO_RESUME_PATH; an empty one names no game.
AutoResume ==
    /\ Idle /\ at = "boot" /\ card["auto"] # Absent
    /\ Put("auto", Absent)
    /\ slot' = IF card["auto"] = Torn THEN "none" ELSE "9"
    /\ pc' = "resume" /\ goal' = IF card["auto"] = Torn THEN "launcher" ELSE "launch"
    /\ UNCHANGED <<at, prog, past>>

\* Wrong: no sync().
AutoResumeUnsynced ==
    /\ pc = "resume"
    /\ pc' = "arrive"
    /\ UNCHANGED <<at, goal, prog, file, slot, past>>

AutoResumeSync ==
    /\ pc = "resume"
    /\ Sync
    /\ pc' = "arrive"
    /\ UNCHANGED <<at, goal, prog, slot, past>>

\* openRom, with the hidden default state in slot 8 that may not exist.
OpenRom ==
    /\ Idle /\ at = "launcher"
    /\ slot' = "8" /\ at' = "launch"
    /\ UNCHANGED <<pc, goal, prog, file, past>>

\* PWR_update has no callbacks in the launcher, and its sleep changes nothing.
LauncherOff == Idle /\ at = "launcher" /\ Go("sync", "off")

\* A torn file reads as if the game had just begun.
Read(f) == IF card[f] \in Progress THEN card[f] ELSE 0

\* Core_load with SRAM_read, and State_resume.
Start ==
    /\ Idle /\ at = "launch"
    /\ prog' = IF slot = "9" /\ card["state"] # Absent THEN Read("state") ELSE Read("sav")
    /\ slot' = "none" /\ at' = "game"
    /\ UNCHANGED <<pc, goal, file, past>>

-----------------------------------------------------------------------------
(* the card                                                                *)

WriteBack ==
    /\ \E f \in File : disk[f] # card[f] /\ disk' = [disk EXCEPT ![f] = card[f]]
    /\ UNCHANGED <<at, pc, goal, prog, card, slot, past>>

PowerCut ==
    /\ at # "off"
    /\ card' = disk
    /\ at' = "off" /\ pc' = "idle" /\ slot' = "none"
    /\ cut' = (cut \/ pc \in {"sram_write", "sram_sync"})
    /\ UNCHANGED <<goal, prog, disk, saved, suspended>>

Minarch   == \/ Play \/ OpenMenu \/ CloseMenu \/ QuitGame \/ Sleep \/ PowerOff \/ HDMIChange \/ Start
SaveSteps == \/ SramOpen \/ SramWrite \/ SramSync \/ StateOpen \/ StateWrite \/ StateSync
             \/ AutoOpen \/ AutoWrite \/ LastSync \/ Arrive
Asleep    == Wake \/ Awake \/ SleepTimeout
Minui     == TurnOn \/ Browse \/ AutoResume \/ AutoResumeSync \/ OpenRom \/ LauncherOff

Next == Minarch \/ SaveSteps \/ Asleep \/ Minui \/ WriteBack \/ PowerCut

Spec == Init /\ [][Next]_vars

-----------------------------------------------------------------------------

Content == Progress \cup {Absent, Torn}

TypeOK ==
    /\ at \in {"boot", "launcher", "launch", "game", "menu", "asleep", "off"}
    /\ pc \in {"idle", "sram", "sram_write", "sram_sync", "state", "state_write", "state_sync", "auto",
               "auto_write", "sync", "arrive", "unlink", "resume"}
    /\ goal \in {"boot", "launcher", "launch", "game", "menu", "asleep", "off", "hdmi"}
    /\ prog \in Progress /\ saved \in Progress /\ suspended \in Progress
    /\ card \in [File -> Content] /\ disk \in [File -> Content]
    /\ slot \in {"none", "8", "9"} /\ cut \in BOOLEAN

\* What SRAM_write has once finished is there when the game starts again, by its
\* save or by the state it resumes from, whatever sleeps, timeouts, quits and
\* power cuts come between; but for a cut in the middle of SRAM_write, which
\* truncates the .sav in place (minarch.c 413-435, 465-487).
SavedStaysSaved == [][Start /\ HasSram /\ ~cut => prog' >= saved]_vars

\* A game that auto-resumes goes on where it was put to sleep: the path is never
\* on the card with a torn or an older state, though neither putFile nor unlink
\* is synced.  It takes the sync of SRAM_write (minarch.c 3468-3480).
ResumesWhereItSlept == [][Start /\ slot = "9" /\ HasSram => prog' = suspended]_vars

\* A game is resumed once: when it runs, no power cut brings the path back, until
\* Menu_beforeSleep has written it anew (autoResume's sync, minui.c 1443).
ResumedOnce == at = "launch" /\ Idle /\ HasSram => disk["auto"] = Absent
=============================================================================
