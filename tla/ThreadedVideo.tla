--------------------------- MODULE ThreadedVideo ----------------------------
(***************************************************************************)
(* The two threads of workspace/all/minarch/minarch.c.  With the option    *)
(* "Prioritize Audio" on, a core thread runs the emulator core and hands   *)
(* frames to the main thread through the backbuffer, core_mx and core_rq;  *)
(* with it off the main thread runs the core itself.  Fast forward and the *)
(* power button turn threading off for their duration.  core.run polls the *)
(* input, so these, the menu button and the save-and-quit shortcut are     *)
(* noticed by whichever thread runs the core, while the main thread acts   *)
(* on the flags they set once per turn of its loop.                        *)
(***************************************************************************)
EXTENDS Naturals

CONSTANT Pressed    \* the combinations of buttons one poll may see

ASSUME PressedAssumption ==
    Pressed \subseteq [power : {"none", "press", "release"}, ff : BOOLEAN, menu : BOOLEAN, quit : BOOLEAN]

VARIABLES
    option,         \* FE_OPT_THREAD, as the menu shows it
    thread_video, was_threaded, toggle_thread, fast_forward,
    should_run_core, show_menu, quit,
    main,           \* where the main thread is
    core_pt,        \* where the core thread is; "gone" when there is none
    core_mx,        \* who holds the mutex
    slips           \* history: the known gaps the run has fallen into

flags == <<thread_video, was_threaded, toggle_thread, fast_forward>>
ctl   == <<should_run_core, show_menu, quit>>
videoVars == <<option, flags, ctl, main, core_pt, core_mx, slips>>

VideoInit ==
    /\ option \in BOOLEAN
    /\ thread_video = option /\ was_threaded = FALSE /\ toggle_thread = FALSE
    /\ fast_forward = FALSE
    /\ should_run_core = TRUE /\ show_menu = FALSE /\ quit = FALSE
    /\ main = "top"
    /\ core_pt = IF option THEN "check" ELSE "gone"
    /\ core_mx = "free" /\ slips = {}

-----------------------------------------------------------------------------
(* input_poll_callback, in the thread that runs the core                   *)

Released(b) == b.power = "release" /\ ~thread_video /\ was_threaded

\* setFastForward(!fast_forward) after the power button has been looked at.
Buttons(b) ==
    LET pressed  == b.power = "press" /\ thread_video
        released == Released(b)
        was      == (was_threaded \/ pressed) /\ ~released
        entered  == b.ff /\ ~fast_forward /\ thread_video
        left     == b.ff /\ fast_forward /\ ~thread_video /\ was
    IN  /\ was_threaded' = ((was \/ entered) /\ ~left)
        /\ toggle_thread' = (toggle_thread \/ pressed \/ released \/ entered \/ left)
        /\ fast_forward' = (fast_forward # b.ff)
        /\ quit' = (quit \/ b.quit)
        /\ show_menu' = (show_menu \/ b.menu)

\* The main thread will join the core thread before it looks at show_menu again.
JoinsNext == main = "join" \/ (main = "toggle" /\ toggle_thread')

\* Fast forward or power takes threading away that the option is about to end.
Takes == toggle_thread /\ ~was_threaded /\ was_threaded'

CorePoll ==
    /\ core_pt = "poll"
    /\ \E b \in Pressed :
        /\ Buttons(b)
        /\ core_pt' = IF b.menu /\ thread_video THEN "stop" ELSE "video"
        /\ slips' = slips \cup (IF b.menu /\ thread_video /\ JoinsNext THEN {"late"} ELSE {})
                          \cup (IF Takes THEN {"pending"} ELSE {})
    /\ UNCHANGED <<option, thread_video, should_run_core, main, core_mx>>

MainPoll ==
    /\ main = "poll"
    /\ \E b \in Pressed : Buttons(b)
    /\ main' = "video"
    /\ UNCHANGED <<option, thread_video, should_run_core, core_pt, core_mx, slips>>

\* should_run_core = 0, under the mutex.
StopCore ==
    /\ core_pt = "stop" /\ core_mx = "free"
    /\ should_run_core' = FALSE
    /\ core_pt' = "video"
    /\ UNCHANGED <<option, flags, show_menu, quit, main, core_mx, slips>>

-----------------------------------------------------------------------------
(* coreThread                                                              *)

\* while (!quit), and should_run_core read under the mutex.
RunCore ==
    /\ core_pt = "check" /\ ~quit /\ core_mx = "free" /\ should_run_core
    /\ core_pt' = "poll"
    /\ UNCHANGED <<option, flags, ctl, main, core_mx, slips>>

CoreExits ==
    /\ core_pt = "check" /\ quit
    /\ core_pt' = "gone"
    /\ UNCHANGED <<option, flags, ctl, main, core_mx, slips>>

\* The main thread is to wait for a frame, and the core thread makes no more.
Unsignalled(waiting) ==
    IF quit THEN main \in waiting
    ELSE ~should_run_core /\ main \in waiting \cup {"top", "frame", "toggle", "join", "hdmi"}

\* A duplicated frame has no data: video_refresh_callback returns at once.
DupeFrame ==
    /\ core_pt = "video"
    /\ core_pt' = "tail"
    /\ slips' = slips \cup IF Unsignalled({"lock", "wait"}) THEN {"unsignalled"} ELSE {}
    /\ UNCHANGED <<option, flags, ctl, main, core_mx>>

LockFrame ==
    /\ core_pt = "video" /\ thread_video /\ core_mx = "free"
    /\ core_mx' = "core" /\ core_pt' = "copy"
    /\ UNCHANGED <<option, flags, ctl, main, slips>>

\* The main thread is disabling threading: the core thread draws by itself.
DrawFrame ==
    /\ core_pt = "video" /\ ~thread_video
    /\ core_pt' = "tail"
    /\ UNCHANGED <<option, flags, ctl, main, core_mx, slips>>

\* memcpy to the backbuffer, pthread_cond_signal, unlock.  Nobody may wait.
SignalFrame ==
    /\ core_pt = "copy"
    /\ main' = IF main = "wait" THEN "woken" ELSE main
    /\ slips' = slips \cup IF Unsignalled({"lock"}) THEN {"unsignalled"} ELSE {}
    /\ core_mx' = "free" /\ core_pt' = "tail"
    /\ UNCHANGED <<option, flags, ctl>>

\* The rest of core.run: audio, limitFF, trackFPS.
RunOver ==
    /\ core_pt = "tail"
    /\ core_pt' = "check"
    /\ UNCHANGED <<option, flags, ctl, main, core_mx, slips>>

-----------------------------------------------------------------------------
(* main                                                                    *)

\* while (!quit): run the core, or wait for the core thread's frame.
Turn ==
    /\ main = "top"
    /\ main' = IF quit THEN "over" ELSE IF thread_video THEN "frame" ELSE "poll"
    /\ UNCHANGED <<option, flags, ctl, core_pt, core_mx, slips>>

\* The core thread may have set quit since.
WantFrame ==
    /\ main = "frame"
    /\ main' = IF quit THEN "check" ELSE "lock"
    /\ UNCHANGED <<option, flags, ctl, core_pt, core_mx, slips>>

MainVideo ==
    /\ main = "video"
    /\ main' = "check"
    /\ UNCHANGED <<option, flags, ctl, core_pt, core_mx, slips>>

\* pthread_cond_wait, with no condition to test.
WaitFrame ==
    /\ main = "lock" /\ core_mx = "free"
    /\ main' = "wait"
    /\ UNCHANGED <<option, flags, ctl, core_pt, core_mx, slips>>

\* Awake with the mutex: draw the backbuffer.
Draw ==
    /\ main = "woken" /\ core_mx = "free"
    /\ core_mx' = "main" /\ main' = "draw"
    /\ UNCHANGED <<option, flags, ctl, core_pt, slips>>

Drawn ==
    /\ main = "draw"
    /\ core_mx' = "free" /\ main' = "check"
    /\ UNCHANGED <<option, flags, ctl, core_pt, slips>>

CheckMenu ==
    /\ main = "check"
    /\ main' = IF show_menu THEN "menu" ELSE "toggle"
    /\ UNCHANGED <<option, flags, ctl, core_pt, core_mx, slips>>

\* Config_syncFrontend for FE_OPT_THREAD, from the menu's options.
SetOption ==
    /\ main = "menu"
    /\ option' = ~option
    /\ toggle_thread' = ((thread_video \/ was_threaded) # option')
    /\ slips' = slips \cup IF toggle_thread /\ was_threaded THEN {"pending"} ELSE {}
    /\ UNCHANGED <<thread_video, was_threaded, fast_forward, ctl, main, core_pt, core_mx>>

\* Wrong: does not start the core thread again.
LeaveStopped ==
    /\ main = "menu" /\ core_pt # "stop"
    /\ show_menu' = FALSE
    /\ main' = "toggle"
    /\ UNCHANGED <<option, flags, should_run_core, quit, core_pt, core_mx, slips>>

\* Menu_loop ends by the player's leave.  A button press takes longer than the
\* core thread's way from show_menu = 1 to should_run_core = 0.
LeaveMenu ==
    /\ main = "menu" /\ core_pt # "stop"
    /\ thread_video => core_mx = "free"
    /\ show_menu' = FALSE
    /\ should_run_core' = (should_run_core \/ thread_video)
    /\ main' = "toggle"
    /\ UNCHANGED <<option, flags, quit, core_pt, core_mx, slips>>

\* Menu_loop ends with quit set, by its item or by hdmimon.
QuitMenu ==
    /\ main = "menu"
    /\ show_menu' = FALSE /\ quit' = TRUE
    /\ main' = "toggle"
    /\ UNCHANGED <<option, flags, should_run_core, core_pt, core_mx, slips>>

NoToggle ==
    /\ main = "toggle" /\ ~toggle_thread
    /\ main' = "hdmi"
    /\ UNCHANGED <<option, flags, ctl, core_pt, core_mx, slips>>

\* Wrong: leaves out the revert.
NeverUndone == FALSE

\* The option was turned off while fast forward had threading off already.
Undone == was_threaded /\ ~thread_video

Enable ==
    /\ main = "toggle" /\ toggle_thread /\ ~thread_video /\ ~Undone
    /\ toggle_thread' = FALSE /\ thread_video' = TRUE
    /\ core_mx' = "free" /\ core_pt' = "check"
    /\ main' = "hdmi"
    /\ UNCHANGED <<option, was_threaded, fast_forward, ctl, slips>>

\* pthread_cancel; or threading is off already, and there is no thread.
Disable ==
    /\ main = "toggle" /\ toggle_thread /\ (thread_video \/ Undone)
    /\ toggle_thread' = FALSE /\ thread_video' = FALSE
    /\ was_threaded' = (was_threaded /\ ~Undone)
    /\ main' = "join"
    /\ UNCHANGED <<option, fast_forward, ctl, core_pt, core_mx, slips>>

\* The core thread dies in a cancellation point: core.run has some in its
\* input poll and its audio, and pthread_mutex_lock is none.
Cancel ==
    /\ main = "join" /\ core_pt \in {"poll", "tail"}
    /\ core_pt' = "gone"
    /\ UNCHANGED <<option, flags, ctl, main, core_mx, slips>>

\* Wrong: pthread_cancel only.
JoinNobody ==
    /\ main = "join"
    /\ main' = "hdmi"
    /\ UNCHANGED <<option, flags, ctl, core_pt, core_mx, slips>>

\* pthread_join
Join ==
    /\ main = "join" /\ core_pt = "gone"
    /\ main' = "hdmi"
    /\ UNCHANGED <<option, flags, ctl, core_pt, core_mx, slips>>

\* hdmimon
SameHDMI ==
    /\ main = "hdmi"
    /\ main' = "top"
    /\ UNCHANGED <<option, flags, ctl, core_pt, core_mx, slips>>

HDMIChange ==
    /\ main = "hdmi"
    /\ show_menu' = FALSE /\ quit' = TRUE
    /\ main' = "top"
    /\ UNCHANGED <<option, flags, should_run_core, core_pt, core_mx, slips>>

CoreThread == \/ CorePoll \/ StopCore \/ RunCore \/ CoreExits
              \/ DupeFrame \/ LockFrame \/ DrawFrame \/ SignalFrame \/ RunOver
Main == \/ MainPoll \/ Turn \/ WantFrame \/ MainVideo \/ WaitFrame \/ Draw \/ Drawn \/ CheckMenu
        \/ LeaveMenu \/ QuitMenu \/ NoToggle \/ Enable \/ Disable \/ Join \/ SameHDMI \/ HDMIChange

VideoNext == CoreThread \/ Main \/ SetOption \/ Cancel

VideoSpec == VideoInit /\ [][VideoNext]_videoVars

\* Both threads run.  Of a player's doings only the polls that see them are
\* fair; a game that runs makes new frames, and the input poll of a cancelled
\* thread reads, which is a cancellation point.
VideoFairSpec ==
    /\ VideoSpec
    /\ WF_videoVars(CoreThread) /\ SF_videoVars(RunCore) /\ SF_videoVars(StopCore) /\ SF_videoVars(LockFrame) /\ SF_videoVars(Cancel)
    /\ WF_videoVars(MainPoll \/ Turn \/ WantFrame \/ MainVideo \/ CheckMenu \/ Drawn \/ NoToggle \/ Enable \/ Disable \/ Join
               \/ SameHDMI \/ HDMIChange)
    /\ SF_videoVars(WaitFrame) /\ SF_videoVars(Draw)

-----------------------------------------------------------------------------

VideoTypeOK ==
    /\ option \in BOOLEAN /\ thread_video \in BOOLEAN /\ was_threaded \in BOOLEAN
    /\ toggle_thread \in BOOLEAN /\ fast_forward \in BOOLEAN
    /\ should_run_core \in BOOLEAN /\ show_menu \in BOOLEAN /\ quit \in BOOLEAN
    /\ main \in {"top", "frame", "poll", "video", "lock", "wait", "woken", "draw", "check", "menu",
                 "toggle", "join", "hdmi", "over"}
    /\ core_pt \in {"gone", "check", "poll", "stop", "video", "copy", "tail"}
    /\ core_mx \in {"free", "main", "core"}
    /\ slips \subseteq {"late", "unsignalled", "pending"}

\* core.run is never in both threads at once, the backbuffer is not drawn while
\* it is written, and no dead thread holds the mutex, however the toggles of
\* fast forward, power button and option interleave (the threads' loops and the
\* toggle, minarch.c 5165-5320).
OneRunner ==
    /\ main \in {"poll", "video"} => core_pt = "gone"
    /\ main = "draw" => core_mx = "main"
    /\ core_pt = "copy" => core_mx = "core"
    /\ core_pt = "gone" => core_mx # "core"

\* Once a toggle has been carried out the thread is as the menu's option says,
\* or off until fast forward or the power button ends: these give back what they
\* took away.  The exception is an option changed while their toggle waited.
PreferenceKept ==
    ~toggle_thread => option = (thread_video \/ was_threaded) \/ "pending" \in slips

\* The main loop comes round again and again, opens the menu or ends, so that the
\* menu button, quit and the toggles are acted on, unless the run has met one of
\* the two gaps "late" and "unsignalled": no other interleaving of the flags and
\* the unconditional pthread_cond_wait leaves the main thread waiting for a core
\* thread that has stopped (main and coreThread, minarch.c 5165-5320).
MainLoopGoesOn == []<>(main \in {"top", "menu", "over"} \/ slips \cap {"late", "unsignalled"} # {})
=============================================================================
