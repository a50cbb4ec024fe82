------------------------------ MODULE SaveSync ------------------------------
(***************************************************************************)
(* How a game's save gets from the card to the server: the shim around     *)
(* every game (bin/minarch-shim.sh) with its helper bin/romm-session-sync, *)
(* the daemon (bin/romm-syncd), Sync Now (launch.sh) and the Wi-Fi toggle. *)
(*                                                                         *)
(* Two processes run: the foreground, which is the launcher, a game or a   *)
(* tool but never two of them, and the daemon.  They share the Wi-Fi       *)
(* mutex, which is one step here (module WifiLock has its commands), the   *)
(* link, the in-game mark and the queue pending-saves.txt.  The engine     *)
(* lodor-sync is external: a call of it lands some of the saves it may     *)
(* send and handles the queue in the same step.                            *)
(***************************************************************************)
EXTENDS Naturals

CONSTANTS
    Game,       \* ROMs that have a battery save
    NoGame,     \* nothing is launched
    Reconcile,  \* BOOLEAN: the server knows --reconcile-library (RomM >= 5)
    Faults      \* subset of {"power", "timeout"}

ASSUME SaveAssumption ==
    /\ NoGame \notin Game
    /\ Reconcile \in BOOLEAN
    /\ Faults \subseteq {"power", "timeout"}

VARIABLES
    save,       \* on the card: "none", "dirty" (newer than the server's), "clean"
    queue,      \* the games in pending-saves.txt
    link,       \* wlan0 is up and has an address
    lock,       \* who holds the Wi-Fi mutex: "ui", "syncd" or "none"
    ui,         \* where the foreground is
    game,       \* $ROM
    online,     \* $_pushed_online: the quit saw the link up
    syncd,      \* where the daemon is
    mode,       \* its $mode
    dueFull,    \* INTERVAL has passed since last_attempt
    dueFlush,   \* FLUSH_INTERVAL has passed since last_flush
    charging,
    missed      \* history: dirty saves that a known gap kept out of the queue

timers == <<dueFull, dueFlush>>
daemon == <<syncd, mode, timers>>
vars   == <<save, queue, link, lock, ui, game, online, daemon, charging, missed>>

\* Where the foreground holds the mutex, and where it runs under the shim.
UiHolds  == {"fetch", "pull", "save", "states", "report", "syncnow"}
Shim     == {"gate", "fetch", "card", "pull", "play", "quit", "push", "save",
             "states", "reports", "report"}
UiPC     == {"menu", "syncnow"} \cup Shim
SyncdPC  == {"sleep", "acquire", "reconcile", "drain", "states"}

TypeOK ==
    /\ save \in [Game -> {"none", "dirty", "clean"}]
    /\ queue \subseteq Game /\ missed \subseteq Game
    /\ lock \in {"ui", "syncd", "none"}
    /\ ui \in UiPC /\ game \in Game \cup {NoGame}
    /\ game = NoGame <=> ui \in {"menu", "syncnow"}
    /\ syncd \in SyncdPC /\ mode \in {"full", "flush"}
    /\ {link, online, dueFull, dueFlush, charging} \subseteq BOOLEAN

Dirty == {g \in Game : save[g] = "dirty"}

\* not_in_game, negated: the mark is there from the shim's first command to
\* its EXIT trap, and its pid is alive for as long.
InGame == ui \in Shim

Init ==
    /\ save \in [Game -> {"none", "clean"}]
    /\ queue = {} /\ missed = {}
    /\ link = FALSE /\ lock = "none"
    /\ ui = "menu" /\ game = NoGame /\ online = FALSE
    /\ syncd = "sleep" /\ mode = "full"
    /\ dueFull = FALSE /\ dueFlush = FALSE
    /\ charging \in BOOLEAN

-----------------------------------------------------------------------------
(* What an engine call may do.                                             *)

\* The saves of <S> are on the server now.
Land(S) == save' = [g \in Game |-> IF g \in S /\ save[g] = "dirty" THEN "clean" ELSE save[g]]

\* --reconcile-library: any dirty save may be found and land.
ReconcileLands(S) == S \subseteq Dirty /\ (Reconcile \/ S = {}) /\ Land(S)

\* --push-pending: what lands, or turns out to be there already, leaves the queue.
DrainLands(S) == S \subseteq queue /\ Land(S) /\ queue' = queue \ S

\* The mutex is free, and the link is up or comes up (wifi_acquire: 0).
Take(who) == lock = "none" /\ lock' = who /\ link' = TRUE
\* It is held by the other process (2), or the link does not come up (1).
Busy == lock # "none" /\ UNCHANGED <<lock, link>>
NoLink == lock = "none" /\ ~link /\ UNCHANGED <<lock, link>>

Release == lock' = "none"

-----------------------------------------------------------------------------
(* The shim around a game.                                                 *)

Launch(g) ==
    /\ ui = "menu"
    /\ ui' = "gate" /\ game' = g
    /\ UNCHANGED <<save, queue, link, lock, online, daemon, charging, missed>>

\* Back to the menu, through the EXIT trap.
ToMenu == ui' = "menu" /\ game' = NoGame

\* The first disc or a BIOS file is missing.
GateRefuses ==
    /\ ui = "gate" /\ ToMenu
    /\ UNCHANGED <<save, queue, link, lock, online, daemon, charging, missed>>

GatePasses ==
    /\ ui = "gate" /\ ui' = "card"
    /\ UNCHANGED <<save, queue, link, lock, game, online, daemon, charging, missed>>

\* A stub: romm-run --download, under the mutex.
Fetch ==
    /\ ui = "gate"
    /\ \/ Take("ui") /\ ui' = "fetch" /\ UNCHANGED game
       \/ (Busy \/ NoLink) /\ ToMenu
    /\ UNCHANGED <<save, queue, online, daemon, charging, missed>>

FetchDone ==
    /\ ui = "fetch" /\ Release
    /\ \/ ui' = "card" /\ UNCHANGED game
       \/ ToMenu
    /\ UNCHANGED <<save, queue, link, online, daemon, charging, missed>>

\* The launch card: from the local cache, or on a link that is up already.
Card ==
    /\ ui = "card"
    /\ \/ link /\ Take("ui") /\ ui' = "pull"
       \/ Busy /\ ui' = "play"
       \/ NoLink /\ ui' = "play"
    /\ UNCHANGED <<save, queue, game, online, daemon, charging, missed>>

\* The wizard, or --sync-save, may push the save of a former session.
PullDone ==
    /\ ui = "pull" /\ Release /\ ui' = "play"
    /\ \E S \in SUBSET {game} : Land(S) /\ missed' = missed \ S
    /\ UNCHANGED <<queue, link, game, online, daemon, charging>>

\* minarch writes the battery save: on a state, in the menu, at the end.
PlaySaves ==
    /\ ui = "play"
    /\ save' = [save EXCEPT ![game] = "dirty"]
    /\ missed' = missed \ {game}
    /\ UNCHANGED <<queue, link, lock, ui, game, online, daemon, charging>>

QuitGame ==
    /\ ui = "play" /\ ui' = "quit"
    /\ UNCHANGED <<save, queue, link, lock, game, online, daemon, charging, missed>>

\* Wrong: find does not match the name of the save, so nothing has changed.
QueueUnmatched ==
    /\ ui = "quit" /\ ui' = "push"
    /\ online' = FALSE
    /\ UNCHANGED <<save, queue, link, lock, game, daemon, charging, missed>>

\* Any save file of the game counts as changed.  Off line it is queued; in both
\* cases the helper runs next, for the save or for the states.
QueueSave ==
    /\ ui = "quit" /\ ui' = "push"
    /\ online' = (save[game] # "none" /\ link)
    /\ queue' = IF save[game] # "none" /\ ~link THEN queue \cup {game} ELSE queue
    /\ UNCHANGED <<save, link, lock, game, daemon, charging, missed>>

\* A quit on line leaves the save to the helper, and the helper may leave it
\* neither on the server nor in the queue.
Unsaved == missed' = IF online /\ save[game] = "dirty" /\ game \notin queue
                     THEN missed \cup {game} ELSE missed

\* Busy, or no link: only the states are queued.
PushSkipped ==
    /\ ui = "push" /\ (Busy \/ NoLink)
    /\ ui' = "reports"
    /\ Unsaved
    /\ UNCHANGED <<save, queue, game, online, daemon, charging>>

PushTake ==
    /\ ui = "push" /\ Take("ui") /\ ui' = "save"
    /\ UNCHANGED <<save, queue, game, online, daemon, charging, missed>>

\* --push-save: it lands, or the engine stages it in the queue.
PushSave ==
    /\ ui = "save" /\ ui' = "states"
    /\ \/ Land({game}) /\ missed' = missed \ {game} /\ UNCHANGED queue
       \/ /\ save[game] = "dirty"
          /\ queue' = queue \cup {game} /\ UNCHANGED <<save, missed>>
    /\ UNCHANGED <<link, lock, game, online, daemon, charging>>

\* Wrong: no TERM trap, so the mutex stays with a dead helper.
PushTimesOutHeld ==
    /\ "timeout" \in Faults
    /\ ui = "save" /\ ui' = "reports"
    /\ Unsaved
    /\ UNCHANGED <<save, queue, link, lock, game, online, daemon, charging>>

\* The 30 s are over: the engine call goes with the helper, which lets go.
PushTimesOut ==
    /\ "timeout" \in Faults
    /\ ui = "save" /\ Release /\ ui' = "reports"
    /\ Unsaved
    /\ UNCHANGED <<save, queue, link, game, online, daemon, charging>>

PushDone ==
    /\ ui = "states" /\ Release /\ ui' = "reports"
    /\ UNCHANGED <<save, queue, link, game, online, daemon, charging, missed>>

\* The play session is reported on a link that is up.
Report ==
    /\ ui = "reports"
    /\ \/ link /\ Take("ui") /\ ui' = "report" /\ UNCHANGED game
       \/ (Busy \/ NoLink) /\ ToMenu
    /\ UNCHANGED <<save, queue, online, daemon, charging, missed>>

ReportDone ==
    /\ ui = "report" /\ Release /\ ToMenu
    /\ UNCHANGED <<save, queue, link, online, daemon, charging, missed>>

-----------------------------------------------------------------------------
(* romm-syncd.                                                             *)

\* Wrong: the full cycle waits for the queue, too.
PollQueueOnly ==
    /\ syncd = "sleep" /\ ~InGame /\ queue # {}
    /\ mode' = IF dueFull /\ charging THEN "full" ELSE "flush"
    /\ (dueFull /\ charging) \/ dueFlush
    /\ syncd' = "acquire"
    /\ UNCHANGED <<save, queue, link, lock, ui, game, online, timers, charging, missed>>

\* Wrong: nothing is sent on battery.
PollChargingOnly ==
    /\ syncd = "sleep" /\ ~InGame
    /\ dueFull /\ charging /\ mode' = "full"
    /\ syncd' = "acquire"
    /\ UNCHANGED <<save, queue, link, lock, ui, game, online, timers, charging, missed>>

\* One turn of the loop that finds something to do.
Poll ==
    /\ syncd = "sleep" /\ ~InGame
    /\ \/ dueFull /\ charging /\ mode' = "full"
       \/ ~(dueFull /\ charging) /\ dueFlush /\ queue # {} /\ mode' = "flush"
    /\ syncd' = "acquire"
    /\ UNCHANGED <<save, queue, link, lock, ui, game, online, timers, charging, missed>>

\* A real attempt, and only that, starts the intervals anew.
Attempted ==
    /\ dueFull' = (dueFull /\ mode # "full")
    /\ dueFlush' = FALSE

SyncdBusy ==
    /\ syncd = "acquire" /\ Busy /\ syncd' = "sleep"
    /\ UNCHANGED <<save, queue, ui, game, online, mode, timers, charging, missed>>

SyncdNoLink ==
    /\ syncd = "acquire" /\ NoLink /\ syncd' = "sleep"
    /\ Attempted
    /\ UNCHANGED <<save, queue, ui, game, online, mode, charging, missed>>

SyncdTake ==
    /\ syncd = "acquire" /\ Take("syncd") /\ syncd' = "reconcile"
    /\ Attempted
    /\ UNCHANGED <<save, queue, ui, game, online, mode, charging, missed>>

\* Both modes begin with --reconcile-library and --push-pending.
SyncdReconcile ==
    /\ syncd = "reconcile" /\ syncd' = "drain"
    /\ \E S \in SUBSET Game :
         /\ ReconcileLands(S) /\ (link \/ S = {})
         /\ missed' = missed \ S
    /\ UNCHANGED <<queue, link, lock, ui, game, online, mode, timers, charging>>

SyncdDrain ==
    /\ syncd = "drain" /\ syncd' = "states"
    /\ \E S \in SUBSET Game :
         /\ DrainLands(S) /\ (link \/ S = {})
         /\ missed' = missed \ S
    /\ UNCHANGED <<link, lock, ui, game, online, mode, timers, charging>>

\* The states, the discs to prefetch, and wifi_release.
SyncdDone ==
    /\ syncd = "states" /\ Release /\ syncd' = "sleep"
    /\ UNCHANGED <<save, queue, link, ui, game, online, mode, timers, charging, missed>>

TimePasses ==
    /\ dueFull' = TRUE /\ dueFlush' = TRUE
    /\ UNCHANGED <<save, queue, link, lock, ui, game, online, syncd, mode, charging, missed>>

-----------------------------------------------------------------------------
(* The owner, the radio and the power.                                     *)

\* Sync Now, from the pak or the launcher.
SyncNow ==
    /\ ui = "menu" /\ Take("ui") /\ ui' = "syncnow"
    /\ UNCHANGED <<save, queue, game, online, daemon, charging, missed>>

SyncNowDone ==
    /\ ui = "syncnow" /\ Release /\ ui' = "menu"
    /\ \E S \in SUBSET Game, Q \in SUBSET queue :
         /\ S \subseteq Dirty /\ (Reconcile \/ S \subseteq Q)
         /\ link \/ S \cup Q = {}
         /\ Land(S \cup Q) /\ queue' = queue \ Q
         /\ missed' = missed \ (S \cup Q)
    /\ UNCHANGED <<link, game, online, daemon, charging>>

\* The reminder of the queue is dismissed: the file is truncated.
Dismiss ==
    /\ ui = "menu" /\ queue # {} /\ queue' = {}
    /\ missed' = missed \cup (queue \cap Dirty)
    /\ UNCHANGED <<save, link, lock, ui, game, online, daemon, charging>>

\* SELECT: wifi_shutdown refuses while somebody holds the mutex.
ToggleWifi ==
    /\ ui = "menu" /\ lock = "none" /\ link' = ~link
    /\ UNCHANGED <<save, queue, lock, ui, game, online, daemon, charging, missed>>

LinkDrops ==
    /\ link /\ link' = FALSE
    /\ UNCHANGED <<save, queue, lock, ui, game, online, daemon, charging, missed>>

Plug ==
    /\ charging' = ~charging
    /\ UNCHANGED <<save, queue, link, lock, ui, game, online, daemon, missed>>

\* What is in /tmp and in processes is gone.
PowerCut ==
    /\ "power" \in Faults
    /\ link' = FALSE /\ lock' = "none" /\ ToMenu /\ online' = FALSE
    /\ syncd' = "sleep" /\ mode' = "full" /\ dueFull' = FALSE /\ dueFlush' = FALSE
    /\ missed' = IF game \in Dirty \ queue THEN missed \cup {game} ELSE missed
    /\ UNCHANGED <<save, queue, charging>>

-----------------------------------------------------------------------------

UiNext ==
    \/ GateRefuses \/ GatePasses \/ Fetch \/ FetchDone \/ Card \/ PullDone
    \/ PlaySaves \/ QuitGame \/ QueueSave
    \/ PushSkipped \/ PushTake \/ PushSave \/ PushTimesOut \/ PushDone
    \/ Report \/ ReportDone
    \/ SyncNow \/ SyncNowDone \/ Dismiss \/ ToggleWifi
    \/ \E g \in Game : Launch(g)

SyncdNext ==
    \/ Poll \/ SyncdBusy \/ SyncdNoLink \/ SyncdTake
    \/ SyncdReconcile \/ SyncdDrain \/ SyncdDone

Next == UiNext \/ SyncdNext \/ TimePasses \/ LinkDrops \/ Plug \/ PowerCut

Spec == Init /\ [][Next]_vars

\* The daemon runs on and time passes.  A server that can be reached over and
\* over takes everything it is offered at some time.
FairSpec ==
    /\ Spec
    /\ WF_vars(SyncdNext) /\ WF_vars(TimePasses)
    /\ SF_vars(SyncdReconcile /\ Dirty' = {})
    /\ SF_vars(SyncdDrain /\ queue' = {})

-----------------------------------------------------------------------------
(* Properties                                                              *)

\* Back in the menu, a save the server does not have is in the queue, unless
\* it went missing in one of the known ways: power lost before the quit, an
\* online quit whose push found the mutex busy, the link gone or its time
\* over, and a reminder dismissed by hand (minarch-shim.sh:230-303).
OnlyKnownMisses ==
    ui = "menu" => Dirty \subseteq queue \cup missed

\* Nobody who is done keeps the mutex: an exit on any path lets go of it, and
\* the holder is where the script says it is.
LockFollowsHolder ==
    /\ lock = "ui" <=> ui \in UiHolds
    /\ lock = "syncd" <=> syncd \in {"reconcile", "drain", "states"}

\* A device left in the menu with the link up.
Idle == ui = "menu" /\ link

\* On the charger every save reaches the server then, the missed ones too, if
\* the server reconciles (romm-sync-lib.sh:1165-1174).
ChargerUploadsAll ==
    Reconcile => (<>[](Idle /\ charging) => <>[](Dirty = {}))

\* On battery the queue is flushed (romm-syncd:138-143).
BatteryFlushesQueue == <>[](Idle /\ ~charging) => <>[](queue = {})

\* A quit that syncs pushes the save, "or stages it to the pending queue if it
\* doesn't land" (minarch-shim.sh:231-234).
LandsOrIsQueued == [][PushSkipped \/ PushSave =>
                        save'[game] # "dirty" \/ game \in queue']_vars
=============================================================================
