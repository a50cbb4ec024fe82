# TLA+ models of LodorOS

LodorOS is a MinUI-based firmware for handhelds that syncs saves with a RomM
server. This directory holds TLA+ modules for the parts of it whose correctness
depends on order, interleaving and power loss, the TLC configurations that check
them on small instances, and TLAPS proofs of the properties that matter most.
Paths below are relative to the repository.

## The system

The program has two layers: C programs (the `minui` launcher and the `minarch`
libretro front-end) and POSIX shell scripts under `paks/` that run around them:
at boot, around each game, from the menu and in the background. They share no
process; they meet in files on the FAT32 card, in `/tmp`, and in signals. The
sync engine `lodor-sync`, the wizard and the server are not in the repository.

| Component | State | Operations | Hard behaviour | What makes it correct |
|---|---|---|---|---|
| Self-update (`Lodor.pak/bin/lodor-apply-update`, `Update Lodor.pak`) | `.update/`, `.update-rollback/`, `.update-applied`, `version.txt`, the card's files | stage, apply, mirror, revert | power loss at any effect, copies that fail, re-runs, the script replacing itself | a card with nothing pending is one whole release; a revert offer gives back the old one; the launcher is never touched |
| Wi-Fi mutex (`Lodor.pak/lib/romm-sync-lib.sh`, its callers) | `/tmp/romm-wifi.lock/{owner,ts,preempt}` | acquire (fg, push, bg), release, refresh, preempt, reclaim | interleaved commands, TERM and its trap, kills, time-outs | one transfer at a time; a live holder keeps the lock; it is never forgotten |
| Shim and boot hooks (`install.sh`, `uninstall.sh`, `romm-syncd` self-heal) | `minarch.elf`, `minarch.real.elf`, `minarch.elf.stock-bak`, `auto.sh` | install, uninstall, heal, hand off, boot | power loss between and inside writes, full card, repeated runs | games always launch; the stock binary survives; hooks are there once and in order |
| Game session (`bin/minarch-shim.sh`, `bin/romm-session-sync`) | `/tmp/romm-in-game`, `pending-saves.txt` | download on launch, pull, launch, push or queue, report | time-outs, power-off in a game, an engine draining the queue | no changed save is dropped |
| Sync daemon (`bin/romm-syncd`), cover daemon (`bin/lodor-bg-covers`) | timers, `LAST_FULL` | poll, full cycle, flush | a game that starts mid-cycle, busy radio, kill before an update | never competes with a game; a busy radio does not consume the interval |
| Radio bring-up (`romm-sync-lib.sh`, `wifi-reset`, `service-on`, the reset paths) | link, lease, wedge, `/tmp/romm-last-reenum`, `.wifi-8188fu` | bring up, wait, recover, re-enumerate, reset by hand | wedges, cooldown, clock steps, a reset outside the mutex | re-enumerations keep their distance; a wedged USB radio comes back without the user |
| Tailscale tier (`lib/tailscale-lib.sh`) | daemon state, login | start, wait, stop | slow start, concurrent callers | one daemon |
| Box-art loader (`workspace/all/minui/minui.c`) | cache list, bytes, pin, request queue | request, prefetch, decode, insert, evict, quit | a worker thread next to the drawing loop | no surface in use is freed; bounded; the art is shown; the worker is joined |
| Launcher (`minui.c`), the rest | `/tmp/romm-done`, recents, resume files | progress overlay, downloads, auto-resume | an operation that outlives its overlay | a result belongs to the operation that is shown |
| Core thread of the front-end (`workspace/all/minarch/minarch.c`) | flags, backbuffer, mutex and condition variable | hand frames over, toggle threading, menu, quit | two threads, cancellation, flags read without a lock | one thread runs the core; toggles give back what they took; the main loop goes on |
| Saves and sleep (`minarch.c`, `workspace/all/common/api.c`, `minui.c`) | SRAM, state, `AUTO_RESUME_PATH`, page cache | save, sleep, wake, time out, power off, auto-resume | power cut between any two effects | what was saved is there; a game resumes where it slept, once |
| Audio (`workspace/all/common/api.c`) | ring, its three indices, resampler remainder | fill, drain, pause | callback thread, full and empty | no frame lost, repeated or overwritten |

The Update pak, the engine and the applier interact through the staging
directory; the applier calls `install.sh`; `install.sh`, the daemon's self-heal
and the Wifi pak edit the same `auto.sh`, from which the boot starts the applier
and the daemon; the daemon, the session scripts and the menu's downloads take the
same mutex. `PROJECT.json` lists every component, modelled or not, and every
hazard at its line.

## Modules

### SelfUpdate

`SelfUpdate.tla` models `bin/lodor-apply-update` whole, one action per effect on
the card, with the two operations of Update Lodor.pak that leave something for
it: `Stage` (a fetched update) and `ArmRevert`.

- `card` gives each path the version its bytes come from, `NoFile` or `Torn`.
- `ready`, `updDir`, `updTree` are `.update/READY`, `.update/tree` and its files;
  `rbDir`, `rbTree`, `rbFrom` the rollback sets; `request` the armed revert;
  `applied` and `stamp` are `.update-applied` and `version.txt`.
- `pc` is the line the script is at; `todo`, `dep`, `old`, `ver`, `failed` are
  its loop and shell variables. `base` is a history variable: the card as it
  was when a version was staged.

The script's branches are actions: `BeginRevert`, `DiscardRequest`,
`NothingStaged`, `DiscardHalfStaged`, `BeginApply` decide; `Strip`, `MakeSet`,
`MirrorFile`, `WriteMarker`, `CopyFile`, `OverlayDone`, `DropFile`, the
`Clear...` actions, `WriteApplied`, `StampVersion` apply; the `Wipe...` actions
are `rm -rf` of the sets; `RevertDone`, `RevertStamp`, `RevertApplied` revert.
`Faults` switches on power loss (`Yank`, which may tear the file being written),
a mirror that cannot be written (`MirrorFails`) and failing copies (`CopyFails`).

Assumed: effects reach the card in program order; `rm -rf` removes entries in
creation order, which is the order FAT32 lists them in; a temp file moved over
its target is atomic; a torn applier runs nothing, or its blocks above the
overlay; `stage-failed` is where the script is and not a file; the engine writes
READY last and offers only newer versions. The two-open revert offer on
miyoomini is not modelled: it ends in the same `ArmRevert`.

### WifiLock

`WifiLock.tla` models `wifi_acquire`, `wifi_release` and `wifi_lock_refresh`, one
action per command that reads or writes the lock's files, and what their callers
do with the lock: acquire, bring the link up, a number of engine calls, release,
and the EXIT and TERM traps. `Mode` is the argument of `wifi_acquire`, `Daemon`
the actors that poll again, `Timed` those run under `timeout`, `Mortal` those
that may be killed outright.

`Overlap` is a named assumption on timing. The windows between two commands on
the lock's files are milliseconds wide, so with `Overlap = FALSE` no actor enters
these files while another is between two of them, and with `TRUE` everything
interleaves. The code has nothing that makes the first true: what happens otherwise is
among the limits below.

`Mutex.tla` is what the shell's mutex promises, without files: one holder at a
time, work begun only by the holder, and a holder that works and was not told to
let go keeps it. `WifiLock` implements it under `~Overlap` (`IsMutex`), with the
owner file as the holder, `Works` as the work in progress (a trap may be removing
the lock in the middle of it) and the actors whose TERM trap has run as the
revoked ones.

Assumed: process ids are not reused, so the age tie-break never decides; a
one-line file is written in one step; `ts` and `preempt` are written and removed
together; a kill takes a script and its engine; a TERM that arrives within a
removal adds nothing to it. `wifi-debug.log` and status lines are left out, and
the bring-up is one step that succeeds or fails.

### ShimInstall

`ShimInstall.tla` models `install.sh`, `uninstall.sh`, `heal_auto_sh` and its
hand-off in `bin/romm-syncd`, the boots that run them through `auto.sh`, and the
Wifi pak's own line in that file. `elf`, `real`, `bak` are the three minarch
files. `auto` is a sequence of lines and a line is the set of commands on it, so
that a line glued to another by a missing newline is visible; `nl` says whether
the file ends in a newline. `Only` is what `sed` and `awk` leave of the lines, in
their order. `Kinds` is how the card comes: stock, built with the
layer, a partial install, and one that lost `minarch.real.elf`. `Faults` holds
power loss between effects (`yank`) or inside a `cp` (`tear`), and a full card
(`full`), on which a `cp` leaves a truncated target and a temp-and-mv fails.

Assumed: one script runs at a time (the hand-off's background applier is not
interleaved with a user's own install or uninstall); a rename is atomic;
permission bits are the mount's. `killall` and the removal of the locks in
`uninstall.sh:37-38` are left out.

### SaveSync

`SaveSync.tla` models how a save gets to the server: the shim around every game
and its helper `romm-session-sync`, the loop of `romm-syncd`, Sync Now, the
Wi-Fi toggle and the dismissal of the reminder. Two processes run, the
foreground (`ui`: the menu, Sync Now or the shim at some line) and the daemon
(`syncd`). They share the mutex (`lock`), the link, the queue `pending-saves.txt`
(`queue`) and, through `InGame`, the in-game mark.

- `save` says of each game's battery save whether the server has it; `dirty` is
  what the engine's content hash would upload.
- `game` is `$ROM`, `online` is `$_pushed_online`; `mode`, `dueFull`, `dueFlush`
  are the daemon's mode and its two intervals, which have passed or not.
- `missed` is a history variable: the dirty saves that one of three known gaps
  kept out of the queue. A power cut before the quit, an online quit whose helper
  does not get to the server (busy, no link, or out of time), and a reminder
  dismissed by hand. Landing takes a save out of it, playing on too: the next
  quit decides anew.

`Launch`, `GateRefuses`, `GatePasses`, `Fetch`, `FetchDone`, `Card`, `PullDone`
lead to the game; `PlaySaves` is a save the emulator writes; `QuitGame`,
`QueueSave`, the `Push...` actions and `Report`, `ReportDone` lead back. `Poll`,
`SyncdBusy`, `SyncdNoLink`, `SyncdTake`, `SyncdReconcile`, `SyncdDrain`,
`SyncdDone` are the daemon. `Reconcile` says whether the server knows
`--reconcile-library` (RomM 5); `Faults` has power cuts and the helper's 30 s
time-out.

Assumed: the Wi-Fi toggle is `bin/wifi-toggle` as its header says it is run,
though nothing else in the tree runs it; `wifi_acquire` is one step with its three results (its commands are in
`WifiLock`); an engine call lands some subset of what it may send and updates
the queue in the same step; one device plays, so a pull never brings a newer
save; `timeout` ends the engine call with the helper. The states queue, the cover
daemon, a shim that is killed outright and the link lost between the shim's
test and the helper's start of a report or pull are left out.

### AudioRing and FrameQueue

`AudioRing.tla` models `SND_batchSamples` with its two resamplers, in the thread
that runs the core, `SND_audioCallback` in SDL's thread, and the pause that sleep
puts on the device. Each step between two points where the audio lock can change
hands is an action, and within the lock each frame that is copied or played is
one. `frame_in`, `frame_out`, `frame_filled` and `diff` are the code's variables;
`left`, `amount`, `tries`, `core` and `len` the locals of the two functions;
`heard` and `drift` are history: the last frame played, and the balance of what
was written against what was consumed.

`FrameQueue.tla` is what the ring promises: a queue of `frame_count - 1` frames
that are played in the order of the writes, each once. `Queue` in `AudioRing` is
its instance under the refinement mapping `Contents`, the frames from `frame_out`
to `frame_in`, and `PlaysInOrder` says that the ring implements it.

Assumed: `SND_init` runs once in a process; the callback holds SDL's lock; what
pads an underrun is not told apart from silence; `SND_quit` runs when the core has
returned. (With threaded video a quit can close the device under a core thread
that still runs, see `ThreadedVideo`.)

### ThreadedVideo

`ThreadedVideo.tla` models the two threads of `minarch.c`: the turn of the main
loop, the core thread, the hand-over of a frame through `core_mx` and `core_rq`,
and everything that turns threading on and off: the menu's option, fast forward,
and the power button. `main` and `core_pt` say where the threads are; the flags
have their names in the code and are read and written without a lock, as there.
A poll sees one of the combinations in `Pressed`. `slips` is a history variable
with the known gaps a run has fallen into:

- `late`: the core thread sees the menu button when the main thread is already
  past the place where it looks at `show_menu` and is about to join it; the core
  thread then clears `should_run_core` and waits for nobody;
- `unsignalled`: a core thread told to stop or quit ends its run without a signal
  that the main thread, which waits without a condition, could hear: the frame
  was a duplicate, or the signal came before the wait;
- `pending`: the option changes while a toggle of fast forward or power waits to
  be carried out, or the other way round.

Assumed: a button press outlasts the core thread's way from `show_menu` to
`should_run_core`; `pthread_cancel` of a thread that has been joined (possible
when the option ends a fast forward, `Undone`) finds no thread, where POSIX
leaves it undefined; frames of the GL path are left out.

### PowerSave

`PowerSave.tla` models what sleep, its two-minute time-out, power-off, an HDMI
change and a quit do to the save files, step by step (open, write, sync), the
wake-up, and the start of the next session with auto-resume. `card` is the files
as programs see them and `disk` as a power cut leaves them: `Sync` copies one to
the other and `WriteBack` copies any file at any time, so unsynced effects reach
the card in any order. `prog` is the game's progress; `saved`, `suspended`
and `cut` are history.

Assumed: progress in the save memory and in the state is the same number; the
`.rtc` goes with the `.sav`; an orderly power-off syncs; one game and one disc.
The state slots of the menu, Flashback and a full card are left out.

### ArtCache

`ArtCache.tla` models the box-art loader of `minui.c`: the frame of the launcher,
which requests the art of the highlighted entry and prefetches its neighbours'
covers, and the worker, which decodes and inserts. Every function that holds
`lodor_art_mutex` is one action; while a frame is composed, `wanted` is what it
has still to request and `ahead` the neighbours it has still to prefetch, so that
decodes land between any two calls. `cache` is the files of the list from
`lodor_art_head` and `newer` the order of that list, `queue` the three request slots, `stale` says that the sequence number of the
request in flight is no longer the current one. `held` is the surface the frame
is about to blit.

Assumed: memory and the thread are there (`Lodor_artInit` succeeds); an image's
size is a constant of its file, where the code fits it to the screen. `Bytes`
gives the size of every set of files, and is all the model knows of sizes: those
of disjoint sets add up (`BytesAssumption`).

### Radio

`Radio.tla` opens the one-step bring-up of `WifiLock`: `wifi_acquire` from the
mutex to the link, `wait_net`, `_bringup_recover`, `wifi_ensure_reachable` and
the engine's calls, for the launcher's session and the daemon, with the user's
ways to reset the radio (`GateReset`, `PakChecks`, `PakResets`, `SwitchOff`). The
mutex is free or held here. `wedge` is what is wrong with the chip: it did not
enumerate, it gives no lease, or it passes no packets. `age` is what the clock
says of the mark `/tmp/romm-last-reenum` and `since` what really passed, which
differ once NTP has stepped the clock (`SetClock`). `calm` ends the faults: after
`ComeToRest` nothing breaks, the user is away, and a wait runs out only for
what cannot happen.

Assumed: a preempted push is `WifiLock`'s; the daemon always has a save to
upload; `miyoomini` and `my355` stand for USB and SDIO. DNS repair, the tier-1
Tailscale path, which returns early, and the association retry inside
`service-on` of the SDIO platforms are left out.

## Runs

Every `MC` module gives the constants; a `.cfg` picks a specification, the
faults and the properties. `CHECK_DEADLOCK FALSE` is said only where the system
stops by itself: the one-shot scripts of `WifiLock` exit, `SND_quit` ends
`AudioRing`, a quit ends `ThreadedVideo` and `ArtCache`.

| Run | Shows |
|---|---|
| `SelfUpdate_safety` | `RevertOfferSound`, `RevertLeavesPreUpdateCard`, `CoherentWhenIdle`, `LauncherUntouched`, `AtMostOneSet`, `StagingOutlivesOverlay` with power losses and failing copies |
| `SelfUpdate_live` | `StagedUpdateLands`, `ArmedRevertLands` once power losses stop, mirrors that cannot be written included |
| `WifiLock_quiet` | `NoForgottenLock`, `OwnsWhileUsing`, `OnlyPushPreempted`, the refinement `IsMutex`, `AttemptReturns`, `LockGivenUp` without overlap, with time-outs, preemption and kills |
| `SaveSync_safety` | `OnlyKnownMisses`, `LockFollowsHolder` with time-outs and power cuts; `ChargerUploadsAll`, `BatteryFlushesQueue` once the device is left in the menu on a link |
| `ShimInstall_yank` | `GamesKeepLaunching`, `StockNeverLost`, `StagedUpdateInstalls` with power lost between any two effects |
| `AudioRing` | `RingSound`, `RatioKept`, the refinement `PlaysInOrder`, and `BatchReturns` once the device stays resumed, at three ratios of the rates |
| `ThreadedVideo` | `OneRunner`, `PreferenceKept`, `MainLoopGoesOn` with every order of buttons, option, menu, quit and HDMI |
| `PowerSave` | `SavedStaysSaved`, `ResumesWhereItSlept`, `ResumedOnce` with power cuts and write-back at any time |
| `ArtCache` | `HeldNotFreed`, `CacheBounded` always; `ArtIsShown` once the player rests; `QuitReturns` |
| `Radio` | `ReenumSpaced` always; `Recovers` once nothing breaks any more |
| `ShimInstall_faults` | `ApplierBeforeDaemon`, `HooksOnceAndAlone`, `ForeignLinesKept` with torn copies and a full card as well |

One run must find a violation; it states what a comment of the code says and the
code does not do:

| Run | Property | What happens |
|---|---|---|
| `SaveSync_unqueued` | `LandsOrIsQueued` | an online quit whose helper finds the mutex taken or the link gone drops the save: it is not pushed and not queued |

Limits of the properties that pass, and places where the code does not do what it
says, which no run records:

- `SelfUpdate`: with `mirror` in `Faults`, `CoherentWhenIdle` and the rollback
  properties do not hold. A first attempt whose mirror failed leaves no complete
  set; if its overlay then fails midway, the retry mirrors the half-overlaid card
  and offers it as the old version, though lines 115-118 of the applier say "keep
  the true pre-update mirror staged by the first attempt".
- The overlay overwrites the applier in place. Power lost in that copy stops
  updates for good; `StagedUpdateLands` and `ArmedRevertLands` except it by name.
- Power lost after the staging is gone and before `version.txt` is written leaves
  the old version on the launcher's screens; no property speaks of `stamp`. On a
  card without `version.txt`, the label of a rollback set comes from
  `.update-applied`, which a revert to an unknown version leaves at the version
  it undid; no property speaks of that label.
- `WifiLock`: the TERM trap of `romm-session-sync` (line 28) releases the lock and
  does not exit, so a preempted push goes on with its next engine call while the
  actor that preempted it transfers; `romm-sync-lib.sh:511-512` says "serializes
  transfers (one actor at a time". `OwnsWhileUsing` excepts actors a TERM has hit.
- With `Overlap = TRUE`, `OwnsWhileUsing` fails, because a look between `mkdir`
  and the owner file takes a live lock for abandoned, and so do
  `OnlyPushPreempted`, because the owner and the preempt mark are read by two
  commands, and `AttemptReturns`, because actors can reclaim each other's lock
  for ever. `NoForgottenLock` is proved there.
- `SaveSync`: an offline quit runs the helper for the states, whose `wifi_acquire
  push` brings the radio up cold (`PushTake` without `link`), though
  `minarch-shim.sh:308-309` says "a quit NEVER cold-cycles the radio".
- Without a server that reconciles, a missed save waits for the game's next
  quit: `ChargerUploadsAll` says nothing then.
- `ShimInstall`: with `full`, `GamesKeepLaunching` and `StockNeverLost` do not
  hold: `install.sh` looks at no `cp`'s exit status and swaps a truncated shim
  in. Nor does the applier look at the status of `install.sh`: it removes the
  staging also when `install.sh` failed. With `tear`, `StockNeverLost` fails: a
  torn `minarch.real.elf` is taken for the saved binary by the re-run, though
  line 23 of `install.sh` says "crash-atomic".
- `uninstall.sh` leaves the applier's line in `auto.sh`: an update staged before or
  after it puts the shim and the daemon back at the next boot, though its line 2
  says "fully reverse install.sh".
- `ThreadedVideo`: `MainLoopGoesOn` excepts `late` and `unsignalled`, which are
  real: the picture freezes with the main thread waiting for ever. The properties
  end with the main loop; a quit through HDMI or the shortcut leaves the core
  thread running while `Core_unload` goes on, and an HDMI change saves the state
  next to it. A cancellation may hit the core thread in a save. When two quick
  taps meet before the toggle is carried out, the option and the thread differ
  (`pending`), or threading stays off with nothing that holds it off.
- `PowerSave`: a cut within `SRAM_write`, which truncates the `.sav` in place,
  loses it; `SavedStaysSaved` excepts it by name (`cut`). Without save memory the
  sync of `SRAM_write` is missing and `ResumesWhereItSlept` and `ResumedOnce`
  fail: the path of the last sleep can come back after a cut.
- `ArtCache`: `ArtIsShown` asks that the budget hold an entry's files, its
  neighbours' covers and any pin together (`Fits`); a larger stale pin makes the
  current image and the prefetches push each other out for ever. Toasts that
  repaint in every frame drop every decode until they end.
- `Radio`: `ReenumSpaced` excepts a clock stepped forward, and is about automatic
  re-enumerations only. The launcher's gate takes neither the mutex nor the mark:
  it may cut the daemon's transfer, and a re-enumeration may follow at once.
  Reset WiFi.pak checks the mutex and acts afterwards. `wifi_ensure_reachable`
  resets on every platform, where the comment at `romm-sync-lib.sh:385` says
  "NEVER on the SDIO radios". `Recovers` excepts a radio that never enumerated on
  this card, for which there is no marker.

### Bounds

`SelfUpdate`: a birth release and two updates over five files are the fewest that
give an update that adds a file, one that drops a pak, one that carries launcher
bytes, and a rollback set of one version that meets the apply of the next. The
liveness run needs one update of three files. `WifiLock`: one foreground actor,
one push and two daemons are the three modes and two actors of the same mode;
two engine calls per cycle give a signal an inside and a between. `SaveSync` has
no counter: two games are one that is played and one that has a save waiting.
`ShimInstall` needs no bound: a hook is added once, and
the Wifi line is on or off. `AudioRing`: four slots wrap within one array of three
frames and a chunk of two, and both frames and the three ratios (equal, slower,
faster) tell order and drift apart. `ThreadedVideo` has no counter. `PowerSave`:
progress up to 3 gives a save, a state and something newer than both. `ArtCache`:
three entries are a highlighted one with a neighbour on either side; the budget
of 5 holds one of the two images of size 3 and the middle entry's two of size 1,
never both big ones, so that inserts evict past the pin and two files can exceed
it. `Radio`: a cooldown of two ticks has a before, a
during and an after, and ages beyond it are all the same. No run uses symmetry: the actors differ.

### Fairness

`SelfUpdate!FairSpec`: the script keeps running (`WF` on `Script`) and the owner
sooner or later reboots (`WF` on `Reboot`); the liveness properties say "once
power losses stop". `WifiLock!FairSpec`: the kernel runs every process and an
engine call ends, by its own network time-outs; it is strong because the guard
`Undisturbed` is a timing assumption and not a wait. Nothing forces a cycle, a
time-out or a kill. `SaveSync!FairSpec`: the daemon runs on, time passes, and a server
that is reached over and over lands everything it is offered at some time (`SF`
on the reconcile that leaves nothing dirty and on the drain that leaves nothing
queued); that the device is left in the menu on a link is a premise of the
properties, and the owner is forced to nothing. `ShimInstall!FairSpec`: a card that is off is booted again,
and not every run of a script is cut short at the same step (`SF` on each line of
the scripts); nothing else is forced. `AudioRing!FairSpec`: both threads get SDL's
lock sooner or later (`SF`); the device plays only as a premise.
`ThreadedVideo!FairSpec`: both threads run, a mutex that is free again and again is
got, and a game makes new frames again and again (`SF` on `LockFrame`); no button
is forced. `PowerSave` checks safety only. `ArtCache!FairSpec`: the loop goes round and
a decode ends. `Radio!FairSpec`: what the network can do it does, time passes, the
daemon keeps polling, and what the launcher has begun goes on; the user is
forced to nothing.

## Proofs

`SelfUpdateProofs.tla`, `WifiLockProofs.tla`, `SaveSyncProofs.tla`,
`ShimInstallProofs.tla`, `ArtCacheProofs.tla`, `MinarchProofs.tla` (the core
thread and the audio ring), `PowerSaveProofs.tla` and `RadioProofs.tla`, checked by
TLAPS for every value of the constants that the named assumptions allow. Every
safety property of the runs that pass is a theorem.

`SelfUpdate`: `TypeCorrect`, `LauncherNeverTouched` and
`StagingOutlivesTheOverlay` hold with every fault. `LauncherUntouched` is not
inductive: a revert copies whatever the mirror holds, so the invariant also says
that no mirror and no staged tree past `Strip` has launcher bytes that differ
from the birth ones. `StagingOutlivesOverlay` needs, at the lines after the
overlay, that every payload file not in `todo` is already on the card. The rest
(`RevertOfferIsSound`, `RevertRestoresTheCard`, `IdleCardIsWhole`,
`OneRollbackSet`) is proved under `"mirror" \notin Faults`: the invariant follows
the mirror from `MakeSet` to `WriteMarker` (what is not in `todo` is mirrored),
then says that a complete set keeps giving back `base` while the overlay and the
drops change the card, and that a card with nothing pending is whole.

`WifiLock`: `TypeCorrect` and `NoLockIsForgotten` hold with every interleaving;
the latter rests on `OwnerPlaced`, which places a process that the owner file
names. `HolderKeepsTheLock` and `OnlyPushesArePreempted` are proved under
`~Overlap`; the invariant `QuietInv` says that at most one actor is inside the
lock's files, that the files are empty when there is no directory, that a
preempt mark is a push's, and that what an actor has read of the owner is still
so or is dead. From the same invariant `ImplementsMutex` maps every step to one
of `Mutex` or to a stutter: the owner file written is a `Grant`, the check that it
names the actor a `Begin`, every way out of the work (a failed bring-up, the last
call, giving up, a kill) an `End`, the trap a `Revoke`, a new cycle a `TryAgain`,
and `rm owner` a `Free`, because whoever removes the file is its owner and not
working, or was trapped, or has found the owner dead.

`ShimInstall`: `GamesAlwaysLaunch` and `StockBinaryKept` are proved when neither
`tear` nor `full` is in `Faults`, for every way a card comes. Both are action
properties; `BinaryInv` says that no file is torn, that `minarch.real.elf` and
the backup are the stock binary when they exist, and that the swap follows a
saved binary. About `auto.sh`, `ApplierRunsFirst`, `HooksAreOnceAndAlone` and
`ForeignLinesAreKept` hold with every fault and for every list of lines the file
can come to hold. Neither of the first two is inductive: the Wifi pak's bare `>>`
glues its line to a last line without a newline, which might be a hook, and so
`HookInv` adds that only the owner's own line can lack its newline (never in a
file with the Wifi pak's), that a script past the creation has a file, and that
the lines are sound in the sense of both properties. The lemmas before it say what the edits do to a list: `Only`
lists the kept places once and in order (their ranks are a bijection, by
cardinality), `Above` inserts one line before the daemon's, `Glued` appends or
glues, and each of them keeps the foreign lines in order. `FileAssumption` (the
mark for "no file" is no list) is all they assume.

`SaveSync`: `TypeCorrect`, `MutexIsGivenUp` and `NoOtherMiss` hold for any number
of games, with and without a server that reconciles, with both faults.
`OnlyKnownMisses` speaks of the menu; the invariant `Covered` follows a save there:
from play to the end of the helper's push only the played game may be dirty and
not taken care of, and after an offline quit not even that one.

`AudioRing`: `RingIsSound`, `RatioIsKept` and the refinement `RingPlaysInOrder` hold
for every ring size, rates, chunk and arrays. `Inv` adds to `RingSound` who is
inside SDL's lock and that a chunk lies within the core's array; `Kept` says that
`diff` is the drift. The refinement needs two lemmas: a copied frame is a
`Write` of the queue and a drained one its `Play`, through what `After` does to
`Count` and `At`; every other step leaves `Contents` alone.

`ThreadedVideo`: `CoreRunsOnce` and `PreferenceIsKept`. `Threads` ties the core
thread's life to `thread_video` and to the join; `Preference` says what a waiting
toggle is going to do, which `PreferenceKept`, about carried-out toggles, does not.

`PowerSave`: `ResumesWhereSlept`, `ResumedOnlyOnce` and `SavedIsKept`. `Steps` places
the steps of a save; `Paths` says where the resume path cannot be; `States` that
while it is on the card or on the disk the state on both is the one it was
written for; `Unlinked` that outside the front-end an unlink has reached the disk;
`Kept` follows a finished save through memory, `.sav` and state.

`Radio`: `ReenumsAreSpaced`, for every cooldown, and `NoTransferCut`: an automatic
re-enumeration never falls into another session's transfer. `MarkNotOlder` says
that the mark is no older by the clock than in truth, and `ConfirmedSpaced` that
what `_reenum_recent` answered still holds when the reset comes.

`ArtCache`: `SurfaceIsNotFreed` and `BudgetIsKept`, for any list, files, sizes and
budget. `ArtInv` says that what a frame holds is the pin and in the cache while the
frame is composed, and that a frame is not composed during `Lodor_artQuit`, and
counts the bytes. `BudgetIsKept` is what can be said of the budget: "over it only
with the newest and the pin" is false, because a later hit or prefetch moves
another file to the front and a later request moves the pin, and the cache stays
as it was; what is kept is that a cache over its budget has two files at most. The
order `newer` takes part in the choice of the victims and in no bound.

The type invariant of every module is proved (`TypeCorrect`, `VideoTypeCorrect`,
`RingTypeCorrect`); no run checks one, because each is part of an inductive
invariant.

Only model-checked is liveness, which is out of the prover's reach, as ENABLED
is: `StagedUpdateLands`, `ArmedRevertLands`, `AttemptReturns`, `LockGivenUp`,
`ChargerUploadsAll`, `BatteryFlushesQueue`, `StagedUpdateInstalls`, `BatchReturns`,
`MainLoopGoesOn`, `ArtIsShown`, `QuitReturns` and `Recovers`. The recursion in the
code's lists is proved about through sets and ranks, never by induction over data.

## Not modelled

Most of the C code in the tree is not the program's own: libretro-common,
rcheevos, scaler, qrcodegen and the platform drivers are vendored. Of its own C,
the greater part of `minui.c` and `minarch.c` draws, formats, reads options and
walks menus, in one thread and without state that outlives the call. The modules
cover the places where threads, processes, power and the network meet; raising
the share of mapped lines would take models of user interface.

What could still be modelled, in this order:

1. The hand-off's background applier while a session or `uninstall.sh` runs, and
   the daemon killed before an engine swap: `ShimInstall` composed with
   `SaveSync`.
2. `SaveSync` on top of `WifiLock`, the mutex command by command under the
   sessions, and `Radio` as the refinement of its bring-up; both are one
   step where another module has the detail.
3. The end of a threaded session: `Core_unload` and the save next to a core
   thread that still runs, which `ThreadedVideo` stops short of.
4. The progress overlay of `minui.c` (an operation that outlives its 300 s cap
   writes into the next one's result files; B leaves the overlay waiting although
   the comment at 3219 says "loop breaks"). The engine behind it is not in the
   tree.
5. The state slots and Flashback of the menu, the states queue, the cover daemon.
6. An installed-version specification that `SelfUpdate` implements.

Left out for good: the vendored code, the release pipeline (what it guarantees of
an overlay is `ReleaseAssumption`), user interface and formatting, tailscaled and
its login, achievements and the GL path, single-screen tools, and the engine, the
wizard and the server, which are not in the repository.
