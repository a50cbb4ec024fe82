----------------------------- MODULE SelfUpdate -----------------------------
(***************************************************************************)
(* The LodorOS self-update: staging, the boot-time applier with its        *)
(* rollback mirror, and the user-armed revert                              *)
(* (paks/Lodor.pak/bin/lodor-apply-update and paks/Update Lodor.pak).      *)
(*                                                                         *)
(* Every step is one effect on the card that a power loss can fall before  *)
(* or after.  Effects reach the card in program order; `rm -rf' removes    *)
(* the entries of a directory in the order they were created (FAT32).      *)
(* The bytes of a file are abstracted to the version they came from.       *)
(***************************************************************************)
EXTENDS Integers

CONSTANTS
    Version,    \* release versions, ordered
    Birth,      \* the version the card was built with
    File,       \* card-relative paths the releases mention
    Born,       \* the files on the card when it was built
    Ships,      \* [Version -> SUBSET File]: the files of a release's tree
    Drops,      \* [Version -> SUBSET File]: what its deprecated-paks.txt names
    Engine,     \* Lodor.pak/lodor-sync
    Applier,    \* Lodor.pak/bin/lodor-apply-update, the script modelled here
    DepList,    \* Lodor.pak/deprecated-paks.txt
    Launcher,   \* .system/*/bin/minui
    Faults,     \* which failures happen: subset of {"yank", "mirror", "copy"}
    NoFile,     \* content: the path does not exist
    Torn,       \* content: truncated or half-written
    NoVersion,  \* label: no such file
    Unknown     \* label: the word "unknown", or an empty file

Content == Version \cup {NoFile, Torn}
Label   == Version \cup {NoVersion, Unknown}

ASSUME VersionAssumption ==
    /\ Version \subseteq Nat
    /\ Birth \in Version
    /\ NoFile \notin Version /\ Torn \notin Version /\ NoFile # Torn
    /\ NoVersion \notin Version /\ Unknown \notin Version
    /\ NoVersion # Unknown

ASSUME FileAssumption ==
    /\ Born \subseteq File
    /\ Launcher \subseteq Born
    /\ Engine \in File \ Launcher /\ Applier \in File \ Launcher
    /\ DepList \notin Launcher

\* What release.sh checks of every overlay zip, and what a sane deprecated
\* list obeys: it never names a file the same release ships, nor the launcher.
ASSUME ReleaseAssumption ==
    /\ Ships \in [Version -> SUBSET File]
    /\ Drops \in [Version -> SUBSET File]
    /\ Ships[Birth] \subseteq Born
    /\ \A v \in Version :
         /\ Engine \in Ships[v] /\ Applier \in Ships[v]
         /\ Drops[v] \cap (Ships[v] \cup Launcher) = {}

ASSUME FaultsAssumption == Faults \subseteq {"yank", "mirror", "copy"}

VARIABLES
    pc,       \* where the applier is; "live" when the system is up
    card,     \* [File -> Content]
    ready,    \* .update/READY: the version it names, or NoVersion
    updDir,   \* .update/tree exists
    updTree,  \* files in .update/tree, all with the bytes of that version
    rbDir,    \* [Version -> BOOLEAN]: .update-rollback/<v>/tree exists
    rbTree,   \* [Version -> [File -> Content]]: the mirror in it
    rbFrom,   \* [Version -> Label]: .update-rollback/<v>/rolled-from
    request,  \* .update-rollback/revert-requested exists
    applied,  \* .update-applied
    stamp,    \* the version in .system/version.txt
    ver,      \* $VER (apply) or the version of $RBSET (revert)
    old,      \* $OLDVER
    todo,     \* files the current loop has still to handle
    dep,      \* $DEP_PATHS
    failed,   \* the cp -r of this boot has failed on some file
    cut,      \* the script being run is itself torn: it ends before the overlay
    base      \* history: the card as it was when <v> was staged

staging  == <<ready, updDir, updTree>>
rollback == <<rbDir, rbTree, rbFrom>>
labels   == <<applied, stamp>>
locals   == <<ver, old, todo, dep, failed, cut>>
vars     == <<pc, card, staging, rollback, request, labels, locals, base>>

CopyPC == {"overlay", "revert"}
WipePC == {"wipe_stage", "wipe_failed", "wipe_revert", "wipe_discard"}
PC == {"live", "boot", "begin", "strip", "mkdir", "mirror", "marker",
       "drop", "clear", "applied", "stamp",
       "revstamp", "revapplied", "revclear"} \cup CopyPC \cup WipePC

TypeOK ==
    /\ pc \in PC
    /\ card \in [File -> Content]
    /\ ready \in Version \cup {NoVersion}
    /\ updDir \in BOOLEAN
    /\ updTree \in SUBSET File
    /\ rbDir \in [Version -> BOOLEAN]
    /\ rbTree \in [Version -> [File -> Content]]
    /\ rbFrom \in [Version -> Label]
    /\ request \in BOOLEAN
    /\ applied \in Version \cup {NoVersion}
    /\ stamp \in Version \cup {NoVersion}
    /\ ver \in Version \cup {NoVersion}
    /\ old \in Label
    /\ todo \in SUBSET File
    /\ dep \in SUBSET File
    /\ failed \in BOOLEAN
    /\ cut \in BOOLEAN
    /\ base \in [Version -> [File -> Content]]

BirthCard == [f \in File |-> IF f \in Born THEN Birth ELSE NoFile]
EmptyTree == [f \in File |-> NoFile]

\* A card just built: version.txt is written by the card build, or is absent
\* (the pak on a stock MinUI card).
Init ==
    /\ pc = "live"
    /\ card = BirthCard
    /\ ready = NoVersion /\ updDir = FALSE /\ updTree = {}
    /\ rbDir = [v \in Version |-> FALSE]
    /\ rbTree = [v \in Version |-> EmptyTree]
    /\ rbFrom = [v \in Version |-> NoVersion]
    /\ request = FALSE
    /\ applied = NoVersion
    /\ stamp \in {Birth, NoVersion}
    /\ ver = NoVersion /\ old = NoVersion /\ todo = {} /\ dep = {}
    /\ failed = FALSE /\ cut = FALSE
    /\ base = [v \in Version |-> BirthCard]

\* rb_set: a set is usable when it has both tree/ and rolled-from.
Usable(v) == rbDir[v] /\ rbFrom[v] # NoVersion
SomeUsable == \E v \in Version : Usable(v)

\* The files of a release the overlay may put on the card.
Payload(v) == Ships[v] \ Launcher

Mirrored(v) == {f \in File : rbTree[v][f] # NoFile}

-----------------------------------------------------------------------------
(* The live system: Update Lodor.pak and the engine's --fetch-update.       *)

\* The pak refuses to fetch over an armed revert or an existing staging; the
\* engine offers only a version newer than its own, and writes READY last.
Stage(v) ==
    /\ pc = "live"
    /\ ~(SomeUsable /\ request)
    /\ ready = NoVersion
    /\ card[Engine] \in Version /\ v > card[Engine]
    /\ ready' = v
    /\ updDir' = TRUE
    /\ updTree' = Ships[v]
    /\ base' = [base EXCEPT ![v] = card]
    /\ UNCHANGED <<pc, card, rollback, request, labels, locals>>

ArmRevert ==
    /\ pc = "live"
    /\ SomeUsable
    /\ ~request
    /\ request' = TRUE
    /\ UNCHANGED <<pc, card, staging, rollback, labels, locals, base>>

\* Reboot, power off, or power lost while the applier is not running.
Reboot ==
    /\ pc = "live"
    /\ pc' = "boot"
    /\ UNCHANGED <<card, staging, rollback, request, labels, locals, base>>

ResetLocals ==
    /\ ver' = NoVersion /\ old' = NoVersion
    /\ todo' = {} /\ dep' = {}
    /\ failed' = FALSE /\ cut' = FALSE

\* auto.sh runs whatever is at the applier's path.  A torn script runs up to
\* the tear: nothing, or all of the blocks above the overlay, whose
\* `if cp ...; then ... fi' is then incomplete and never executed.
Boot ==
    /\ pc = "boot"
    /\ \/ /\ pc' = "begin"
          /\ cut' = (card[Applier] = Torn)
       \/ /\ card[Applier] = Torn
          /\ pc' = "live"
          /\ UNCHANGED cut
    /\ UNCHANGED <<card, staging, rollback, request, labels,
                   ver, old, todo, dep, failed, base>>

-----------------------------------------------------------------------------
(* The applier decides what to do.                                          *)

BeginRevert(v) ==
    /\ pc = "begin"
    /\ request
    /\ Usable(v)
    /\ pc' = "revert"
    /\ ver' = v
    /\ todo' = Mirrored(v)
    /\ UNCHANGED <<card, staging, rollback, request, labels,
                   old, dep, failed, cut, base>>

DiscardRequest ==
    /\ pc = "begin"
    /\ request
    /\ ~SomeUsable
    /\ pc' = "wipe_discard"
    /\ UNCHANGED <<card, staging, rollback, request, labels, locals, base>>

\* Wrong: exits on a half-removed staging and leaves its READY behind.
HalfStagedIgnored ==
    /\ pc = "begin"
    /\ ~request
    /\ ready = NoVersion \/ ~updDir
    /\ pc' = "live"
    /\ ResetLocals
    /\ UNCHANGED <<card, staging, rollback, request, labels, base>>

NothingStaged ==
    /\ pc = "begin"
    /\ ~request
    /\ ready = NoVersion
    /\ pc' = "live"
    /\ ResetLocals
    /\ UNCHANGED <<card, staging, rollback, request, labels, base>>

\* READY without tree/: what an interrupted rm -rf of the staging leaves.
DiscardHalfStaged ==
    /\ pc = "begin"
    /\ ~request
    /\ ready # NoVersion /\ ~updDir
    /\ ready' = NoVersion
    /\ pc' = "live"
    /\ ResetLocals
    /\ UNCHANGED <<card, updDir, updTree, rollback, request, labels, base>>

BeginApply ==
    /\ pc = "begin"
    /\ ~request
    /\ ready # NoVersion /\ updDir
    /\ pc' = "strip"
    /\ ver' = ready
    /\ UNCHANGED <<card, staging, rollback, request, labels,
                   old, todo, dep, failed, cut, base>>

-----------------------------------------------------------------------------
(* Apply: strip the launcher, stage the rollback mirror, overlay, clean up. *)

DeprecatedHere ==
    IF DepList \in updTree
    THEN {f \in Drops[ver] : card[f] # NoFile}
    ELSE {}

\* $OLDVER: version.txt, else .update-applied, else "unknown".
OldVersion ==
    IF stamp # NoVersion THEN stamp
    ELSE IF applied # NoVersion THEN applied ELSE Unknown

\* Leaves <tree> in the staging, expands the deprecated list, and keeps the
\* rollback set there is or starts a new one.
StripTo(tree, keepSet) ==
    /\ pc = "strip"
    /\ updTree' = tree
    /\ dep' = DeprecatedHere
    /\ \/ /\ keepSet
          /\ pc' = "overlay"
          /\ todo' = tree
          /\ UNCHANGED old
       \/ /\ ~keepSet
          /\ pc' = "wipe_stage"
          /\ old' = OldVersion
          /\ UNCHANGED todo
    /\ UNCHANGED <<card, ready, updDir, rollback, request, labels,
                   ver, failed, cut, base>>

\* Wrong: forgets to strip the launcher.
StripNothing == StripTo(updTree, Usable(ver))

\* Wrong: mirrors again on the re-run of an interrupted apply.
StripRemirrors == StripTo(updTree \ Launcher, FALSE)

\* A complete set of the same version means that this is a re-run.
Strip == StripTo(updTree \ Launcher, Usable(ver))

MakeSet ==
    /\ pc = "mkdir"
    /\ rbDir' = [rbDir EXCEPT ![ver] = TRUE]
    /\ todo' = {f \in updTree : card[f] # NoFile} \cup dep
    /\ pc' = "mirror"
    /\ UNCHANGED <<card, staging, rbTree, rbFrom, request, labels,
                   ver, old, dep, failed, cut, base>>

MirrorFile(f) ==
    /\ pc = "mirror"
    /\ f \in todo
    /\ rbTree' = [rbTree EXCEPT ![ver][f] = card[f]]
    /\ todo' = todo \ {f}
    /\ UNCHANGED <<pc, card, staging, rbDir, rbFrom, request, labels,
                   ver, old, dep, failed, cut, base>>

\* stage-failed: a file, or the marker itself, could not be written.
MirrorFails ==
    /\ "mirror" \in Faults
    /\ \/ pc = "mirror" /\ todo # {}
       \/ pc = "marker"
    /\ pc' = "wipe_failed"
    /\ todo' = {}
    /\ UNCHANGED <<card, staging, rollback, request, labels,
                   ver, old, dep, failed, cut, base>>

MirrorDone ==
    /\ pc = "mirror"
    /\ todo = {}
    /\ pc' = "marker"
    /\ UNCHANGED <<card, staging, rollback, request, labels, locals, base>>

\* rolled-from is written last.
WriteMarker ==
    /\ pc = "marker"
    /\ rbFrom' = [rbFrom EXCEPT ![ver] = old]
    /\ pc' = "overlay"
    /\ todo' = updTree
    /\ UNCHANGED <<card, staging, rbDir, rbTree, request, labels,
                   ver, old, dep, failed, cut, base>>

\* Where the bytes of the current copy loop come from.
Source(f) == IF pc = "revert" THEN rbTree[ver][f] ELSE ver

\* One file of cp -r, of the overlay or of the revert.
CopyFile(f) ==
    /\ pc \in CopyPC
    /\ pc = "overlay" => ~cut
    /\ f \in todo
    /\ card' = [card EXCEPT ![f] = Source(f)]
    /\ todo' = todo \ {f}
    /\ UNCHANGED <<pc, staging, rollback, request, labels,
                   ver, old, dep, failed, cut, base>>

\* cp reports the error, goes on with the other files and exits non-zero.
CopyFails(f) ==
    /\ "copy" \in Faults
    /\ pc \in CopyPC
    /\ pc = "overlay" => ~cut
    /\ f \in todo
    /\ \E c \in {card[f], Torn} : card' = [card EXCEPT ![f] = c]
    /\ failed' = TRUE
    /\ todo' = todo \ {f}
    /\ UNCHANGED <<pc, staging, rollback, request, labels,
                   ver, old, dep, cut, base>>

\* The copy failed, or the torn script ended: staging and request are kept.
KeepForNextBoot ==
    /\ \/ pc \in CopyPC /\ todo = {} /\ failed
       \/ pc = "overlay" /\ cut
    /\ pc' = "live"
    /\ ResetLocals
    /\ UNCHANGED <<card, staging, rollback, request, labels, base>>

\* install.sh runs here (module ShimInstall); it writes none of these files.
FinishOverlay ==
    /\ pc = "overlay"
    /\ ~cut
    /\ todo = {}
    /\ pc' = "drop"
    /\ UNCHANGED <<card, staging, rollback, request, labels, locals, base>>

\* Wrong: ignores the exit status of cp.
OverlayUnchecked == FinishOverlay

OverlayDone == ~failed /\ FinishOverlay

DropFile(f) ==
    /\ pc = "drop"
    /\ f \in dep
    /\ card' = [card EXCEPT ![f] = NoFile]
    /\ dep' = dep \ {f}
    /\ UNCHANGED <<pc, staging, rollback, request, labels,
                   ver, old, todo, failed, cut, base>>

DropDone ==
    /\ pc = "drop"
    /\ dep = {}
    /\ pc' = "clear"
    /\ UNCHANGED <<card, staging, rollback, request, labels, locals, base>>

-----------------------------------------------------------------------------
(* rm -rf $UPD (after an apply and in a revert) and rm -rf $RB.             *)

ClearFile(f) ==
    /\ pc \in {"clear", "revclear"}
    /\ f \in updTree
    /\ updTree' = updTree \ {f}
    /\ UNCHANGED <<pc, card, ready, updDir, rollback, request, labels,
                   locals, base>>

ClearDir ==
    /\ pc \in {"clear", "revclear"}
    /\ updTree = {} /\ updDir
    /\ updDir' = FALSE
    /\ UNCHANGED <<pc, card, ready, updTree, rollback, request, labels,
                   locals, base>>

ClearReady ==
    /\ pc \in {"clear", "revclear"}
    /\ ~updDir
    /\ ready' = NoVersion
    /\ pc' = IF pc = "clear" THEN "applied" ELSE "wipe_revert"
    /\ UNCHANGED <<card, updDir, updTree, rollback, request, labels,
                   locals, base>>

WriteApplied ==
    /\ pc = "applied"
    /\ applied' = ver
    /\ pc' = "stamp"
    /\ UNCHANGED <<card, staging, rollback, request, stamp, locals, base>>

\* stamp_version: only when the file exists, by temp file and mv.
StampVersion ==
    /\ pc = "stamp"
    /\ stamp' = IF stamp = NoVersion THEN NoVersion ELSE ver
    /\ pc' = "live"
    /\ ResetLocals
    /\ UNCHANGED <<card, staging, rollback, request, applied, base>>

WipeFile(v, f) ==
    /\ pc \in WipePC
    /\ rbTree[v][f] # NoFile
    /\ rbTree' = [rbTree EXCEPT ![v][f] = NoFile]
    /\ UNCHANGED <<pc, card, staging, rbDir, rbFrom, request, labels,
                   locals, base>>

WipeDir(v) ==
    /\ pc \in WipePC
    /\ Mirrored(v) = {}
    /\ rbDir[v]
    /\ rbDir' = [rbDir EXCEPT ![v] = FALSE]
    /\ UNCHANGED <<pc, card, staging, rbTree, rbFrom, request, labels,
                   locals, base>>

WipeFrom(v) ==
    /\ pc \in WipePC
    /\ ~rbDir[v]
    /\ rbFrom[v] # NoVersion
    /\ rbFrom' = [rbFrom EXCEPT ![v] = NoVersion]
    /\ UNCHANGED <<pc, card, staging, rbDir, rbTree, request, labels,
                   locals, base>>

AllWiped ==
    \A v \in Version : ~rbDir[v] /\ rbFrom[v] = NoVersion /\ Mirrored(v) = {}

FinishWipe(keepRequest) ==
    /\ pc \in WipePC
    /\ request' = keepRequest
    /\ \/ /\ pc = "wipe_stage"
          /\ pc' = "mkdir"
          /\ UNCHANGED locals
       \/ /\ pc = "wipe_failed"
          /\ pc' = "overlay"
          /\ todo' = updTree
          /\ UNCHANGED <<ver, old, dep, failed, cut>>
       \/ /\ pc \in {"wipe_revert", "wipe_discard"}
          /\ pc' = "live"
          /\ ResetLocals
    /\ UNCHANGED <<card, staging, rollback, labels, base>>

\* Wrong: the previous sets are not removed.
WipeSkipped == FinishWipe(FALSE)

\* Wrong: the request survives the sets.
WipeKeepsRequest == AllWiped /\ FinishWipe(request)

\* The sets are gone; the revert request, created after them, goes last.
WipeDone == AllWiped /\ FinishWipe(FALSE)

-----------------------------------------------------------------------------
(* Revert: the labels, then the staging, then the rollback set itself.      *)

FinishRevertCopy ==
    /\ pc = "revert"
    /\ todo = {}
    /\ pc' = "revstamp"
    /\ UNCHANGED <<card, staging, rollback, request, labels, locals, base>>

\* Wrong: ignores the exit status of cp.
RevertUnchecked == FinishRevertCopy

RevertDone == ~failed /\ FinishRevertCopy

RevertStamp ==
    /\ pc = "revstamp"
    /\ stamp' = IF stamp # NoVersion /\ rbFrom[ver] \in Version
                THEN rbFrom[ver] ELSE stamp
    /\ pc' = "revapplied"
    /\ UNCHANGED <<card, staging, rollback, request, applied, locals, base>>

RevertApplied ==
    /\ pc = "revapplied"
    /\ applied' = IF rbFrom[ver] \in Version THEN rbFrom[ver] ELSE applied
    /\ pc' = "revclear"
    /\ UNCHANGED <<card, staging, rollback, request, stamp, locals, base>>

-----------------------------------------------------------------------------
\* What a write in progress leaves when the power goes.
TearCopy ==
    \/ UNCHANGED card
    \/ /\ pc = "revert" \/ (pc = "overlay" /\ ~cut)
       /\ \E f \in todo : card' = [card EXCEPT ![f] = Torn]

TearMarker ==
    \/ UNCHANGED rbFrom
    \/ /\ pc = "marker"
       /\ rbFrom' = [rbFrom EXCEPT ![ver] = Unknown]

TearApplied ==
    \/ UNCHANGED applied
    \/ /\ pc \in {"applied", "revapplied"}
       /\ applied' = NoVersion

Yank ==
    /\ "yank" \in Faults
    /\ pc \notin {"live", "boot"}
    /\ TearCopy
    /\ TearMarker
    /\ TearApplied
    /\ pc' = "boot"
    /\ ResetLocals
    /\ UNCHANGED <<staging, rbDir, rbTree, request, stamp, base>>

-----------------------------------------------------------------------------
Decide ==
    \/ \E v \in Version : BeginRevert(v)
    \/ DiscardRequest \/ NothingStaged \/ DiscardHalfStaged \/ BeginApply

Apply ==
    \/ Strip \/ MakeSet \/ MirrorDone \/ WriteMarker
    \/ \E f \in File : MirrorFile(f) \/ CopyFile(f) \/ DropFile(f)
    \/ KeepForNextBoot \/ OverlayDone \/ DropDone
    \/ WriteApplied \/ StampVersion

Remove ==
    \/ \E f \in File : ClearFile(f)
    \/ ClearDir \/ ClearReady
    \/ \E v \in Version : (\E f \in File : WipeFile(v, f)) \/ WipeDir(v) \/ WipeFrom(v)
    \/ WipeDone

Revert == RevertDone \/ RevertStamp \/ RevertApplied

\* Everything the boot does when no fault strikes.
Script == Boot \/ Decide \/ Apply \/ Remove \/ Revert

Fault == Yank \/ MirrorFails \/ \E f \in File : CopyFails(f)

Live == (\E v \in Version : Stage(v)) \/ ArmRevert \/ Reboot

Next == Script \/ Fault \/ Live

Spec == Init /\ [][Next]_vars

\* The script runs on once started, and the user sooner or later powers off.
FairSpec == Spec /\ WF_vars(Script) /\ WF_vars(Reboot)
-----------------------------------------------------------------------------
(* What must hold.                                                          *)

\* Restoring the set of <v> gives back every file the card had when <v> was
\* staged (files the update added are left in place, as the script says).
RestoresPreUpdateCard(v) ==
    \A f \in File :
        base[v][f] # NoFile /\ card[f] # base[v][f] => rbTree[v][f] = base[v][f]

\* Whenever the user can choose "Revert last update", the mirror on the card
\* is the true pre-update one, however often the apply was interrupted
\* (lodor-apply-update:108-153).
RevertOfferSound ==
    pc = "live" => \A v \in Version : Usable(v) => RestoresPreUpdateCard(v)

\* When a revert's copy loop has ended without error, over any number of
\* boots, the card holds what it held before the update.
RevertLeavesPreUpdateCard ==
    pc = "revstamp" =>
        \A f \in File : base[ver][f] # NoFile => card[f] = base[ver][f]

\* With nothing staged and no revert pending the card holds one whole
\* release, never a mix of two and never a torn file: an interrupted copy is
\* always finished or undone before the staging or the request goes away.
CoherentWhenIdle ==
    pc = "live" /\ ready = NoVersion /\ ~request =>
        \E v \in Version : \A f \in Payload(v) : card[f] = v

\* The launcher is never touched from this path (lodor-apply-update:86-88),
\* neither by an overlay nor, through the mirror, by a revert.
LauncherUntouched == \A f \in Launcher : card[f] = Birth

\* Only the most recent rollback set is ever kept (lodor-apply-update:124).
AtMostOneSet ==
    \A v, w \in Version : Usable(v) /\ Usable(w) => v = w

\* The staging is removed only once its whole payload is on the card, or by a
\* revert (lodor-apply-update:19-21 and 63-64).
StagingOutlivesOverlay ==
    [][ready # NoVersion /\ ready' = NoVersion =>
         request \/ \A f \in Payload(ready) : card[f] = ready]_vars

YanksStop == <>[][~Yank]_vars

\* Once power losses stop, a staged update is applied or undone, unless one
\* of them tore the applier itself.
StagedUpdateLands ==
    YanksStop => \A v \in Version :
        (ready = v) ~> (ready # v \/ card[Applier] = Torn)

\* Likewise an armed revert is carried out.
ArmedRevertLands ==
    YanksStop => (request ~> (~request \/ card[Applier] = Torn))
=============================================================================
