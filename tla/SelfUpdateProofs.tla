-------------------------- MODULE SelfUpdateProofs --------------------------
(***************************************************************************)
(* Proofs about SelfUpdate, for every set of versions and files.  The      *)
(* invariant is built in layers, each proved from the ones before it.      *)
(***************************************************************************)
EXTENDS SelfUpdate, TLAPS

-----------------------------------------------------------------------------
(* Layer 1: types.                                                          *)

\* Where the script knows which version it is working on.
Started == PC \ {"live", "boot", "begin", "wipe_discard"}

TypeInv ==
    /\ TypeOK
    /\ pc \in Started => ver \in Version
    /\ pc \in {"wipe_stage", "mkdir", "mirror", "marker"} => old # NoVersion

LEMMA CardTypes ==
    /\ BirthCard \in [File -> Content]
    /\ EmptyTree \in [File -> Content]
BY VersionAssumption DEF BirthCard, EmptyTree, Content

LEMMA InitTypeInv == Init => TypeInv
<1> SUFFICES ASSUME Init PROVE TypeInv
  OBVIOUS
<1>1. /\ card \in [File -> Content]
      /\ rbTree \in [Version -> [File -> Content]]
      /\ base \in [Version -> [File -> Content]]
  BY CardTypes DEF Init
<1>2. /\ rbDir \in [Version -> BOOLEAN]
      /\ rbFrom \in [Version -> Label]
  BY DEF Init, Label
<1> QED
  BY <1>1, <1>2, VersionAssumption
  DEF Init, TypeInv, TypeOK, Started, Label, PC, CopyPC, WipePC

LEMMA NextTypeInv == TypeInv /\ [Next]_vars => TypeInv'
<1> SUFFICES ASSUME TypeInv, [Next]_vars PROVE TypeInv'
  OBVIOUS
<1> USE VersionAssumption, FileAssumption, ReleaseAssumption
    DEF TypeInv, TypeOK, Started, Content, Label, PC, CopyPC, WipePC,
        staging, rollback, labels, locals, ResetLocals
<1>1. ASSUME NEW v \in Version, Stage(v) PROVE TypeInv'
  BY <1>1 DEF Stage
<1>2. CASE ArmRevert
  BY <1>2 DEF ArmRevert
<1>3. CASE Reboot
  BY <1>3 DEF Reboot
<1>4. CASE Boot
  BY <1>4 DEF Boot
<1>5. ASSUME NEW v \in Version, BeginRevert(v) PROVE TypeInv'
  BY <1>5 DEF BeginRevert, Mirrored
<1>6. CASE DiscardRequest
  BY <1>6 DEF DiscardRequest
<1>7. CASE NothingStaged
  BY <1>7 DEF NothingStaged
<1>8. CASE DiscardHalfStaged
  BY <1>8 DEF DiscardHalfStaged
<1>9. CASE BeginApply
  BY <1>9 DEF BeginApply
<1>10. CASE Strip
  <2>1. DeprecatedHere \in SUBSET File
    BY <1>10 DEF DeprecatedHere, Strip, StripTo
  <2>2. OldVersion \in Label /\ OldVersion # NoVersion
    BY DEF OldVersion
  <2> QED
    BY <1>10, <2>1, <2>2 DEF Strip, StripTo
<1>11. CASE MakeSet
  BY <1>11 DEF MakeSet
<1>12. ASSUME NEW f \in File, MirrorFile(f) PROVE TypeInv'
  BY <1>12 DEF MirrorFile
<1>13. CASE MirrorFails
  BY <1>13 DEF MirrorFails
<1>14. CASE MirrorDone
  BY <1>14 DEF MirrorDone
<1>15. CASE WriteMarker
  BY <1>15 DEF WriteMarker
<1>16. ASSUME NEW f \in File, CopyFile(f) PROVE TypeInv'
  <2>1. Source(f) \in Content
    BY <1>16 DEF Source, CopyFile
  <2> QED
    BY <1>16, <2>1 DEF CopyFile
<1>17. ASSUME NEW f \in File, CopyFails(f) PROVE TypeInv'
  BY <1>17 DEF CopyFails
<1>18. CASE KeepForNextBoot
  BY <1>18 DEF KeepForNextBoot
<1>19. CASE OverlayDone
  BY <1>19 DEF OverlayDone, FinishOverlay
<1>20. ASSUME NEW f \in File, DropFile(f) PROVE TypeInv'
  BY <1>20 DEF DropFile
<1>21. CASE DropDone
  BY <1>21 DEF DropDone
<1>22. ASSUME NEW f \in File, ClearFile(f) PROVE TypeInv'
  BY <1>22 DEF ClearFile
<1>23. CASE ClearDir
  BY <1>23 DEF ClearDir
<1>24. CASE ClearReady
  BY <1>24 DEF ClearReady
<1>25. CASE WriteApplied
  BY <1>25 DEF WriteApplied
<1>26. CASE StampVersion
  BY <1>26 DEF StampVersion
<1>27. ASSUME NEW v \in Version, NEW f \in File, WipeFile(v, f) PROVE TypeInv'
  BY <1>27 DEF WipeFile
<1>28. ASSUME NEW v \in Version, WipeDir(v) PROVE TypeInv'
  BY <1>28 DEF WipeDir
<1>29. ASSUME NEW v \in Version, WipeFrom(v) PROVE TypeInv'
  BY <1>29 DEF WipeFrom
<1>30. CASE WipeDone
  BY <1>30 DEF WipeDone, FinishWipe
<1>31. CASE RevertDone
  BY <1>31 DEF RevertDone, FinishRevertCopy
<1>32. CASE RevertStamp
  BY <1>32 DEF RevertStamp
<1>33. CASE RevertApplied
  BY <1>33 DEF RevertApplied
<1>34. CASE Yank
  BY <1>34 DEF Yank, TearCopy, TearMarker, TearApplied
<1>35. CASE UNCHANGED vars
  BY <1>35 DEF vars
<1> QED
  BY <1>1, <1>2, <1>3, <1>4, <1>5, <1>6, <1>7, <1>8, <1>9, <1>10, <1>11,
     <1>12, <1>13, <1>14, <1>15, <1>16, <1>17, <1>18, <1>19, <1>20, <1>21,
     <1>22, <1>23, <1>24, <1>25, <1>26, <1>27, <1>28, <1>29, <1>30, <1>31,
     <1>32, <1>33, <1>34, <1>35
  DEF Next, Script, Fault, Live, Decide, Apply, Remove, Revert

\* Every variable keeps its type, whatever the faults.
THEOREM TypeCorrect == Spec => []TypeOK
<1>1. TypeInv => TypeOK
  BY DEF TypeInv
<1> QED
  BY <1>1, InitTypeInv, NextTypeInv, PTL DEF Spec

LEMMA TypeInvariant == Spec => []TypeInv
BY InitTypeInv, NextTypeInv, PTL DEF Spec

-----------------------------------------------------------------------------
(* Layer 2: no launcher bytes on any path to the card.                      *)

LauncherInv ==
    /\ \A f \in Launcher :
         /\ card[f] = Birth
         /\ f \notin todo /\ f \notin dep
         /\ \A v \in Version : rbTree[v][f] = NoFile
    /\ pc \in {"wipe_stage", "wipe_failed", "mkdir", "mirror", "marker", "overlay"} =>
         updTree \cap Launcher = {}

LEMMA InitLauncherInv == Init => LauncherInv
BY FileAssumption, VersionAssumption
   DEF Init, LauncherInv, BirthCard, EmptyTree

LEMMA NextLauncherInv ==
    TypeInv /\ LauncherInv /\ [Next]_vars => LauncherInv'
<1> SUFFICES ASSUME TypeInv, LauncherInv, [Next]_vars PROVE LauncherInv'
  OBVIOUS
<1> USE VersionAssumption, FileAssumption, ReleaseAssumption
    DEF TypeInv, TypeOK, Started, LauncherInv, Content, PC, CopyPC, WipePC,
        staging, rollback, labels, locals, Mirrored
<1>1. ASSUME NEW v \in Version, Stage(v) PROVE LauncherInv'
  BY <1>1 DEF Stage
<1>2. CASE ArmRevert
  BY <1>2 DEF ArmRevert
<1>3. CASE Reboot
  BY <1>3 DEF Reboot
<1>4. CASE Boot
  BY <1>4 DEF Boot
<1>5. ASSUME NEW v \in Version, BeginRevert(v) PROVE LauncherInv'
  BY <1>5 DEF BeginRevert
<1>6. CASE DiscardRequest
  BY <1>6 DEF DiscardRequest
<1>7. CASE NothingStaged
  BY <1>7 DEF NothingStaged, ResetLocals
<1>8. CASE DiscardHalfStaged
  BY <1>8 DEF DiscardHalfStaged, ResetLocals
<1>9. CASE BeginApply
  BY <1>9 DEF BeginApply
<1>10. CASE Strip
  BY <1>10 DEF Strip, StripTo, DeprecatedHere
<1>11. CASE MakeSet
  BY <1>11 DEF MakeSet
<1>12. ASSUME NEW f \in File, MirrorFile(f) PROVE LauncherInv'
  BY <1>12 DEF MirrorFile
<1>13. CASE MirrorFails
  BY <1>13 DEF MirrorFails
<1>14. CASE MirrorDone
  BY <1>14 DEF MirrorDone
<1>15. CASE WriteMarker
  BY <1>15 DEF WriteMarker
<1>16. ASSUME NEW f \in File, CopyFile(f) PROVE LauncherInv'
  BY <1>16 DEF CopyFile, Source, CopyPC
<1>17. ASSUME NEW f \in File, CopyFails(f) PROVE LauncherInv'
  BY <1>17 DEF CopyFails, CopyPC
<1>18. CASE KeepForNextBoot
  BY <1>18 DEF KeepForNextBoot, CopyPC, ResetLocals
<1>19. CASE OverlayDone
  BY <1>19 DEF OverlayDone, FinishOverlay
<1>20. ASSUME NEW f \in File, DropFile(f) PROVE LauncherInv'
  BY <1>20 DEF DropFile
<1>21. CASE DropDone
  BY <1>21 DEF DropDone
<1>22. ASSUME NEW f \in File, ClearFile(f) PROVE LauncherInv'
  BY <1>22 DEF ClearFile
<1>23. CASE ClearDir
  BY <1>23 DEF ClearDir
<1>24. CASE ClearReady
  BY <1>24 DEF ClearReady
<1>25. CASE WriteApplied
  BY <1>25 DEF WriteApplied
<1>26. CASE StampVersion
  BY <1>26 DEF StampVersion, ResetLocals
<1>27. ASSUME NEW v \in Version, NEW f \in File, WipeFile(v, f) PROVE LauncherInv'
  BY <1>27 DEF WipeFile, WipePC
<1>28. ASSUME NEW v \in Version, WipeDir(v) PROVE LauncherInv'
  BY <1>28 DEF WipeDir, WipePC
<1>29. ASSUME NEW v \in Version, WipeFrom(v) PROVE LauncherInv'
  BY <1>29 DEF WipeFrom, WipePC
<1>30. CASE WipeDone
  BY <1>30 DEF WipeDone, FinishWipe, WipePC, ResetLocals
<1>31. CASE RevertDone
  BY <1>31 DEF RevertDone, FinishRevertCopy
<1>32. CASE RevertStamp
  BY <1>32 DEF RevertStamp
<1>33. CASE RevertApplied
  BY <1>33 DEF RevertApplied
<1>34. CASE Yank
  BY <1>34 DEF Yank, TearCopy, TearMarker, TearApplied, ResetLocals
<1>35. CASE UNCHANGED vars
  BY <1>35 DEF vars
<1> QED
  BY <1>1, <1>2, <1>3, <1>4, <1>5, <1>6, <1>7, <1>8, <1>9, <1>10, <1>11,
     <1>12, <1>13, <1>14, <1>15, <1>16, <1>17, <1>18, <1>19, <1>20,
     <1>21, <1>22, <1>23, <1>24, <1>25, <1>26, <1>27, <1>28, <1>29,
     <1>30, <1>31, <1>32, <1>33, <1>34, <1>35
  DEF Next, Script, Fault, Live, Decide, Apply, Remove, Revert

\* No update and no revert ever writes the launcher, whatever the faults and
\* whatever a mis-built release carries.
THEOREM LauncherNeverTouched == Spec => []LauncherUntouched
<1>1. LauncherInv => LauncherUntouched
  BY DEF LauncherInv, LauncherUntouched
<1> QED
  BY <1>1, InitLauncherInv, NextLauncherInv, TypeInvariant, PTL DEF Spec

-----------------------------------------------------------------------------
(* Layer 3: the staging and the overlay.                                    *)

ApplyPC == {"strip", "wipe_stage", "mkdir", "mirror", "marker", "wipe_failed",
            "overlay", "drop", "clear"}
RevertPC == {"revert", "revstamp", "revapplied", "revclear", "wipe_revert",
             "wipe_discard"}

\* A revert is pending and can be carried out.
RevertPending == request /\ SomeUsable

StagingInv ==
    /\ pc \in ApplyPC => ~request /\ ready \in Version /\ ver = ready
    /\ pc \in {"applied", "stamp"} => ~request /\ ready = NoVersion
    /\ pc \in RevertPC => request
    /\ pc \in {"revert", "revstamp", "revapplied", "revclear"} => Usable(ver)
    /\ pc = "wipe_revert" => ready = NoVersion
    /\ pc = "wipe_discard" => ~SomeUsable
    /\ ready = NoVersion => updTree = {}
    /\ ~updDir => updTree = {}
    /\ ready \in Version => updTree \subseteq Ships[ready]
    /\ pc \in {"strip", "wipe_stage", "mkdir", "mirror", "marker", "overlay",
               "drop", "wipe_failed"} => updDir
    /\ pc \in ApplyPC \ {"strip"} => dep \subseteq Drops[ver]
    /\ pc = "overlay" => todo \subseteq updTree
    \* what the overlay has put on the card
    /\ pc = "overlay" /\ ~failed =>
         \A f \in updTree : f \in todo \/ card[f] = ver
    /\ pc \in {"drop", "clear"} => \A f \in updTree : card[f] = ver
    \* whatever is no longer in the staging is on the card
    /\ ready \in Version /\ ~RevertPending =>
         \A f \in Payload(ready) : f \in updTree \/ card[f] = ready

LEMMA InitStagingInv == Init => StagingInv
BY VersionAssumption DEF Init, StagingInv, ApplyPC, RevertPC, RevertPending

LEMMA NextStagingInv ==
    TypeInv /\ StagingInv /\ [Next]_vars => StagingInv'
<1> SUFFICES ASSUME TypeInv, StagingInv, [Next]_vars PROVE StagingInv'
  OBVIOUS
<1> USE VersionAssumption, FileAssumption, ReleaseAssumption
    DEF TypeInv, TypeOK, Started, StagingInv, ApplyPC, RevertPC, Content, PC,
        CopyPC, WipePC, staging, rollback, labels, locals, RevertPending,
        SomeUsable, Usable, Payload
<1>1. ASSUME NEW v \in Version, Stage(v) PROVE StagingInv'
  BY <1>1 DEF Stage
<1>2. CASE ArmRevert
  BY <1>2 DEF ArmRevert
<1>3. CASE Reboot
  BY <1>3 DEF Reboot
<1>4. CASE Boot
  BY <1>4 DEF Boot
<1>5. ASSUME NEW v \in Version, BeginRevert(v) PROVE StagingInv'
  BY <1>5 DEF BeginRevert
<1>6. CASE DiscardRequest
  BY <1>6 DEF DiscardRequest
<1>7. CASE NothingStaged
  BY <1>7 DEF NothingStaged, ResetLocals
<1>8. CASE DiscardHalfStaged
  BY <1>8 DEF DiscardHalfStaged, ResetLocals
<1>9. CASE BeginApply
  BY <1>9 DEF BeginApply
<1>10. CASE Strip
  BY <1>10 DEF Strip, StripTo, DeprecatedHere
<1>11. CASE MakeSet
  BY <1>11 DEF MakeSet
<1>12. ASSUME NEW f \in File, MirrorFile(f) PROVE StagingInv'
  BY <1>12 DEF MirrorFile
<1>13. CASE MirrorFails
  BY <1>13 DEF MirrorFails
<1>14. CASE MirrorDone
  BY <1>14 DEF MirrorDone
<1>15. CASE WriteMarker
  BY <1>15 DEF WriteMarker
<1>16. ASSUME NEW f \in File, CopyFile(f) PROVE StagingInv'
  BY <1>16 DEF CopyFile, Source, CopyPC
<1>17. ASSUME NEW f \in File, CopyFails(f) PROVE StagingInv'
  BY <1>17 DEF CopyFails, CopyPC
<1>18. CASE KeepForNextBoot
  BY <1>18 DEF KeepForNextBoot, CopyPC, ResetLocals
<1>19. CASE OverlayDone
  BY <1>19 DEF OverlayDone, FinishOverlay
<1>20. ASSUME NEW f \in File, DropFile(f) PROVE StagingInv'
  BY <1>20 DEF DropFile
<1>21. CASE DropDone
  BY <1>21 DEF DropDone
<1>22. ASSUME NEW f \in File, ClearFile(f) PROVE StagingInv'
  BY <1>22 DEF ClearFile
<1>23. CASE ClearDir
  BY <1>23 DEF ClearDir
<1>24. CASE ClearReady
  BY <1>24 DEF ClearReady
<1>25. CASE WriteApplied
  BY <1>25 DEF WriteApplied
<1>26. CASE StampVersion
  BY <1>26 DEF StampVersion, ResetLocals
<1>27. ASSUME NEW v \in Version, NEW f \in File, WipeFile(v, f) PROVE StagingInv'
  BY <1>27 DEF WipeFile, WipePC
<1>28. ASSUME NEW v \in Version, WipeDir(v) PROVE StagingInv'
  BY <1>28 DEF WipeDir, WipePC
<1>29. ASSUME NEW v \in Version, WipeFrom(v) PROVE StagingInv'
  BY <1>29 DEF WipeFrom, WipePC
<1>30. CASE WipeDone
  BY <1>30 DEF WipeDone, FinishWipe, WipePC, ResetLocals
<1>31. CASE RevertDone
  BY <1>31 DEF RevertDone, FinishRevertCopy
<1>32. CASE RevertStamp
  BY <1>32 DEF RevertStamp
<1>33. CASE RevertApplied
  BY <1>33 DEF RevertApplied
<1>34. CASE Yank
  BY <1>34 DEF Yank, TearCopy, TearMarker, TearApplied, ResetLocals
<1>35. CASE UNCHANGED vars
  BY <1>35 DEF vars
<1> QED
  BY <1>1, <1>2, <1>3, <1>4, <1>5, <1>6, <1>7, <1>8, <1>9, <1>10, <1>11,
     <1>12, <1>13, <1>14, <1>15, <1>16, <1>17, <1>18, <1>19, <1>20,
     <1>21, <1>22, <1>23, <1>24, <1>25, <1>26, <1>27, <1>28, <1>29,
     <1>30, <1>31, <1>32, <1>33, <1>34, <1>35
  DEF Next, Script, Fault, Live, Decide, Apply, Remove, Revert

\* The staging goes away only when its payload is on the card, or in a revert.
THEOREM StagingOutlivesTheOverlay == Spec => StagingOutlivesOverlay
<1>1. TypeInv /\ StagingInv /\ [Next]_vars =>
        [ready # NoVersion /\ ready' = NoVersion =>
           request \/ \A f \in Payload(ready) : card[f] = ready]_vars
  <2> SUFFICES ASSUME TypeInv, StagingInv, Next,
                      ready # NoVersion, ready' = NoVersion, ~request
               PROVE \A f \in Payload(ready) : card[f] = ready
    OBVIOUS
  <2>1. DiscardHalfStaged \/ ClearReady
    BY VersionAssumption
    DEF Next, Script, Fault, Live, Decide, Apply, Remove, Revert, Stage,
        ArmRevert, Reboot, Boot, BeginRevert, DiscardRequest, NothingStaged,
        BeginApply, Strip, StripTo, MakeSet, MirrorFile, MirrorFails,
        MirrorDone, WriteMarker, CopyFile, CopyFails, KeepForNextBoot,
        OverlayDone, FinishOverlay, DropFile, DropDone, ClearFile, ClearDir,
        WriteApplied, StampVersion, WipeFile, WipeDir, WipeFrom, WipeDone,
        FinishWipe, RevertDone, FinishRevertCopy, RevertStamp, RevertApplied,
        Yank, staging
  <2>2. updTree = {}
    BY <2>1 DEF DiscardHalfStaged, ClearReady, StagingInv
  <2> QED
    BY <2>2 DEF StagingInv, RevertPending, TypeInv, TypeOK
<1>2. Spec => []StagingInv
  BY InitStagingInv, NextStagingInv, TypeInvariant, PTL DEF Spec
<1> QED
  BY <1>1, <1>2, TypeInvariant, PTL DEF Spec, StagingOutlivesOverlay

LEMMA StagingInvariant == Spec => []StagingInv
BY InitStagingInv, NextStagingInv, TypeInvariant, PTL DEF Spec

-----------------------------------------------------------------------------
(* Layer 4: the rollback sets, when mirroring a file never fails.           *)

\* One release, whole, is on the card <c>.
Whole(c) == \E v \in Version : \A f \in Payload(v) : c[f] = v

\* Nothing of the staged release has been overlaid yet.
Untouched == ready \in Version /\ ~Usable(ready) /\ ~RevertPending

\* What an overlay of <v> with the staging as it is could still destroy.
AtRisk(v) ==
    (updTree \ Launcher) \cup (IF DepList \in updTree THEN Drops[v] ELSE {})

RollbackInv ==
    /\ pc # "wipe_failed"
    /\ \A v \in Version : Whole(base[v])
    /\ \A v, w \in Version : Usable(v) /\ Usable(w) => v = w
    /\ Untouched => card = base[ready]
    \* where the applier stands with its set
    /\ pc \in {"wipe_stage", "mkdir", "mirror", "marker"} => ~Usable(ver)
    /\ pc \in {"mkdir", "mirror", "marker"} => \A v \in Version : rbFrom[v] = NoVersion
    /\ pc \in {"mirror", "marker"} => rbDir[ver]
    /\ pc \in {"overlay", "drop", "clear"} => Usable(ver)
    \* the mirror being built
    /\ pc = "mkdir" => Mirrored(ver) = {}
    /\ pc \in {"mirror", "marker"} =>
         \A f \in File :
           /\ rbTree[ver][f] \in {NoFile, card[f]}
           /\ f \in AtRisk(ver) /\ card[f] # NoFile =>
                rbTree[ver][f] = card[f] \/ (pc = "mirror" /\ f \in todo)
    /\ pc \in {"wipe_stage", "mkdir", "mirror", "marker"} =>
         dep = {f \in (IF DepList \in updTree THEN Drops[ver] ELSE {}) : card[f] # NoFile}
    \* a complete mirror
    /\ \A v \in Version : Usable(v) =>
         \A f \in File : rbTree[v][f] \in {NoFile, base[v][f]}
    /\ ready \in Version /\ Usable(ready) =>
         \A f \in AtRisk(ready) :
           base[ready][f] # NoFile => rbTree[ready][f] = base[ready][f]
    /\ pc \in {"overlay", "drop"} => dep \subseteq AtRisk(ver)
    \* restoring it gives back the card, but for an older set being removed
    /\ \A v \in Version :
         Usable(v) /\ ~(ready \in Version /\ ready # v /\ ~request /\ pc # "live")
           => RestoresPreUpdateCard(v)
    \* the staging is consumed only after a mirror was taken
    /\ ready \in Version /\ ~updDir /\ ~RevertPending => Usable(ready)
    \* nothing staged, no revert pending
    /\ ready = NoVersion /\ ~RevertPending =>
         /\ Whole(card)
         /\ \A v \in Version : Usable(v) => card[Engine] = v
    \* the revert
    /\ pc = "revert" => todo \subseteq Mirrored(ver)
    /\ pc = "revert" /\ ~failed =>
         \A f \in Mirrored(ver) : f \in todo \/ card[f] = rbTree[ver][f]
    /\ pc \in {"revstamp", "revapplied", "revclear", "wipe_revert"} =>
         \A f \in File : base[ver][f] # NoFile => card[f] = base[ver][f]
    /\ pc = "wipe_revert" => \A v \in Version : Usable(v) => v = ver

LEMMA InitRollbackInv == Init => RollbackInv
<1> SUFFICES ASSUME Init PROVE RollbackInv
  OBVIOUS
<1> USE VersionAssumption, FileAssumption, ReleaseAssumption
<1>1. Whole(BirthCard)
  BY DEF Whole, BirthCard, Payload
<1>2. \A v \in Version : base[v] = BirthCard /\ ~Usable(v)
  BY DEF Init, Usable
<1>3. ~Untouched /\ card = BirthCard
  BY DEF Init, Untouched
<1> QED
  BY <1>1, <1>2, <1>3 DEF Init, RollbackInv

LEMMA NextRollbackInv ==
    ASSUME "mirror" \notin Faults,
           TypeInv, LauncherInv, StagingInv, RollbackInv, [Next]_vars
    PROVE  RollbackInv'
<1> USE VersionAssumption, FileAssumption, ReleaseAssumption
    DEF TypeInv, TypeOK, Started, LauncherInv, StagingInv, RollbackInv, ApplyPC, RevertPC,
        Content, PC, CopyPC, WipePC, staging, rollback, labels, locals,
        RevertPending, SomeUsable, Usable, Payload, Whole, Untouched, AtRisk,
        Mirrored, RestoresPreUpdateCard
<1>1. ASSUME NEW v \in Version, Stage(v) PROVE RollbackInv'
  BY <1>1 DEF Stage
<1>2. CASE ArmRevert
  BY <1>2 DEF ArmRevert
<1>3. CASE Reboot
  BY <1>3 DEF Reboot
<1>4. CASE Boot
  BY <1>4 DEF Boot
<1>5. ASSUME NEW v \in Version, BeginRevert(v) PROVE RollbackInv'
  BY <1>5 DEF BeginRevert
<1>6. CASE DiscardRequest
  BY <1>6 DEF DiscardRequest
<1>7. CASE NothingStaged
  BY <1>7 DEF NothingStaged, ResetLocals
<1>8. CASE DiscardHalfStaged
  BY <1>8 DEF DiscardHalfStaged, ResetLocals
<1>9. CASE BeginApply
  BY <1>9 DEF BeginApply
<1>10. CASE Strip
  BY <1>10 DEF Strip, StripTo, DeprecatedHere
<1>11. CASE MakeSet
  BY <1>11 DEF MakeSet
<1>12. ASSUME NEW f \in File, MirrorFile(f) PROVE RollbackInv'
  BY <1>12 DEF MirrorFile
<1>13. CASE MirrorFails
  BY <1>13 DEF MirrorFails
<1>14. CASE MirrorDone
  BY <1>14 DEF MirrorDone
<1>15. CASE WriteMarker
  BY <1>15 DEF WriteMarker
<1>16. ASSUME NEW f \in File, CopyFile(f) PROVE RollbackInv'
  BY <1>16 DEF CopyFile, Source, CopyPC
<1>17. ASSUME NEW f \in File, CopyFails(f) PROVE RollbackInv'
  BY <1>17 DEF CopyFails, CopyPC
<1>18. CASE KeepForNextBoot
  BY <1>18 DEF KeepForNextBoot, CopyPC, ResetLocals
<1>19. CASE OverlayDone
  BY <1>19 DEF OverlayDone, FinishOverlay
<1>20. ASSUME NEW f \in File, DropFile(f) PROVE RollbackInv'
  BY <1>20 DEF DropFile
<1>21. CASE DropDone
  BY <1>21 DEF DropDone
<1>22. ASSUME NEW f \in File, ClearFile(f) PROVE RollbackInv'
  BY <1>22 DEF ClearFile
<1>23. CASE ClearDir
  BY <1>23 DEF ClearDir
<1>24. CASE ClearReady
  BY <1>24 DEF ClearReady
<1>25. CASE WriteApplied
  BY <1>25 DEF WriteApplied
<1>26. CASE StampVersion
  BY <1>26 DEF StampVersion, ResetLocals
<1>27. ASSUME NEW v \in Version, NEW f \in File, WipeFile(v, f) PROVE RollbackInv'
  BY <1>27 DEF WipeFile, WipePC
<1>28. ASSUME NEW v \in Version, WipeDir(v) PROVE RollbackInv'
  BY <1>28 DEF WipeDir, WipePC
<1>29. ASSUME NEW v \in Version, WipeFrom(v) PROVE RollbackInv'
  BY <1>29 DEF WipeFrom, WipePC
<1>30. CASE WipeDone
  BY <1>30 DEF WipeDone, AllWiped, FinishWipe, WipePC, ResetLocals
<1>31. CASE RevertDone
  BY <1>31 DEF RevertDone, FinishRevertCopy
<1>32. CASE RevertStamp
  BY <1>32 DEF RevertStamp
<1>33. CASE RevertApplied
  BY <1>33 DEF RevertApplied
<1>34. CASE Yank
  <2> /\ pc' = "boot" /\ ResetLocals
      /\ UNCHANGED <<staging, rbDir, rbTree, request, stamp, base>>
    BY <1>34 DEF Yank
  <2>1. CASE UNCHANGED card /\ UNCHANGED rbFrom
    BY <2>1, <1>34 DEF Yank, ResetLocals
  <2>2. CASE UNCHANGED card /\ pc = "marker"
    BY <2>2, <1>34 DEF Yank, TearMarker, ResetLocals
  <2>3. ASSUME NEW f \in todo, card' = [card EXCEPT ![f] = Torn],
               UNCHANGED rbFrom, pc = "overlay"
        PROVE  RollbackInv'
    BY <2>3, <1>34 DEF Yank, ResetLocals
  <2>4. ASSUME NEW f \in todo, card' = [card EXCEPT ![f] = Torn],
               UNCHANGED rbFrom, pc = "revert"
        PROVE  RollbackInv'
    BY <2>4, <1>34 DEF Yank, ResetLocals
  <2> QED
    BY <2>1, <2>2, <2>3, <2>4, <1>34 DEF Yank, TearCopy, TearMarker
<1>35. CASE UNCHANGED vars
  BY <1>35 DEF vars
<1> QED
  BY <1>1, <1>2, <1>3, <1>4, <1>5, <1>6, <1>7, <1>8, <1>9, <1>10, <1>11,
     <1>12, <1>13, <1>14, <1>15, <1>16, <1>17, <1>18, <1>19, <1>20,
     <1>21, <1>22, <1>23, <1>24, <1>25, <1>26, <1>27, <1>28, <1>29,
     <1>30, <1>31, <1>32, <1>33, <1>34, <1>35
  DEF Next, Script, Fault, Live, Decide, Apply, Remove, Revert

LEMMA RollbackInvariant ==
    ASSUME "mirror" \notin Faults
    PROVE  Spec => []RollbackInv
<1>1. Spec => []LauncherInv
  BY InitLauncherInv, NextLauncherInv, TypeInvariant, PTL DEF Spec
<1>2. TypeInv /\ LauncherInv /\ StagingInv /\ RollbackInv /\ [Next]_vars
        => RollbackInv'
  BY NextRollbackInv
<1> QED
  BY <1>1, <1>2, InitRollbackInv, TypeInvariant, StagingInvariant, PTL DEF Spec

\* The revert offered is always to the true pre-update card, under power loss
\* and copy failures alike, as long as no mirror write ever fails.
THEOREM RevertOfferIsSound ==
    ASSUME "mirror" \notin Faults
    PROVE  Spec => []RevertOfferSound
<1>1. RollbackInv => RevertOfferSound
  BY DEF RollbackInv, RevertOfferSound
<1> QED
  BY <1>1, RollbackInvariant, PTL

\* A revert whose copy succeeded, over any number of interrupted boots, has
\* restored every file of the pre-update card.
THEOREM RevertRestoresTheCard ==
    ASSUME "mirror" \notin Faults
    PROVE  Spec => []RevertLeavesPreUpdateCard
<1>1. RollbackInv => RevertLeavesPreUpdateCard
  BY DEF RollbackInv, RevertLeavesPreUpdateCard
<1> QED
  BY <1>1, RollbackInvariant, PTL

\* With nothing staged and no revert pending the card is one whole release.
THEOREM IdleCardIsWhole ==
    ASSUME "mirror" \notin Faults
    PROVE  Spec => []CoherentWhenIdle
<1>1. RollbackInv => CoherentWhenIdle
  BY DEF RollbackInv, CoherentWhenIdle, RevertPending, Whole
<1> QED
  BY <1>1, RollbackInvariant, PTL

\* There is never a choice between two rollback sets.
THEOREM OneRollbackSet ==
    ASSUME "mirror" \notin Faults
    PROVE  Spec => []AtMostOneSet
<1>1. RollbackInv => AtMostOneSet
  BY DEF RollbackInv, AtMostOneSet
<1> QED
  BY <1>1, RollbackInvariant, PTL
=============================================================================
