SPECIFICATION Spec
CONSTANTS
    Version <- MCVersion
    Birth = 0
    File <- MCFile
    Born <- MCBorn
    Ships <- MCShips
    Drops <- MCDrops
    Engine = "engine"
    Applier = "applier"
    DepList = "list"
    Launcher = {"minui"}
    NoFile = NoFile
    Torn = Torn
    NoVersion = NoVersion
    Unknown = Unknown
    Faults = {"yank", "copy"}
INVARIANT RevertOfferSound
INVARIANT RevertLeavesPreUpdateCard
INVARIANT CoherentWhenIdle
INVARIANT LauncherUntouched
INVARIANT AtMostOneSet
PROPERTY StagingOutlivesOverlay
