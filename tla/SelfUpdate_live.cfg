SPECIFICATION FairSpec
CONSTANTS
    Version <- OneVersion
    Birth = 0
    File <- FewFiles
    Born <- FewFiles
    Ships <- FewShips
    Drops <- NoDrops
    Engine = "engine"
    Applier = "applier"
    DepList = "list"
    Launcher = {"minui"}
    NoFile = NoFile
    Torn = Torn
    NoVersion = NoVersion
    Unknown = Unknown
    Faults = {"yank", "mirror"}
PROPERTY StagedUpdateLands
PROPERTY ArmedRevertLands
