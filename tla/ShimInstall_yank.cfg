SPECIFICATION FairSpec
CONSTANTS
    Kinds <- AllKinds
    Updates = TRUE
    Faults = {"yank"}
    NoFile = NoFile
    Stock = Stock
    Shim = Shim
    Torn = Torn
PROPERTY GamesKeepLaunching
PROPERTY StockNeverLost
PROPERTY StagedUpdateInstalls
