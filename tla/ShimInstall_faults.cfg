SPECIFICATION Spec
CONSTANTS
    Kinds <- AllKinds
    Updates = TRUE
    Faults = {"yank", "tear", "full"}
    NoFile = NoFile
    Stock = Stock
    Shim = Shim
    Torn = Torn
INVARIANT ApplierBeforeDaemon
INVARIANT HooksOnceAndAlone
PROPERTY ForeignLinesKept
