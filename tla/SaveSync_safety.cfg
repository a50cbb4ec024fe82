SPECIFICATION FairSpec
CONSTANTS
    Game <- TwoGames
    NoGame = NoGame
    Reconcile = TRUE
    Faults = {"power", "timeout"}
INVARIANT OnlyKnownMisses
INVARIANT LockFollowsHolder
PROPERTY ChargerUploadsAll
PROPERTY BatteryFlushesQueue
