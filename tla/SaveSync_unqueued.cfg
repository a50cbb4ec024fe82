SPECIFICATION Spec
CONSTANTS
    Game <- TwoGames
    NoGame = NoGame
    Reconcile = TRUE
    Faults = {}
PROPERTY LandsOrIsQueued
