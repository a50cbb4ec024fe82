SPECIFICATION FairSpec
CONSTANTS
    Ui = "ui"
    Daemon = "syncd"
    Free = "free"
    Platform = {"miyoomini", "my355"}
    Cooldown = 2
PROPERTY ReenumSpaced
PROPERTY Recovers
