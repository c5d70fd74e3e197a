SPECIFICATION FairSetupSpec
CONSTANTS
    Catalog = {"cat"}
    Custom = {"mine"}
    Drafted = {"cat"}
    Parts <- TwoParts
    RepoFiles <- OneWeight
    Faults = {"interrupt", "kill", "install", "download", "delete", "undo", "registry", "space", "reboot", "window"}
    Hosts <- SomeHosts
    Modes = {"gui", "terminal", "qualification"}
    Plans <- SomePlans
    Overlap = FALSE
    MaxTurns = 2
INVARIANTS
    ReadyMeansReady
    CancelLeavesNoTrace
    NoTagIsStuck
PROPERTIES
    WindowLearns
CHECK_DEADLOCK FALSE
