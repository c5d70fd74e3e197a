CONSTANTS
    Plans <- MCPlans
    Runs = 2
    CrashRetryMax = 1
    SoftFloor = 2
    MaxSessions = 2
SPECIFICATION Spec
INVARIANTS
    MissingIsExplained
    CrashersAreLeftAlone
    ResumeOutlivesItsModels
PROPERTY
    StageEnds
