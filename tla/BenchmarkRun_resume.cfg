SPECIFICATION FairTimelySpec
CONSTANTS
    s1 = s1
    s2 = s2
    a = a
    d = d
    NoRunner = NoRunner
    Stages <- TwoStages
    Order <- InOrder
    Cases <- TwoCases
    StageOf <- TwoStageOf
    ModelStates <- NoStates
    Sustained = {}
    Retryable = {s1, s2}
    Failures = {"failed"}
    MaxAttempts = 2
    Faults <- AllFaults
    MaxRecoveries = 2
INVARIANT
    StoppedRunIsResumable
PROPERTY
    RunGetsAnEnd
CHECK_DEADLOCK FALSE
