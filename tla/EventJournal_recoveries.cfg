SPECIFICATION Spec
CONSTANTS
    s1 = s1
    s2 = s2
    a = a
    d = d
    m = m
    NoRunner = NoRunner
    Stages <- TwoStages
    Cases <- TwoStageCases
    StageOf <- TwoStageOf
    ModelStates <- FailedState
    Sustained = {s2}
    Retryable <- TwoStages
    Failures = {"failed"}
    MaxAttempts = 2
INVARIANTS
    NoUnpreparedCase
    CompleteCaseIsMeasured
PROPERTIES
    ImplementsLedger
CHECK_DEADLOCK FALSE
