SPECIFICATION FairSpec
CONSTANTS
    MaxCommits = 2
    BeatPeriod = 1
    HeartbeatTimeout = 3
    GracefulTimeout = 1
    ExportTime = 1
    MaxInterrupts = 1
    Faults <- AllFaults
INVARIANTS
    RunnerIsGone
    SuccessIsSeen
    ReturnedStageIsExported
    OnlySilenceIsPunished
    SilenceIsBounded
PROPERTIES
    SupervisionEnds
CHECK_DEADLOCK FALSE
