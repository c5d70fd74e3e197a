\* A stage of each kind of workload with a pause, the thread and a reader.
SPECIFICATION Spec
CONSTANTS
    Stages <- MCStages
    MaxCases = 2
    MaxCalls = 2
    MaxTicks = 1
INVARIANTS TimelineIsOrdered MarkedPausesAreNotIntegrated CallsAreCovered
PROPERTIES ReaderGoes
CHECK_DEADLOCK FALSE
