SPECIFICATION FairSpec
CONSTANTS
    Runs = {1, 2}
    Results = {r1, r2}
    Earlier = {r1}
    NoRun = NoRun
    Kinds = {"retry", "fork"}
    MaxInspections = 1
INVARIANTS
    SavedLogIsTheRunsOwn
PROPERTIES
    OnlyItsOwnExitEndsARun
    WindowComesBack
CHECK_DEADLOCK FALSE
