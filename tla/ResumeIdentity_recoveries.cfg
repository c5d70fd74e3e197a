CONSTANTS
    weights = weights
    runtime = runtime
    old = old
    new = new
    none = none
    first = first
    fork = fork
    p = p
    q = q
    Models <- MCModels
    Runtime = runtime
    Bytes <- MCBytes
    Absent = none
    Jobs <- MCJobs
    NoJob = NoJob
    Procs <- MCProcs
    MaxStage = 2
    KeepStamps = FALSE
    MaxStamp = 2
    MaxStarts = 2
SYMMETRY Interchangeable
SPECIFICATION Spec
INVARIANTS
    CacheEntriesAreTrue
    MeasuredAsIdentified
CHECK_DEADLOCK FALSE
