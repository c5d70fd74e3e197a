SPECIFICATION Spec
CONSTANTS
    parent = parent
    runner = runner
    job = job
    case = case
    first = first
    second = second
    none = none
    Writers = {parent, runner}
    Entities = {job, case, first, second}
    Reopenable = {job, case}
    NoParent = none
    ParentOf <- MCParentOf
    BatchesOf <- MCBatchesOf
    Overlap = FALSE
    MaxEvents = 15
INVARIANTS
    ChainIsIntact
PROPERTIES
    ImplementsAtomicLog
