CONSTANTS
    s1 = s1
    s2 = s2
    i1 = i1
    i2 = i2
    i3 = i3
    r1 = r1
    r2 = r2
    Suffixes <- MCSuffixes
    Ids <- MCIds
    SubmitTypes = {"update", "deactivate"}
    UnpubTypes = {"update"}
    Readers <- OneReader
    MaxPending = 2
    MaxTxns = 3
    MaxFailures = 2
SPECIFICATION Spec
CHECK_DEADLOCK FALSE
INVARIANTS
    TypeOK
    ProcessedPersisted
    CleanedAfterProcess
    OpNeverInvisible
