CONSTANTS
    d1 = d1
    d2 = d2
    Suffixes <- MCSuffixes
    Batches <- AllBatches
SPECIFICATION Spec
CHECK_DEADLOCK FALSE
INVARIANTS
    EveryOpProven
    OnlyValidated
