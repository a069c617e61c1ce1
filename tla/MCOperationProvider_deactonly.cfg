CONSTANTS
    d1 = d1
    d2 = d2
    Suffixes <- MCSuffixes
    Batches <- WellFormedBatches
SPECIFICATION Spec
CHECK_DEADLOCK FALSE
INVARIANT
    BatchChecked
