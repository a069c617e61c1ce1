CONSTANTS
    k1 = k1
    k2 = k2
    k3 = k3
    k4 = k4
    NoCommitment = NoCommitment
    Bad = Bad
    Commitments <- MCCommitments
    Times = {1, 2, 3}
    Nums = {0, 1, 2, 3}
    PubInputs <- AliasPubInputs
    UnpubInputs <- AliasUnpubInputs
    AddInputs <- NoAddInputs
    MaxSpare = 1
SPECIFICATION Spec
CHECK_DEADLOCK FALSE
INVARIANT
    PublishedReported
