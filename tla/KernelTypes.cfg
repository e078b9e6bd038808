SPECIFICATION Spec
CONSTANTS
    P = 2
    R = 2
    T = 3
    K = 4
    G = 2
    A <- MCA
    As <- MCAs
    B <- MCB
    Xs <- MCXs
    Fills = {0, 1}
    TileMasks = {"none", "inside", "rest", "one row"}
    MaxFactors = 2
    MaxOps = 10
    MaxOdd = 1
INVARIANTS ProvenIsRight NoFalseViolation
CHECK_DEADLOCK FALSE
