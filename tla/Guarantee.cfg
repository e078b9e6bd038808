\* Up to three issues, one unplanned write, one error and one tensor collected.
SPECIFICATION FairSpec
CONSTANTS
    x = x
    w = w
    Unissued = Unissued
    Buffers = {x}
    Weights = {w}
    Settings <- MCSettings
    Faults = {"declaration", "scales"}
    MaxIssues = 3
    MaxTrouble = 2
INVARIANTS HandedOnIsRight NoFalseRefusal GuardedUntilConsumed
PROPERTIES KeepsPromise
CHECK_DEADLOCK FALSE
