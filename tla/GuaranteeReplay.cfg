\* One graph of up to two gates with flags, replayed twice around one write, error or
\* collected tensor.
SPECIFICATION ReplaySpec
CONSTANTS
    x = x
    w = w
    Unissued = Unissued
    Buffers = {x}
    Weights = {w}
    Settings <- MCSettings
    Faults = {"scales"}
    MaxIssues = 4
    MaxTrouble = 1
    GraphGates = 2
    MaxGates = 2
    MaxReplays = 2
INVARIANTS ReplayIsRight StopsInTime CountedGatesRan
CHECK_DEADLOCK FALSE
