\* Two processes at once, in both safety modes, with kills and lost saves.
SPECIFICATION Spec
CONSTANTS
    p1 = p1
    p2 = p2
    k1 = k1
    outside = outside
    none = none
    Procs = {p1, p2}
    Keys = {k1}
    Features <- MCFewFeatures
    Pairs <- MCFewPairs
    CandidatesOf <- MCCandidates
    Needs <- MCNeeds
    First <- MCFirst
    Outside = outside
    Faults <- MCFaults
    Modes = {"auto", "all", "off"}
    Commands <- MCFewOn
    Stops = FALSE
    Budget <- MCCrowd
    NoCtx = none
INVARIANTS StoreWellFormed OneOffAtATime FoundIsCause SaysAreTrue
SYMMETRY MCSymmetry
