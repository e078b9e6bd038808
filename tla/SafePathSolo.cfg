\* One process after another: the search keeps its promise.
SPECIFICATION FairSpec
CONSTANTS
    p1 = p1
    p2 = p2
    k1 = k1
    outside = outside
    none = none
    Procs = {p1}
    Keys = {k1}
    Features <- MCFeatures
    Pairs <- MCPairs
    CandidatesOf <- MCCandidates
    Needs <- MCNeeds
    First <- MCFirst
    Outside = outside
    Faults <- MCFaults
    Modes = {"auto"}
    Commands <- MCSomeOn
    Stops = FALSE
    Budget <- MCSolo
    NoCtx = none
INVARIANTS ReportedOnce
PROPERTIES KeepsPromise Settles CauseEndsOff
