\* The user drops the optimization the search would turn off next.
SPECIFICATION FairSpec
CONSTANTS
    p1 = p1
    p2 = p2
    k1 = k1
    outside = outside
    none = none
    Procs = {p1}
    Keys = {k1}
    Features <- MCFeatures
    Pairs <- MCPairs
    CandidatesOf <- MCCandidates
    Needs <- MCNeeds
    First <- MCFirst
    Outside = outside
    Faults <- MCFaults
    Modes = {"auto"}
    Commands <- MCSomeOn
    Stops = FALSE
    Budget <- MCUser
    NoCtx = none
PROPERTY SearchEnds
