\* One cache, static or dynamic, under every policy, with engine faults.
SPECIFICATION Spec
CONSTANTS
    Last = 2
    Windowed <- MCWindowed
    Asked <- MCAsked
    Window = 2
    Adds <- MCAdds
    MaxLen = 3
    Policies <- MCPolicies
    Captures <- MCCaptures
    FaultBound = 2
    KeptBound = 1
INVARIANTS LossNoticed NoFalseBreak RoundsAgree OddLayerFound NoSilentStale RecordedOnce
CHECK_DEADLOCK FALSE
