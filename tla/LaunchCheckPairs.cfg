\* The same storages but v4; a launch whose verdict is kept from an earlier one.
SPECIFICATION Spec
CONSTANTS
    v1 = v1
    v2 = v2
    v3 = v3
    v4 = v4
    c = c
    Values = {v1, v2, v3}
    Scales = {c}
    Extent <- MCExtent
    Kernels = {"dequant"}
    Policies = {"report"}
    MaxStamp = 5
    MaxKept = 1
    MaxSteps = 1
INVARIANTS KeptPairsAreOwn
CHECK_DEADLOCK FALSE
