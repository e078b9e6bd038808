\* Four values, two of them over one memory and two that start at one byte, and one scale.
SPECIFICATION Spec
CONSTANTS
    v1 = v1
    v2 = v2
    v3 = v3
    v4 = v4
    c = c
    Values = {v1, v2, v3, v4}
    Scales = {c}
    Extent <- MCExtent
    Kernels = {"dequant", "fill", "blind"}
    Policies = {"report", "stop"}
    MaxStamp = 4
    MaxKept = 1
    MaxSteps = 2
INVARIANTS OverlapKnown SpoiledIsSaid OwnScaleProven NoFalseAlarm
CHECK_DEADLOCK FALSE
