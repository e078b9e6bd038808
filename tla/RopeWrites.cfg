\* Up to two writes and one failure inside entail, in a parent and a child.
SPECIFICATION Spec
CONSTANTS
    p1 = p1
    p2 = p2
    a1 = a1
    a2 = a2
    b1 = b1
    t1 = t1
    t2 = t2
    None = None
    Precedence <- MCPrecedence
    Procs = {p1, p2}
    First = p1
    Addresses = {a1, a2, b1}
    Home <- MCHome
    Thetas = {t1, t2}
    InFile <- MCInFile
    Settings <- MCSettings
    MaxWrites = 2
    MaxFaults = 1
INVARIANTS LossIsSaid NoFalseBreak LastWriteHolds
SYMMETRY MCSymmetry
CHECK_DEADLOCK FALSE
