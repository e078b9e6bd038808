\* Two threads load, assemble and run two models.
SPECIFICATION FairSpec
CONSTANTS
    t1 = t1
    t2 = t2
    Threads = {t1, t2}
    Models <- Two
    Tensors <- Two
    AssemblyBound = 1
    LateBound = 1
INVARIANTS OneThreadMarks ReadsReported ReportedWasRead MarkHarmless
PROPERTIES ReportedIsHeld HeldIsSettled
CHECK_DEADLOCK FALSE
