\* Two processes of one launch, after another launch or none.
SPECIFICATION FairSpec
CONSTANTS
    a1 = a1
    a2 = a2
    A = A
    B = B
    unread = unread
    layout = layout
    stop = stop
    pass = pass
    Procs = {a1, a2}
    Runs = {A, B}
    Run <- MCRun
    Leftover <- MCLeftover
    Lines = {unread, layout, stop, pass}
    Passes = {pass}
    Blocking = {stop}
    Batches <- MCBatches
    CallBound <- MCOneAgain
    Budget <- MCRough
INVARIANTS SilencedWasSaid StopIsSaid TraceKept
PROPERTIES EveryLineSaid
CHECK_DEADLOCK FALSE
