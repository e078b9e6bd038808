----------------------------- MODULE MCSaidOnce -----------------------------
(* Instances of SaidOnce for TLC: two lines that may be said again, one     *)
(* that stops the run and a pass, in one launch.                          *)
EXTENDS SaidOnce

CONSTANTS a1, a2, A, B, unread, layout, stop, pass

MCRun == [p \in Procs |-> A]
MCLeftover == {<<>>, <<B, unread, layout>>}
Owned(decisions) == [decisions |-> decisions, owned |-> TRUE]
Free(decisions) == [decisions |-> decisions, owned |-> FALSE]
MCBatches == {Free(<<unread>>), Owned(<<pass, layout, stop>>)}
MCOneAgain == [p \in Procs |-> IF p = a1 THEN 2 ELSE 1]

Often(kills, disks) == [d \in Disturbances |-> IF d = "kill" THEN kills ELSE disks]
MCRough == Often(1, 1)
=============================================================================
