---------------------------- MODULE MCGuarantee -----------------------------
(* An instance of Guarantee for TLC: one buffer and one weight, under every  *)
(* mode and under plans the gate must refuse.                                *)
EXTENDS Guarantee

CONSTANTS x, w

Plan(mode, check, integrity, calibrated, hooked) ==
    [mode |-> mode, check |-> check, integrity |-> integrity, calibrated |-> calibrated, hooked |-> hooked]
Frozen == Plan("guarantee", "output", "checksum", TRUE, TRUE)
MCSettings ==
    {Frozen, [Frozen EXCEPT !.integrity = "epoch"],
     Plan("structure", "static", "epoch", TRUE, TRUE),
     Plan("structure_writes", "static", "writes", TRUE, TRUE),
     Plan("structure_inkernel", "static", "inkernel", TRUE, TRUE)}
=============================================================================
