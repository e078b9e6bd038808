------------------------ MODULE MCGuaranteeReplay --------------------------
(* An instance of GuaranteeReplay for TLC: one buffer, one weight and two gates. *)
EXTENDS GuaranteeReplay

CONSTANTS x, w

Plan(mode, check, integrity) ==
    [mode |-> mode, check |-> check, integrity |-> integrity, calibrated |-> TRUE, hooked |-> TRUE]
MCSettings ==
    {Plan("guarantee", "output", "checksum"), Plan("structure", "static", "epoch"),
     Plan("structure_writes", "static", "writes"), Plan("structure_inkernel", "static", "inkernel")}
=============================================================================
