---------------------------- MODULE MCRopeWrites ----------------------------
(* An instance of RopeWrites for TLC: a parent and a child process.          *)
EXTENDS RopeWrites, TLC

CONSTANTS p1, p2, a1, a2, b1, t1, t2

MCPrecedence == <<"user", "file", "config">>
MCInFile == [scaling |-> "default", theta |-> t1]
MCHome == [a \in Addresses |-> IF a = b1 THEN p2 ELSE p1]
MCSettings == {s \in Policies : s.conflicts = "stop" => s.repairs /\ ~s.stops}
MCSymmetry == Permutations({a1, a2})
=============================================================================
