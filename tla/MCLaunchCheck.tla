-------------------------- MODULE MCLaunchCheck --------------------------
(* Four value storages, two of them over one memory and two that start at one  *)
(* byte, and a scale's that every issue fills again.                           *)
EXTENDS LaunchCheck, TLC
CONSTANTS v1, v2, v3, v4, c
MCExtent == v1 :> [start |-> 0, end |-> 2] @@ v2 :> [start |-> 2, end |-> 4]
            @@ v3 :> [start |-> 3, end |-> 5] @@ c :> [start |-> 5, end |-> 6]
            @@ v4 :> [start |-> 0, end |-> 1]
==========================================================================
