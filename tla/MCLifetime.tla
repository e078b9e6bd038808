----------------------------- MODULE MCLifetime -----------------------------
(* Instances of Lifetime for TLC. *)
EXTENDS Lifetime, TLC

CONSTANTS t1, t2

(* Models and tensors are numbers, in the order they are loaded and allocated. *)
Two == 1..2
=============================================================================
