--------------------------- MODULE MCKernelTypes ----------------------------
(* An instance of KernelTypes for TLC: every element is another prime.      *)
EXTENDS KernelTypes

Prime == <<2, 3, 5, 7, 11, 13, 17, 19, 23, 29, 31, 37, 41, 43, 47, 53, 59, 61, 67, 71, 73, 79, 83, 89, 97, 101,
           103, 107, 109, 113, 127, 131, 137, 139, 149, 151>>
MCAs == [x \in Tokens \X Groups |-> Prime[1 + 2 * x[1] + x[2]]]
MCB == [k \in Hidden |-> Prime[9 + k]]
MCA == [x \in Tokens \X Hidden |-> Prime[13 + 4 * x[1] + x[2]]]
MCXs == [x \in Tokens \X Groups |-> Prime[29 + 2 * x[1] + x[2]]]
=============================================================================
