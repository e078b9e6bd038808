----------------------------- MODULE MCSafePath -----------------------------
(* Instances of SafePath for TLC: the table of data/safe_mode.json, small   *)
(* sets of faults and command lines, and budgets of disturbances.           *)
EXTENDS SafePath, Sequences, TLC

CONSTANTS p1, p2, k1, outside, none

Spec_ == "speculative_decoding"
Graphs_ == "cuda_graphs"
Kernels_ == "custom_kernels"
Prefix_ == "prefix_cache"

MCFeatures == {Spec_, Graphs_, Kernels_, Prefix_}
MCFewFeatures == {Spec_, Graphs_}
MCPairs == {"decode_prefill", "alone_batched", "cold_cache"}
MCFewPairs == {"decode_prefill"}

(* The table's lists name the features in this order. *)
MCOrder == <<Spec_, Graphs_, Kernels_, Prefix_>>
MCFirst ==
    [S \in (SUBSET MCFeatures) \ {{}} |->
        MCOrder[CHOOSE i \in 1 .. 4 :
                  MCOrder[i] \in S /\ \A j \in 1 .. i - 1 : MCOrder[j] \notin S]]

Points(x) == CASE x = "decode_prefill" -> {Spec_, Graphs_}
               [] x = "alone_batched" -> {Graphs_, Kernels_}
               [] x = "cold_cache" -> {Prefix_}
MCCandidates == [x \in Pairs |-> Points(x) \cap Features]
MCNeeds == [x \in Pairs |-> IF x = "cold_cache" THEN {Prefix_} ELSE {}]

(* One cause that shows in some of the pairs, or several that show in one. *)
Causes == {{c} : c \in Features \cup {Outside}}
MCSingle == {[x \in Pairs |-> IF x \in S THEN C ELSE {}] : S \in SUBSET Pairs, C \in Causes}
MCFaults == MCSingle \cup
    {[x \in Pairs |-> IF x = "decode_prefill" THEN C ELSE {}] : C \in SUBSET Features}

MCSymmetry == Permutations(Procs)

MCFewOn == {MCFewFeatures}
MCSomeOn == {MCFeatures, MCFeatures \ {Spec_}}

Often(n, kinds) == [d \in Disturbances |-> IF d \in kinds THEN n ELSE 0]
MCSolo == Often(1, {"user", "kill", "refuse", "disk"})
MCUser == Often(1, {"user"})
MCCrowd == Often(1, {"kill", "mode", "fail"})
=============================================================================
