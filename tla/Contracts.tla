----------------------------- MODULE Contracts ------------------------------
(***************************************************************************)
(* How entail compares what was declared with what a consumer uses          *)
(* (contracts.py, sources.py, policies.py), for facts that are declared and  *)
(* choices that can be read: facts only inferred or defaulted, observations  *)
(* of the data and choices made by the user are left out.                    *)
(*                                                                         *)
(* A value is a function from fields to what they hold, None where it leaves *)
(* a field open; a fact is a value and the kind of source that states it.    *)
(***************************************************************************)
EXTENDS Naturals, Sequences

CONSTANTS
    None,       \* a field left open
    Precedence  \* DEFAULT_PRECEDENCE: kinds of sources, best first

Fact(kind, value) == [kind |-> kind, value |-> value]

Filled(v) == {f \in DOMAIN v : v[f] # None}

(* Two declarations do not contradict each other; a choice honours one.       *)
Compatible(a, b) == \A f \in Filled(a) \cap Filled(b) : a[f] = b[f]
Agrees(declared, chosen) == \A f \in Filled(declared) : chosen[f] = declared[f]

(* The best of the candidates numbered in S: by rank, then in their order.     *)
Rank(fact) ==
    IF \E i \in DOMAIN Precedence : Precedence[i] = fact.kind
    THEN CHOOSE i \in DOMAIN Precedence : Precedence[i] = fact.kind
    ELSE Len(Precedence) + 1
Best(facts, S) ==
    CHOOSE i \in S : \A j \in S :
        Rank(facts[i]) < Rank(facts[j]) \/ (Rank(facts[i]) = Rank(facts[j]) /\ i <= j)

Conflict(facts) == \E i, j \in DOMAIN facts : ~Compatible(facts[i].value, facts[j].value)

(* _combine: each field from the best candidate that fills it.                 *)
Combined(facts) ==
    [f \in DOMAIN facts[1].value |->
        LET filling == {i \in DOMAIN facts : facts[i].value[f] # None}
        IN  IF filling = {} THEN None ELSE facts[Best(facts, filling)].value[f]]

Pick(facts) ==
    IF Conflict(facts) THEN facts[Best(facts, DOMAIN facts)].value ELSE Combined(facts)

(* decide, under a policy: repairs (on_mismatch), stops (on_broken; debug mode *)
(* is left out) and conflicts (on_source_conflict). `repairable` is whether a  *)
(* resolution applies.                                                        *)
Policies == [repairs : BOOLEAN, stops : BOOLEAN, conflicts : {"record", "stop"}]
Unrepaired(policy) == IF policy.stops THEN "refused" ELSE "broken"

Verdict(facts, chosen, policy, repairable) ==
    IF Conflict(facts) /\ policy.conflicts = "stop" THEN "disagree"
    ELSE IF Agrees(Pick(facts), chosen) THEN "pass"
    ELSE IF policy.repairs /\ repairable THEN "resolved"
    ELSE Unrepaired(policy)

Blocks(verdict) == verdict \in {"disagree", "refused"}
=============================================================================
