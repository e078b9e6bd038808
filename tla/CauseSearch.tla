---------------------------- MODULE CauseSearch ----------------------------
(***************************************************************************)
(* What the selective safe path promises (safe_mode.py's docstring): when   *)
(* an engine's own paths disagree, the optimizations the disagreement       *)
(* points at become the configuration's candidates; each start rules out    *)
(* the first that is left, until the paths agree without it or none is left.*)
(* A found cause may be reopened, when the paths disagree without it too.   *)
(***************************************************************************)
EXTENDS FiniteSets

CONSTANTS
    Keys,       \* engine configurations
    Features,   \* optimizations that may be turned off
    First       \* nonempty set of candidates -> the one that is tried first

VARIABLES verdict, candidates, untried, blamed

vars == <<verdict, candidates, untried, blamed>>

Init ==
    /\ verdict = [k \in Keys |-> "none"]
    /\ candidates = [k \in Keys |-> {}]
    /\ untried = [k \in Keys |-> {}]
    /\ blamed = [k \in Keys |-> {}]

(* The verdict on what is left: searching while something is. *)
Continue(k, left) ==
    /\ untried' = [untried EXCEPT ![k] = left]
    /\ blamed' = [blamed EXCEPT ![k] = {}]
    /\ verdict' = [verdict EXCEPT ![k] = IF left = {} THEN "outside" ELSE "searching"]

(* The paths disagreed for the first time. *)
Suspect(k) ==
    /\ verdict[k] = "none"
    /\ \E C \in SUBSET Features :
        /\ candidates' = [candidates EXCEPT ![k] = C]
        /\ Continue(k, C)

(* The paths disagree with the first candidate off too. *)
RuleOut(k) ==
    /\ verdict[k] = "searching"
    /\ Continue(k, untried[k] \ {First[untried[k]]})
    /\ UNCHANGED candidates

(* The paths agree with the first candidate off. *)
Confirm(k) ==
    /\ verdict[k] = "searching"
    /\ verdict' = [verdict EXCEPT ![k] = "found"]
    /\ blamed' = [blamed EXCEPT ![k] = {First[untried[k]]}]
    /\ UNCHANGED <<candidates, untried>>

(* The paths disagree although what was found is off: search the others. *)
Reopen(k) ==
    /\ verdict[k] = "found"
    /\ Continue(k, candidates[k] \ blamed[k])
    /\ UNCHANGED candidates

Next == \E k \in Keys : Suspect(k) \/ RuleOut(k) \/ Confirm(k) \/ Reopen(k)

Spec == Init /\ [][Next]_vars
=============================================================================
