------------------------------ MODULE Handover ------------------------------
(***************************************************************************)
(* What ENTAIL=guarantee promises of one consumer: a call that asks for a   *)
(* product is answered with the right product or refused, a wrong one is    *)
(* never handed on, and no call is left without an answer                   *)
(* (guarantee.gate, its docstring and the one of the module).              *)
(***************************************************************************)
VARIABLE answer    \* what the consumer has: nothing asked, or the answer to its last call

Answers == {"right", "refused"}

Init == answer = "none"

Ask == answer # "waiting" /\ answer' = "waiting"
Answer == answer = "waiting" /\ answer' \in Answers

TurnAway == answer # "waiting" /\ answer' = "refused"

Next == Ask \/ Answer \/ TurnAway
Spec == Init /\ [][Next]_answer /\ WF_answer(Answer)
=============================================================================
