----------------------------- MODULE MCCompliance -----------------------------
(* Compliance with three reasoning elements of unequal size and a record   *)
(* that holds two small ones or a large one, a budget a body can just      *)
(* exhaust, and one candidate of each kind: private, public, and public    *)
(* behind OpenRouter.                                                      *)
EXTENDS Compliance

CONSTANTS small1, small2, large

Sizes == [e \in Elements |-> IF e = large THEN 2 ELSE 1]
=============================================================================
