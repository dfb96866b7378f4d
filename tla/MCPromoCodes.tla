---------------------------- MODULE MCPromoCodes ----------------------------
(* Instances of PromoCodes for TLC: the first code has one redemption left   *)
(* and the others none, so that the cap is met at once.                      *)
EXTENDS PromoCodes, TLC

CONSTANT OpenCode
CapOf == [c \in Codes |-> IF c = OpenCode THEN 1 ELSE 0]
Symmetry == Permutations(Orgs) \cup Permutations(Requests)
=============================================================================
