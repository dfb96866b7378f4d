---------------------------- MODULE MCStripeSync ----------------------------
(* Instances of StripeSync for TLC. *)
EXTENDS StripeSync, TLC

Symmetry == Permutations(Workers) \cup Permutations(Subs)
=============================================================================
