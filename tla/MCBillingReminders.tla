------------------------- MODULE MCBillingReminders -------------------------
(* Instances of BillingReminders for TLC. *)
EXTENDS BillingReminders, TLC

Symmetry == Permutations(Orgs) \cup Permutations(Jobs) \cup Permutations(Hooks)
=============================================================================
