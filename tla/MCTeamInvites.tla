---------------------------- MODULE MCTeamInvites ----------------------------
(* Instances of TeamInvites for TLC. *)
EXTENDS TeamInvites, TLC

Symmetry == Permutations(Emails) \cup Permutations(Requests) \cup Permutations(Jobs)
=============================================================================
