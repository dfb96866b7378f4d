----------------------------- MODULE FreePeriod -----------------------------
(***************************************************************************)
(* What billing promises about the free year, and nothing of how: an       *)
(* organisation gets one at most, however it came (billing/models.py,      *)
(* one_free_period_per_org), and once it is over - paid for, paused, or    *)
(* gone with the organisation - it never opens again.                      *)
(*                                                                         *)
(* StripeSync, PromoCodes and BillingReminders each implement it, under    *)
(* the refinement mapping its own module gives (PeriodOf).                 *)
(***************************************************************************)
CONSTANT Orgs
VARIABLE period

States == {"none", "open", "closed", "gone"}

TypeOK == period \in [Orgs -> States]

Init == period = [o \in Orgs |-> "none"]

Grant(o) == period[o] = "none" /\ period' = [period EXCEPT ![o] = "open"]
\* The daily job closes in one commit every period it found at its end.
Close(S) ==
    /\ \A o \in S : period[o] = "open"
    /\ period' = [o \in Orgs |-> IF o \in S THEN "closed" ELSE period[o]]
Leave(o) == period[o] # "gone" /\ period' = [period EXCEPT ![o] = "gone"]

Next ==
    \/ \E o \in Orgs : Grant(o) \/ Leave(o)
    \/ \E S \in SUBSET Orgs : Close(S)

Spec == Init /\ [][Next]_period
=============================================================================
