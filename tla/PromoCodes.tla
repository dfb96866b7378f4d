----------------------------- MODULE PromoCodes -----------------------------
(***************************************************************************)
(* The free year: redeem_free_period and grant_launch_year of              *)
(* billing/subscriptions.py, run by several requests at once.              *)
(*                                                                         *)
(* Each request is one READ COMMITTED transaction that reads the number of *)
(* redemptions, then whether the organisation already had its free year,   *)
(* then inserts.  Nothing is locked between the three; only the unique     *)
(* constraint one_free_period_per_org is checked by the insert itself.     *)
(***************************************************************************)
EXTENDS Naturals, Sequences, FiniteSets

CONSTANTS
    Orgs,
    Codes,     \* promo codes
    Launch,    \* stands for the code in a row of source "launch"
    Cap,       \* max_redemptions of each code
    Requests   \* requests that may be in flight together

ASSUME CapAssumption == Cap \in [Codes -> Nat]
ASSUME LaunchAssumption == Launch \notin Codes
ASSUME RequestsAssumption == IsFiniteSet(Requests)
ASSUME OrgsAssumption == IsFiniteSet(Orgs)

VARIABLES
    orgs,     \* organisations that exist
    active,   \* codes switched on
    rows,     \* database: the promo/launch rows of an organisation, by pk
    closed,   \* organisations whose free period is over (paused or canceled)
    request   \* what each request is doing

vars == <<orgs, active, rows, closed, request>>

Kinds == Codes \cup {Launch}
RequestStates == [pc : {"idle"}]
                     \cup [pc : {"found", "unused"}, org : Orgs, code : Kinds]

TypeOK ==
    /\ orgs \subseteq Orgs
    /\ active \subseteq Codes
    /\ rows \in [Orgs -> Seq(Kinds)]
    /\ closed \subseteq Orgs
    /\ request \in [Requests -> RequestStates]

Init ==
    /\ orgs = Orgs
    /\ active \in SUBSET Codes
    /\ rows = [o \in Orgs |-> <<>>]
    /\ closed = {}
    /\ request = [r \in Requests |-> [pc |-> "idle"]]

-----------------------------------------------------------------------------
\* code.subscriptions.count(): the rows that still carry the code.
Holders(c) == {o \in Orgs : \E i \in DOMAIN rows[o] : rows[o][i] = c}
Redemptions(c) == Cardinality(Holders(c))

\* Mutant: <= for <.
HasOneMore(c) == Redemptions(c) <= Cap[c]
HasRedemptionsLeft(c) == Redemptions(c) < Cap[c]

Become(r, state) == request' = [request EXCEPT ![r] = state]
Done(r) == Become(r, [pc |-> "idle"])

\* find_code: the code is on and has redemptions left.
FindCode(r, o, c) ==
    /\ request[r].pc = "idle"
    /\ o \in orgs
    /\ c \in active
    /\ HasRedemptionsLeft(c)
    /\ Become(r, [pc |-> "found", org |-> o, code |-> c])
    /\ UNCHANGED <<orgs, active, rows, closed>>

\* Mutant: the launch year's row says nothing of where it came from.
NoSource == "none"
LaunchSource == Launch

\* grant_launch_year has no code to look up.
BeginLaunchYear(r, o) ==
    /\ request[r].pc = "idle"
    /\ o \in orgs
    /\ Become(r, [pc |-> "found", org |-> o, code |-> LaunchSource])
    /\ UNCHANGED <<orgs, active, rows, closed>>

\* free_period_used: refused (or None, for the launch year) if a row exists.
CheckUnused(r) ==
    /\ request[r].pc = "found"
    /\ IF rows[request[r].org] = <<>>
         THEN Become(r, [request[r] EXCEPT !.pc = "unused"])
         ELSE Done(r)
    /\ UNCHANGED <<orgs, active, rows, closed>>

\* Mutant: the foreign key only.
MayInsertAgain(o) == o \in orgs
\* What the insert itself checks: the foreign key and the constraint.
MayInsert(o) == o \in orgs /\ rows[o] = <<>>

\* The row is inserted, trialing; or IntegrityError, and the request answers
\* "already had its free year".
CreatePeriod(r) ==
    LET o == request[r].org IN
    /\ request[r].pc = "unused"
    /\ rows' = IF MayInsert(o) THEN [rows EXCEPT ![o] = Append(@, request[r].code)]
               ELSE rows
    /\ Done(r)
    /\ UNCHANGED <<orgs, active, closed>>

\* Mutant: the row of a free period that is over is deleted.
ClosePeriodDeletes(o) ==
    /\ rows[o] # <<>>
    /\ rows' = [rows EXCEPT ![o] = <<>>]
    /\ UNCHANGED <<orgs, active, closed, request>>

\* The daily job pauses the period, or Stripe's subscription takes over.
ClosePeriod(o) ==
    /\ rows[o] # <<>>
    /\ closed' = closed \cup {o}
    /\ UNCHANGED <<orgs, active, rows, request>>

\* delete_organization: the row goes with it, and so does its redemption.
DeleteOrg(o) ==
    /\ o \in orgs
    /\ orgs' = orgs \ {o}
    /\ rows' = [rows EXCEPT ![o] = <<>>]
    /\ closed' = closed \ {o}
    /\ UNCHANGED <<active, request>>

\* An admin switches a code on or off.
ToggleCode(c) ==
    /\ active' = IF c \in active THEN active \ {c} ELSE active \cup {c}
    /\ UNCHANGED <<orgs, rows, closed, request>>

Next ==
    \/ \E r \in Requests, o \in Orgs :
          BeginLaunchYear(r, o) \/ \E c \in Codes : FindCode(r, o, c)
    \/ \E r \in Requests : CheckUnused(r) \/ CreatePeriod(r)
    \/ \E o \in Orgs : ClosePeriod(o) \/ DeleteOrg(o)
    \/ \E c \in Codes : ToggleCode(c)

Spec == Init /\ [][Next]_vars

-----------------------------------------------------------------------------
\* "One free year per organisation, whichever way it came": two tabs, two
\* codes, or a code against the launch year never leave two rows.
OneFreePeriodPerOrg == \A o \in Orgs : Len(rows[o]) <= 1

\* The count is read before the insert, so requests in flight together can
\* overshoot the cap - by one for each other request, and no further; and a
\* code capped at zero is never redeemed.
Pending(c) ==
    {r \in Requests : request[r].pc # "idle" /\ request[r].code = c}
OvershootIsBounded ==
    \A c \in Codes :
        IF Cap[c] = 0 THEN Redemptions(c) = 0
        ELSE Redemptions(c) + Cardinality(Pending(c)) < Cap[c] + Cardinality(Requests)

\* The promise of FreePeriod, seen from these rows.
PeriodOf == [o \in Orgs |->
    IF o \notin orgs THEN "gone"
    ELSE IF rows[o] = <<>> THEN "none"
    ELSE IF o \in closed THEN "closed" ELSE "open"]
FP == INSTANCE FreePeriod WITH period <- PeriodOf
FreePeriodPromise == FP!Spec
=============================================================================
