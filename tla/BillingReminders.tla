-------------------------- MODULE BillingReminders --------------------------
(***************************************************************************)
(* The daily job over the free periods, send_free_period_reminders, and    *)
(* what tells the owners: tell_owners, also called by the webhook when a   *)
(* payment fails (billing/subscriptions.py).                               *)
(*                                                                         *)
(* The job runs inside an HTTP request (beedero/views.py:22), so all of it *)
(* is one transaction (orgs/middleware.py:68): what it writes is seen by   *)
(* the others when the request ends, or not at all; the emails it sends    *)
(* are gone at once.  It reads the list of free periods once, at the       *)
(* start, and works through it as the rows go on changing.  The webhook    *)
(* has no such transaction.  An organisation has one owner here: the loop  *)
(* over owners repeats the same steps for each.                            *)
(***************************************************************************)
EXTENDS Naturals, FiniteSets

CONSTANTS
    Orgs,
    Leavers,     \* organisations whose owner may delete them
    Lengths,     \* the stages a free period may start in (a code's free_days)
    Jobs,        \* runs of the job that may overlap (cron and by hand)
    Hooks,       \* webhook workers
    MaxAborts,   \* bound: runs and webhook calls that do not reach their end
    MaxFailures  \* bound: times an organisation goes past due

ASSUME BoundsAssumption ==
    /\ Leavers \subseteq Orgs
    /\ MaxAborts \in Nat /\ MaxFailures \in Nat
ASSUME LengthsAssumption == Lengths \subseteq {"far", "30", "7", "1"}
ASSUME WorkersAssumption == IsFiniteSet(Jobs) /\ IsFiniteSet(Hooks)
ASSUME OrgsAssumption == "idle" \notin Orgs

VARIABLES
    orgs,      \* organisations that exist
    row,       \* database: status of the local free period
    left,      \* the stage the free period is in
    paid,      \* another row of the organisation grants access
    pastDue,   \* Stripe could not charge the organisation and is retrying
    told,      \* database: keys with a Notification, for each organisation
    sent,      \* emails sent, for each organisation and key
    failures,  \* times the organisation went past due
    job,       \* what each run of the job is doing
    hook,      \* the organisation each webhook worker is about to tell
    aborts

envVars == <<orgs, left, paid, pastDue, failures>>
vars == <<envVars, row, told, sent, job, hook, aborts>>

\* REMINDER_DAYS cut a free period into stages; a reminder's key is its stage.
Stages == {"far", "30", "7", "1", "ended"}
Keys == (Stages \ {"far"}) \cup {"payment_failed"}
Next1 == [s \in Stages \ {"ended"} |->
            CASE s = "far" -> "30" [] s = "30" -> "7"
              [] s = "7" -> "1" [] s = "1" -> "ended"]
Statuses == {"none", "trialing", "paused", "canceled"}

JobIdle == [pc |-> "idle", list |-> {}, paused |-> {}, notes |-> {}]
JobStates == [pc : {"idle", "running"}, list : SUBSET (Orgs \X Stages),
              paused : SUBSET Orgs, notes : SUBSET (Orgs \X Keys)]

TypeOK ==
    /\ orgs \subseteq Orgs
    /\ row \in [Orgs -> Statuses]
    /\ left \in [Orgs -> Stages]
    /\ paid \in [Orgs -> BOOLEAN]
    /\ pastDue \in [Orgs -> BOOLEAN]
    /\ told \subseteq Orgs \X Keys
    /\ sent \in [Orgs \X Keys -> Nat]
    /\ failures \in [Orgs -> 0..MaxFailures]
    /\ job \in [Jobs -> JobStates]
    /\ hook \in [Hooks -> {"idle"} \cup Orgs]
    /\ aborts \in 0..MaxAborts

Init ==
    /\ orgs = Orgs
    /\ row = [o \in Orgs |-> "none"]
    /\ left = [o \in Orgs |-> "far"]
    /\ paid = [o \in Orgs |-> FALSE]
    /\ pastDue = [o \in Orgs |-> FALSE]
    /\ told = {}
    /\ sent = [n \in Orgs \X Keys |-> 0]
    /\ failures = [o \in Orgs |-> 0]
    /\ job = [j \in Jobs |-> JobIdle]
    /\ hook = [h \in Hooks |-> "idle"]
    /\ aborts = 0

-----------------------------------------------------------------------------
(* The organisation, its clock and its Stripe subscription *)

\* A run that has paused a row keeps it locked until its transaction ends.
Locked(o) == \E j \in Jobs : o \in job[j].paused

\* Mutant: only a free period still running counts as used.
RunningOnly(o) == row[o] = "trialing"
FreePeriodUsed(o) == row[o] # "none"

RedeemFreePeriod(o) ==
    /\ o \in orgs
    /\ ~FreePeriodUsed(o)
    /\ row' = [row EXCEPT ![o] = "trialing"]
    /\ \E s \in Lengths : left' = [left EXCEPT ![o] = s]
    /\ UNCHANGED <<orgs, paid, pastDue, failures, told, sent, job, hook, aborts>>

TimePasses(o) ==
    /\ row[o] # "none"
    /\ left[o] # "ended"
    /\ left' = [left EXCEPT ![o] = Next1[@]]
    /\ UNCHANGED <<orgs, paid, pastDue, failures, row, told, sent, job, hook, aborts>>

\* sync_stripe_subscription: a Stripe subscription grants access from now on,
\* and a free period still trialing is closed.
TakeOver(o) ==
    /\ o \in orgs
    /\ ~paid[o]
    /\ ~Locked(o)
    /\ paid' = [paid EXCEPT ![o] = TRUE]
    /\ row' = [row EXCEPT ![o] = IF @ = "trialing" THEN "canceled" ELSE @]
    /\ UNCHANGED <<orgs, left, pastDue, failures, told, sent, job, hook, aborts>>

PaidEnds(o) ==
    /\ paid[o]
    /\ paid' = [paid EXCEPT ![o] = FALSE]
    /\ pastDue' = [pastDue EXCEPT ![o] = FALSE]
    /\ UNCHANGED <<orgs, left, failures, row, told, sent, job, hook, aborts>>

\* A retry of the charge goes through.
ChargeSucceeds(o) ==
    /\ pastDue[o]
    /\ pastDue' = [pastDue EXCEPT ![o] = FALSE]
    /\ UNCHANGED <<orgs, left, paid, failures, row, told, sent, job, hook, aborts>>

DeleteOrg(o) ==
    /\ o \in orgs \cap Leavers
    /\ ~Locked(o)
    /\ orgs' = orgs \ {o}
    /\ row' = [row EXCEPT ![o] = "none"]
    /\ paid' = [paid EXCEPT ![o] = FALSE]
    /\ pastDue' = [pastDue EXCEPT ![o] = FALSE]
    /\ UNCHANGED <<left, failures, told, sent, job, hook, aborts>>

-----------------------------------------------------------------------------
(* The job *)

\* Mutant: only the periods still running.
StillRunning == {o \in orgs : row[o] = "trialing" /\ left[o] # "ended"}
FreePeriods == {o \in orgs : row[o] = "trialing"}

\* The queryset is read once: every free period trialing now, with its
\* trial_end, against the `now` of the start.
JobStart(j) ==
    /\ job[j].pc = "idle"
    /\ job' = [job EXCEPT ![j] =
           [pc |-> "running",
            list |-> {<<o, left[o]>> : o \in FreePeriods},
            paused |-> {}, notes |-> {}]]
    /\ UNCHANGED <<envVars, row, told, sent, hook, aborts>>

\* A run is done with some of its list, having paused rows and noted notices.
Works(j, done, paused, notes) ==
    job' = [job EXCEPT ![j] =
               [pc |-> "running", list |-> job[j].list \ done,
                paused |-> job[j].paused \cup paused,
                notes |-> job[j].notes \cup notes]]

Mail(o, k) == sent' = [sent EXCEPT ![<<o, k>>] = @ + 1]

\* Mutant: only this run's own notifications are looked up.
TellAgain(j, n) == n \notin job[j].notes
NotTold(j, n) == n \notin told \cup job[j].notes

\* tell_owners as the job calls it: the Notification waits for the commit and
\* the email does not.  An organisation that is gone has no owners to tell.
Tell(j, o, k, paused) ==
    LET n == <<o, k>>
        news == o \in orgs /\ NotTold(j, n)
    IN /\ Works(j, {o} \X Stages, paused, IF news THEN {n} ELSE {})
       /\ IF news THEN Mail(o, k) ELSE UNCHANGED sent

\* Mutants: no threshold need be near; the last day counts as the end.
AnyStage(k) == TRUE
LastDay == "1"
NearThreshold(k) == k # "far"
PastEnd == "ended"

\* A period still running: the nearest threshold not yet passed, once.
JobRemind(j, o) ==
    /\ \E k \in Stages \ {"ended"} :
          /\ <<o, k>> \in job[j].list
          /\ IF NearThreshold(k)
               THEN Tell(j, o, k, {})
               ELSE Works(j, {<<o, k>>}, {}, {}) /\ UNCHANGED sent
    /\ UNCHANGED <<envVars, row, told, hook, aborts>>

\* A period that ended: save(update_fields=["status", ...]) pauses the row
\* whatever its status has become, then the owners are told unless another
\* row grants access.
JobPause(j, o) ==
    /\ <<o, PastEnd>> \in job[j].list
    /\ o \in orgs
    /\ ~Locked(o)
    /\ IF paid[o]
         THEN Works(j, {<<o, PastEnd>>}, {o}, {}) /\ UNCHANGED sent
         ELSE Tell(j, o, "ended", {o})
    /\ UNCHANGED <<envVars, row, told, hook, aborts>>

JobCommit(j) ==
    /\ job[j].pc = "running"
    /\ job[j].list = {}
    /\ row' = [o \in Orgs |-> IF o \in job[j].paused THEN "paused" ELSE row[o]]
    /\ told' = told \cup job[j].notes
    /\ job' = [job EXCEPT ![j] = JobIdle]
    /\ UNCHANGED <<envVars, sent, hook, aborts>>

\* The row to pause went with its organisation: save() raises DatabaseError
\* and marks the request's transaction for rollback.
JobSaveFails(j, o) ==
    /\ <<o, PastEnd>> \in job[j].list
    /\ o \notin orgs
    /\ aborts < MaxAborts
    /\ aborts' = aborts + 1
    /\ job' = [job EXCEPT ![j] = JobIdle]
    /\ UNCHANGED <<envVars, row, told, sent, hook>>

\* The worker is killed: 90 seconds went by, a deploy, a deadlock.
JobCrash(j) ==
    /\ job[j].pc = "running"
    /\ aborts < MaxAborts
    /\ aborts' = aborts + 1
    /\ job' = [job EXCEPT ![j] = JobIdle]
    /\ UNCHANGED <<envVars, row, told, sent, hook>>

-----------------------------------------------------------------------------
(* The webhook: invoice.payment_failed *)

\* A charge fails, on a subscription we already know or not, and tell_owners
\* finds no Notification.
PaymentFailed(h, o) ==
    /\ hook[h] = "idle"
    /\ o \in orgs
    /\ IF pastDue[o] THEN UNCHANGED failures
       ELSE /\ failures[o] < MaxFailures
            /\ failures' = [failures EXCEPT ![o] = @ + 1]
    /\ pastDue' = [pastDue EXCEPT ![o] = TRUE]
    /\ hook' = IF <<o, "payment_failed">> \in told THEN hook
               ELSE [hook EXCEPT ![h] = o]
    /\ UNCHANGED <<orgs, left, paid, row, told, sent, job, aborts>>

\* notify() commits by itself, then the email goes.
HookTells(h) ==
    LET o == hook[h] IN
    /\ o # "idle"
    /\ told' = told \cup {<<o, "payment_failed">>}
    /\ Mail(o, "payment_failed")
    /\ hook' = [hook EXCEPT ![h] = "idle"]
    /\ UNCHANGED <<envVars, row, job, aborts>>

\* ... or the worker stops, before notify() or between it and the email.
HookCrash(h) ==
    LET o == hook[h] IN
    /\ o # "idle"
    /\ aborts < MaxAborts
    /\ aborts' = aborts + 1
    /\ told' \in {told, told \cup {<<o, "payment_failed">>}}
    /\ hook' = [hook EXCEPT ![h] = "idle"]
    /\ UNCHANGED <<envVars, row, sent, job>>

-----------------------------------------------------------------------------
OrgStep(o) ==
    \/ RedeemFreePeriod(o) \/ TimePasses(o) \/ TakeOver(o) \/ PaidEnds(o)
    \/ ChargeSucceeds(o) \/ DeleteOrg(o)

JobWork(j) == JobCommit(j) \/ \E o \in Orgs : JobRemind(j, o) \/ JobPause(j, o)
JobStep(j) ==
    \/ JobStart(j) \/ JobWork(j) \/ JobCrash(j)
    \/ \E o \in Orgs : JobSaveFails(j, o)

HookStep(h) ==
    \/ HookTells(h) \/ HookCrash(h)
    \/ \E o \in Orgs : PaymentFailed(h, o)

Next ==
    \/ \E o \in Orgs : OrgStep(o)
    \/ \E j \in Jobs : JobStep(j)
    \/ \E h \in Hooks : HookStep(h)

Spec == Init /\ [][Next]_vars

\* The workflow posts the job every day and a worker finishes what it started.
Fairness ==
    /\ \A j \in Jobs : WF_vars(JobStart(j)) /\ WF_vars(JobWork(j))
    /\ \A h \in Hooks : WF_vars(HookTells(h))
FairSpec == Spec /\ Fairness

-----------------------------------------------------------------------------
\* "A free year ends at trial_end": until then it closes only when Stripe has
\* taken over, whatever list an overlapping run is working from.
NoYearCutShort ==
    [][\A o \in orgs' :
          row[o] = "trialing" /\ row'[o] # "trialing"
             => left[o] = "ended" \/ paid'[o]]_vars

\* tell_owners writes "once per `key`".  What the rows of Notification cannot
\* stop is bounded: one email more for each run that did not commit and for
\* each other run, or webhook worker, that overlapped.
DuplicatesAreBounded ==
    \A o \in Orgs, k \in Keys :
        sent[<<o, k>>] <= IF k = "payment_failed" THEN Cardinality(Hooks)
                          ELSE Cardinality(Jobs) + aborts

\* A free year that ended with nothing else to pay the way is never dropped in
\* silence: the owners get the notice that the organisation is paused, unless a
\* plan comes after all or the organisation goes.  (A run that has just paused
\* it is not counted: it asked has_access when there still was another plan.)
EndedYearIsTold ==
    \A o \in Orgs :
        (row[o] = "trialing" /\ left[o] = "ended" /\ ~paid[o] /\ ~Locked(o))
            ~> (sent[<<o, "ended">>] > 0 \/ paid[o] \/ o \notin orgs)

\* The promise of FreePeriod, seen from these rows.
PeriodOf == [o \in Orgs |->
    IF o \notin orgs THEN "gone"
    ELSE IF row[o] = "none" THEN "none"
    ELSE IF row[o] = "trialing" THEN "open" ELSE "closed"]
FP == INSTANCE FreePeriod WITH period <- PeriodOf
FreePeriodPromise == FP!Spec
=============================================================================
